---------------------------- MODULE AlertProofs -----------------------------
(***************************************************************************)
(* Theorems about AlertFile for every set of writers, every cap and every  *)
(* number of alerts and resets.                                            *)
(***************************************************************************)
EXTENDS AlertFile, Progress, SequenceTheorems, TLAPS

LEMMA Bounds == Cap \in Nat /\ Cap > 0 /\ MaxAlerts \in Nat /\ MaxResets \in Nat
BY AlertAssumption

-----------------------------------------------------------------------------
(* Type correctness.                                                       *)

LEMMA KeptType ==
  ASSUME NEW list \in Seq(Alerts)
  PROVE  Kept(list) \in Seq(Alerts) /\ Len(Kept(list)) <= Cap
<1> DEFINE m == IF Len(list) > Cap THEN Len(list) - Cap + 1 ELSE 1
<1>1. Len(list) \in Nat /\ m \in 1 .. Len(list) + 1
  BY Bounds, LenProperties
<1>2. \A i \in m .. Len(list) : list[i] \in Alerts
  BY <1>1, ElementOfSeq
<1>3. /\ SubSeq(list, m, Len(list)) \in Seq(Alerts)
      /\ Len(SubSeq(list, m, Len(list))) = IF m <= Len(list) THEN Len(list) - m + 1 ELSE 0
  BY <1>1, <1>2, SubSeqProperties
<1> QED  BY <1>1, <1>3, Bounds DEF Kept

LEMMA SliceType ==
  ASSUME NEW list \in Seq(Alerts), NEW m \in Nat
  PROVE  SubSeq(list, m + 1, Len(list)) \in Seq(Alerts)
<1>1. Len(list) \in Nat
  BY LenProperties
<1>2. \A i \in m + 1 .. Len(list) : list[i] \in Alerts
  BY <1>1, ElementOfSeq
<1> QED  BY <1>1, <1>2, SubSeqProperties

LEMMA InRange ==
  ASSUME NEW s \in Seq(Alerts), NEW i \in 1 .. Len(s)
  PROVE  s[i] \in Range(s)
BY LenProperties DEF Range

Contents == [kind : {"json", "empty", "piece", "torn"}, list : Seq(Alerts), by : SUBSET Writers]

LEMMA ContentTypes ==
  /\ <<>> \in Seq(Alerts) /\ Len(<<>>) = 0
  /\ Empty \in Contents /\ Torn \in Contents
  /\ \A list \in Seq(Alerts) : Json(list) \in Contents
  /\ \A w \in Writers : Piece(w) \in Contents
<1>1. <<>> \in Seq(Alerts) /\ Len(<<>>) = 0
  BY EmptySeq
<1> QED  BY <1>1 DEF Empty, Torn, Json, Piece, Contents

\* What a writer has loaded and is going to write, no longer than the cap if a
\* controller does.
DocType(ds) ==
  ds \in [Writers -> Seq(Alerts)] /\ \A w \in Writers \ Simulators : Len(ds[w]) <= Cap

LEMMA DocChanges ==
  ASSUME DocType(doc), NEW w \in Writers, NEW list \in Seq(Alerts),
         w \notin Simulators => Len(list) <= Cap, doc' = [doc EXCEPT ![w] = list]
  PROVE  DocType(doc')
BY DEF DocType

LEMMA NextType ==
  ASSUME TypeOK, [Next]_vars
  PROVE  TypeOK'
<1> USE Bounds
<1>d. DocType(doc)
  BY DEF TypeOK, DocType
<1>1. ASSUME NEW w \in Writers, Load(w) PROVE TypeOK'
  <2>1. raised' \in 0 .. MaxAlerts /\ raised' \in Alerts /\ base' \in 0 .. raised'
    BY <1>1 DEF Load, Raise, TypeOK, Alerts, resetVars
  <2>2. ASSUME NEW list \in Seq(Alerts)
        PROVE  Longer(w, list) \in Seq(Alerts)
               /\ (w \notin Simulators => Len(Longer(w, list)) <= Cap)
    <3>1. Append(list, raised + 1) \in Seq(Alerts)
      BY <1>1, <2>1, AppendProperties DEF Load, Raise
    <3> QED  BY <3>1, KeptType DEF Longer
  <2>3. DocType(doc')
    <3>1. CASE doc' = doc
      BY <1>d, <3>1
    <3>2. CASE doc' # doc
      <4>1. PICK list \in Seq(Alerts) : doc' = [doc EXCEPT ![w] = Longer(w, list)]
        BY <1>1, <3>2, ContentTypes DEF Load, TypeOK
      <4> QED  BY <1>d, <2>2, <4>1, DocChanges
    <3> QED  BY <3>1, <3>2
  <2>4. pc' \in [Writers -> {"idle", "loaded", "opened", "begun"}]
    BY <1>1 DEF Load, TypeOK
  <2>5. calm' \in BOOLEAN
    BY <1>1 DEF Load, Raise
  <2> QED  BY <1>1, <2>1, <2>3, <2>4, <2>5 DEF Load, Raise, TypeOK, DocType, pollVars, resetVars
<1>2. ASSUME NEW w \in Writers, Open(w) PROVE TypeOK'
  <2>1. file' \in Contents
    BY <1>2, ContentTypes DEF Open
  <2> QED  BY <1>2, <2>1 DEF Open, TypeOK, Contents, pollVars, resetVars
<1>3. ASSUME NEW w \in Writers, WritePiece(w) PROVE TypeOK'
  <2>1. file' \in Contents
    BY <1>3, ContentTypes DEF WritePiece
  <2> QED  BY <1>3, <2>1 DEF WritePiece, TypeOK, Contents, pollVars, resetVars
<1>4. ASSUME NEW w \in Writers, Finish(w) PROVE TypeOK'
  <2>1. doc[w] \in Seq(Alerts)
    BY DEF TypeOK
  <2>2. file' \in Contents
    BY <1>4, <2>1, ContentTypes DEF Finish, Outcomes
  <2>3. DocType(doc')
    <3>1. doc' = [doc EXCEPT ![w] = <<>>]
      BY <1>4 DEF Finish
    <3>2. <<>> \in Seq(Alerts) /\ Len(<<>>) <= Cap
      BY ContentTypes
    <3> QED  BY <1>d, <3>1, <3>2, DocChanges
  <2> QED  BY <1>4, <2>2, <2>3 DEF Finish, TypeOK, DocType, Contents, pollVars, resetVars
<1>5. ASSUME NEW w \in Writers, Fail(w) PROVE TypeOK'
  <2>1. DocType(doc')
    <3>1. doc' = [doc EXCEPT ![w] = <<>>]
      BY <1>5 DEF Fail
    <3>2. <<>> \in Seq(Alerts) /\ Len(<<>>) <= Cap
      BY ContentTypes
    <3> QED  BY <1>d, <3>1, <3>2, DocChanges
  <2> QED  BY <1>5, <2>1 DEF Fail, TypeOK, DocType, pollVars, resetVars
<1>6. CASE PollLoad
  <2>1. read' \in Seq(Alerts)
    BY <1>6 DEF PollLoad, TypeOK
  <2>2. calm' \in BOOLEAN
    BY <1>6 DEF PollLoad
  <2> QED  BY <1>6, <2>1, <2>2 DEF PollLoad, TypeOK, writerVars, resetVars
<1>7. CASE PollCompare
  <2>1. read' \in Seq(Alerts) /\ poll' \in {"sleep", "changed"}
    BY <1>7, ContentTypes DEF PollCompare, TypeOK
  <2> QED  BY <1>7, <2>1 DEF PollCompare, TypeOK, writerVars, resetVars
<1>8. CASE PollSlice
  <2>1. new' \in Seq(Alerts)
    BY <1>8, SliceType DEF PollSlice, TypeOK
  <2> QED  BY <1>8, <2>1 DEF PollSlice, TypeOK, writerVars, resetVars
<1>9. CASE PollMark
  <2>1. prev' \in Nat
    BY <1>9, LenProperties DEF PollMark, TypeOK
  <2> QED  BY <1>9, <2>1, ContentTypes DEF PollMark, TypeOK, writerVars, resetVars
<1>10. CASE PollShow
  <2>1. Head(new) \in Alerts /\ Tail(new) \in Seq(Alerts)
    BY <1>10, HeadTailProperties DEF PollShow, TypeOK
  <2>2. seen' \subseteq Alerts /\ shown' \in [Alerts -> Nat]
    BY <1>10, <2>1 DEF PollShow, TypeOK
  <2> QED  BY <1>10, <2>1, <2>2 DEF PollShow, TypeOK, writerVars, resetVars
<1>17. CASE PollBreak
  <2>1. Head(new) \in Alerts /\ Range(new) \subseteq Alerts /\ Range(Tail(new)) \subseteq Alerts
    <3>1. Head(new) \in Alerts /\ Tail(new) \in Seq(Alerts) /\ new \in Seq(Alerts)
      BY <1>17, HeadTailProperties DEF PollBreak, TypeOK
    <3> QED  BY <3>1, ElementOfSeq DEF Range
  <2>2. seen' \subseteq Alerts /\ shown' \in [Alerts -> Nat] /\ dropped' \subseteq Alerts
    BY <1>17, <2>1 DEF PollBreak, TypeOK
  <2> QED  BY <1>17, <2>2, ContentTypes DEF PollBreak, TypeOK, writerVars, resetVars
<1>11. CASE PollEnd
  BY <1>11 DEF PollEnd, TypeOK, writerVars, resetVars
<1>12. CASE ResetOpen
  <2>1. file' \in Contents
    BY <1>12, ContentTypes DEF ResetOpen
  <2>2. calm' \in BOOLEAN
    BY <1>12 DEF ResetOpen
  <2> QED  BY <1>12, <2>1, <2>2 DEF ResetOpen, TypeOK, Contents, writerVars, pollVars
<1>13. CASE ResetWrite
  <2>1. file' \in Contents
    BY <1>13, ContentTypes DEF ResetWrite
  <2> QED  BY <1>13, <2>1 DEF ResetWrite, TypeOK, Contents, writerVars, pollVars
<1>14. CASE ResetPrev
  BY <1>14 DEF ResetPrev, TypeOK, writerVars, pollVars
<1>15. CASE ResetSeen
  BY <1>15 DEF ResetSeen, TypeOK, writerVars, pollVars
<1>16. CASE UNCHANGED vars
  BY <1>16 DEF vars, writerVars, pollVars, resetVars, TypeOK
<1> QED  BY <1>1, <1>2, <1>3, <1>4, <1>5, <1>6, <1>7, <1>8, <1>9, <1>10, <1>11, <1>12,
            <1>13, <1>14, <1>15, <1>16, <1>17 DEF Next, Section, Poller, Reset, PollFail

\* The file, the documents under way and the poller's counters keep their types:
\* no controller ever writes a list longer than the cap.
THEOREM AlertTypeCorrect == Spec => []TypeOK
<1>1. Init => TypeOK
  BY Bounds, ContentTypes DEF Init, TypeOK, Json, Contents
<1> QED  BY <1>1, NextType, PTL DEF Spec

-----------------------------------------------------------------------------
(* What the page is sent.                                                  *)

\* An alert was shown once for every reset so far, and once more only if its
\* key is known since.
ShownInv == \A a \in Alerts : shown[a] <= resets + (IF a \in seen THEN 1 ELSE 0)

LEMMA ShownStep ==
  ASSUME TypeOK, ShownInv, [Next]_vars
  PROVE  ShownInv'
<1> USE Bounds
<1>1. \A a \in Alerts : shown[a] \in Nat /\ resets \in Nat
  BY DEF TypeOK
<1>2. CASE PollShow
  <2>1. Head(new) \in Alerts
    BY <1>2, HeadTailProperties DEF PollShow, TypeOK
  <2>2. SUFFICES ASSUME NEW a \in Alerts
                 PROVE  shown'[a] <= resets + (IF a \in seen' THEN 1 ELSE 0)
    BY <1>2 DEF PollShow, resetVars, ShownInv
  <2>3. CASE a = Head(new) /\ a \notin seen
    <3>1. shown'[a] = shown[a] + 1 /\ a \in seen'
      BY <1>2, <2>1, <2>3 DEF PollShow, TypeOK
    <3> QED  BY <1>1, <2>3, <3>1 DEF ShownInv
  <2>4. CASE ~ (a = Head(new) /\ a \notin seen)
    <3>1. shown'[a] = shown[a] /\ (a \in seen => a \in seen')
      BY <1>2, <2>1, <2>4 DEF PollShow, TypeOK
    <3> QED  BY <1>1, <3>1 DEF ShownInv
  <2> QED  BY <2>3, <2>4
<1>3. CASE ResetSeen
  <2>1. resets' = resets + 1 /\ shown' = shown
    BY <1>3 DEF ResetSeen, pollVars
  <2> QED  BY <1>1, <2>1 DEF ShownInv
<1>5. CASE PollBreak
  <2>1. Head(new) \in Alerts /\ Head(new) \notin seen
    BY <1>5, HeadTailProperties DEF PollBreak, TypeOK
  <2>2. /\ seen' = seen \cup {Head(new)} /\ resets' = resets
        /\ shown' = shown \/ shown' = [shown EXCEPT ![Head(new)] = @ + 1]
    BY <1>5 DEF PollBreak, resetVars
  <2>3. ASSUME NEW a \in Alerts PROVE shown'[a] <= resets' + (IF a \in seen' THEN 1 ELSE 0)
    <3>1. shown'[a] = shown[a] \/ (a = Head(new) /\ shown'[a] = shown[a] + 1)
      BY <2>1, <2>2 DEF TypeOK
    <3> QED  BY <1>1, <2>1, <2>2, <3>1 DEF ShownInv
  <2> QED  BY <2>3 DEF ShownInv
<1>4. CASE ~ PollShow /\ ~ ResetSeen /\ ~ PollBreak
  <2>1. UNCHANGED <<shown, seen, resets>>
    BY <1>4 DEF Next, Load, Raise, Section, Open, WritePiece, Finish, Fail, Poller, PollLoad,
         PollCompare, PollSlice, PollMark, PollEnd, PollFail, ResetOpen, Reset, ResetWrite,
         ResetPrev, vars, pollVars, resetVars
  <2> QED  BY <2>1 DEF ShownInv
<1> QED  BY <1>2, <1>3, <1>4, <1>5

\* The page is never sent an alert twice between two resets, whatever writers,
\* failures and resets do to the file and to the counters meanwhile.
THEOREM NoAlertTwice == Spec => []ShownOnce
<1>1. Init => ShownInv
  BY DEF Init, ShownInv
<1>2. TypeOK /\ ShownInv /\ [Next]_vars => ShownInv'
  BY ShownStep
<1>3. TypeOK /\ ShownInv => ShownOnce
  <2> SUFFICES ASSUME TypeOK, ShownInv, NEW a \in Alerts PROVE shown[a] <= 1 + resets
    BY DEF ShownOnce
  <2>1. shown[a] \in Nat /\ resets \in Nat
    BY Bounds DEF TypeOK
  <2> QED  BY <2>1 DEF ShownInv
<1> QED  BY <1>1, <1>2, <1>3, AlertTypeCorrect, PTL DEF Spec

-----------------------------------------------------------------------------
(* What the file holds while nothing went wrong.                           *)

\* The list has the newest of r alerts, of the b last ones at least as many as it
\* has to keep.
AreNewest(list, b, r) == \E n \in Enough(b, r) : list = Newest(n, r)

\* The content of the file and the document to be written, while no section
\* met another, a kill or a reset.
CalmInv ==
  calm =>
    /\ \A v, w \in Writers : pc[v] # "idle" /\ pc[w] # "idle" => v = w
    /\ reset # "idle" => ~ Writing /\ base = raised
    /\ \A w \in Writers : /\ pc[w] # "idle" => AreNewest(doc[w], base, raised)
                          /\ pc[w] = "opened" => file = Empty
                          /\ pc[w] = "begun" => file = Piece(w)
    /\ reset = "opened" => file = Empty
    /\ ~ Writing /\ reset # "opened" => file = Json(file.list) /\ AreNewest(file.list, base, raised)

\* Consecutive numbers from d + 1 on.
Run(s, d) == s \in Seq(Nat) /\ \A i \in 1 .. Len(s) : s[i] = d + i

LEMMA SameRun ==
  ASSUME NEW s, NEW t, NEW d \in Nat, Run(s, d), Run(t, d), Len(s) = Len(t)
  PROVE  s = t
BY SeqEqual DEF Run

LEMMA AppendRun ==
  ASSUME NEW s, NEW d \in Nat, Run(s, d)
  PROVE  /\ Run(Append(s, d + Len(s) + 1), d)
         /\ Len(Append(s, d + Len(s) + 1)) = Len(s) + 1
<1> DEFINE e == d + Len(s) + 1
           t == Append(s, e)
<1>1. s \in Seq(Nat) /\ Len(s) \in Nat /\ e \in Nat
  BY LenProperties DEF Run
<1> HIDE DEF e
<1>2. /\ t \in Seq(Nat) /\ Len(t) = Len(s) + 1
      /\ \A i \in 1 .. Len(s) : t[i] = s[i]
      /\ t[Len(s) + 1] = e
  BY <1>1, AppendProperties
<1> HIDE DEF t
<1>3. ASSUME NEW i \in 1 .. Len(t) PROVE t[i] = d + i
  <2>1. CASE i \in 1 .. Len(s)
    BY <1>2, <2>1 DEF Run
  <2>2. CASE i = Len(s) + 1
    BY <1>1, <1>2, <2>2 DEF e
  <2> QED  BY <1>1, <1>2, <2>1, <2>2
<1> QED  BY <1>2, <1>3 DEF Run, t, e

\* What is kept of a run is a run.
LEMMA KeptRun ==
  ASSUME NEW s, NEW d \in Nat, Run(s, d)
  PROVE  IF Len(s) <= Cap THEN Kept(s) = s
                          ELSE Run(Kept(s), d + (Len(s) - Cap)) /\ Len(Kept(s)) = Cap
<1>1. s \in Seq(Nat) /\ Len(s) \in Nat
  BY LenProperties DEF Run
<1>2. CASE Len(s) <= Cap
  <2>1. Kept(s) = SubSeq(s, 1, Len(s))
    <3>1. ~ (Len(s) > Cap)
      BY <1>1, <1>2, Bounds
    <3> QED  BY <3>1 DEF Kept
  <2>2. SubSeq(s, 1, Len(s)) = s
    BY <1>1, SubSeqFull
  <2> QED  BY <1>2, <2>1, <2>2
<1>3. CASE Len(s) > Cap
  <2>0. PICK k \in Nat : k = Len(s) - Cap /\ k > 0
    BY <1>1, <1>3, Bounds
  <2>1. Kept(s) = SubSeq(s, k + 1, Len(s))
    BY <1>1, <1>3, <2>0, Bounds DEF Kept
  <2>2. \A i \in k + 1 .. Len(s) : s[i] \in Nat
    BY <1>1, <2>0, ElementOfSeq
  <2>3. /\ SubSeq(s, k + 1, Len(s)) \in Seq(Nat)
        /\ Len(SubSeq(s, k + 1, Len(s))) = IF k + 1 <= Len(s) THEN Len(s) - (k + 1) + 1 ELSE 0
        /\ \A i \in 1 .. Len(s) - (k + 1) + 1 : SubSeq(s, k + 1, Len(s))[i] = s[k + 1 + i - 1]
    BY <1>1, <2>0, <2>2, SubSeqProperties
  <2>4. Len(Kept(s)) = Cap /\ Len(s) - (k + 1) + 1 = Cap
    BY <1>1, <2>0, <2>1, <2>3, Bounds
  <2>5. ASSUME NEW i \in 1 .. Cap PROVE Kept(s)[i] = (d + k) + i
    <3>1. Kept(s)[i] = s[k + i]
      BY <2>0, <2>1, <2>3, <2>4, Bounds
    <3>2. s[k + i] = d + (k + i)
      <4>1. k + i \in 1 .. Len(s)
        BY <1>1, <2>0, Bounds
      <4> QED  BY <4>1 DEF Run
    <3> QED  BY <2>0, <3>1, <3>2, Bounds
  <2>6. ~ (Len(s) <= Cap)
    BY <1>1, <1>3, Bounds
  <2> QED  BY <2>0, <2>1, <2>3, <2>4, <2>5, <2>6 DEF Run
<1> QED  BY <1>1, <1>2, <1>3, Bounds

LEMMA NewestIsRun ==
  ASSUME NEW r \in Nat, NEW n \in 0 .. r
  PROVE  Run(Newest(n, r), r - n) /\ Len(Newest(n, r)) = n
<1>1. Newest(n, r) = [i \in 1 .. n |-> r - n + i]
  BY DEF Newest
<1>2. \A i \in 1 .. n : r - n + i \in Nat
  OBVIOUS
<1>3. Newest(n, r) \in Seq(Nat) /\ Len(Newest(n, r)) = n
  BY <1>1, <1>2, IsASeq, LenProperties
<1>4. \A i \in 1 .. n : Newest(n, r)[i] = (r - n) + i
  BY <1>1
<1> QED  BY <1>3, <1>4 DEF Run

LEMMA RunIsNewest ==
  ASSUME NEW r \in Nat, NEW n \in 0 .. r, NEW s, Run(s, r - n), Len(s) = n
  PROVE  s = Newest(n, r)
<1>1. Run(Newest(n, r), r - n) /\ Len(Newest(n, r)) = n
  BY NewestIsRun
<1>2. r - n \in Nat
  OBVIOUS
<1> QED  BY <1>1, <1>2, SameRun

LEMMA NewestOfNone == \A r \in Nat : AreNewest(<<>>, r, r)
<1> SUFFICES ASSUME NEW r \in Nat PROVE AreNewest(<<>>, r, r)
  OBVIOUS
<1>1. 0 \in Enough(r, r)
  BY DEF Enough
<1>2. Newest(0, r) \in Seq(Nat) /\ Len(Newest(0, r)) = 0
  BY NewestIsRun DEF Run
<1>3. Newest(0, r) = <<>>
  BY <1>2, EmptySeq
<1> QED  BY <1>1, <1>3 DEF AreNewest

\* Appending the next alert, and keeping the last ones or all, gives newest ones.
LEMMA NewestGrows ==
  ASSUME NEW b \in Nat, NEW r \in Nat, b <= r, NEW s, AreNewest(s, b, r)
  PROVE  /\ AreNewest(Append(s, r + 1), b, r + 1)
         /\ AreNewest(Kept(Append(s, r + 1)), b, r + 1)
<1>1. PICK n \in Enough(b, r) : s = Newest(n, r)
  BY DEF AreNewest
<1>2. n \in 0 .. r /\ n <= r - b /\ (n >= Cap \/ n = r - b)
  BY <1>1 DEF Enough
<1>3. PICK q \in Nat : q = r + 1
  OBVIOUS
<1>4. PICK d \in Nat : d = r - n
  BY <1>2
<1>5. PICK u : u = Append(s, q)
  OBVIOUS
<1>6. Run(s, d) /\ Len(s) = n /\ d + Len(s) + 1 = q
  <2>1. Run(Newest(n, r), r - n) /\ Len(Newest(n, r)) = n
    BY <1>2, NewestIsRun
  <2>2. d + n + 1 = q
    BY <1>2, <1>3, <1>4
  <2> QED  BY <1>1, <1>4, <2>1, <2>2
<1>7. Run(u, d) /\ Len(u) = n + 1
  BY <1>5, <1>6, AppendRun
<1>8. n + 1 \in 0 .. q /\ q - (n + 1) = d /\ n + 1 \in Enough(b, q)
  BY <1>2, <1>3, <1>4, Bounds DEF Enough
<1>9. u = Newest(n + 1, q)
  BY <1>7, <1>8, RunIsNewest
<1>10. AreNewest(u, b, q)
  BY <1>8, <1>9 DEF AreNewest
<1>11. IF Len(u) <= Cap THEN Kept(u) = u
                        ELSE Run(Kept(u), d + (Len(u) - Cap)) /\ Len(Kept(u)) = Cap
  BY <1>7, KeptRun
<1>12. CASE n + 1 <= Cap
  BY <1>3, <1>5, <1>7, <1>10, <1>11, <1>12
<1>13. CASE ~ (n + 1 <= Cap)
  <2>1. /\ Cap \in 0 .. q /\ Cap \in Enough(b, q) /\ d + (n + 1 - Cap) = q - Cap
    BY <1>2, <1>3, <1>4, <1>13, Bounds DEF Enough
  <2>2. Run(Kept(u), q - Cap) /\ Len(Kept(u)) = Cap
    BY <1>7, <1>11, <1>13, <2>1
  <2>3. Kept(u) = Newest(Cap, q)
    BY <2>1, <2>2, RunIsNewest
  <2> QED  BY <1>3, <1>5, <1>10, <2>1, <2>3 DEF AreNewest
<1> QED  BY <1>12, <1>13

LEMMA CalmStep ==
  ASSUME TypeOK, CalmInv, [Next]_vars
  PROVE  CalmInv'
<1> USE DEF CalmInv
<1>1. /\ raised \in Nat /\ base \in Nat /\ base <= raised
      /\ pc \in [Writers -> {"idle", "loaded", "opened", "begun"}]
      /\ doc \in [Writers -> Seq(Alerts)]
  BY Bounds DEF TypeOK
<1>2. ASSUME NEW w \in Writers, Load(w) PROVE CalmInv'
  <2> SUFFICES ASSUME calm' PROVE CalmInv'
    OBVIOUS
  <2>1. calm /\ ~ Writing /\ reset = "idle" /\ reset' = "idle"
    BY <1>2 DEF Load, Raise, resetVars
  <2>2. file = Json(file.list) /\ AreNewest(file.list, base, raised) /\ file' = file
    BY <1>2, <2>1 DEF Load, Raise
  <2>3. file.kind = "json"
    BY <2>2 DEF Json
  <2>4. raised' = raised + 1 /\ base' = base
    BY <1>2 DEF Load, Raise, resetVars
  <2>5. /\ pc' = [pc EXCEPT ![w] = "loaded"]
        /\ doc' = [doc EXCEPT ![w] = Longer(w, file.list)]
    BY <1>2, <2>3 DEF Load
  <2>7. AreNewest(Longer(w, file.list), base', raised')
    BY <1>1, <2>2, <2>4, NewestGrows DEF Longer
  <2>6. \A v \in Writers : pc[v] = "idle"
    BY <2>1 DEF Writing
  <2> QED  BY <1>1, <2>1, <2>4, <2>5, <2>6, <2>7 DEF Writing
<1>3. ASSUME NEW w \in Writers, Open(w) PROVE CalmInv'
  <2>1. /\ pc' = [pc EXCEPT ![w] = "opened"] /\ pc[w] = "loaded" /\ file' = Empty
        /\ UNCHANGED <<doc, raised, base, reset, calm>>
    BY <1>3 DEF Open, resetVars
  <2> QED  BY <1>1, <2>1 DEF Writing
<1>4. ASSUME NEW w \in Writers, WritePiece(w) PROVE CalmInv'
  <2>1. /\ pc' = [pc EXCEPT ![w] = "begun"] /\ pc[w] = "opened"
        /\ file = Empty => file' = Piece(w)
        /\ UNCHANGED <<doc, raised, base, reset, calm>>
    BY <1>4 DEF WritePiece, resetVars
  <2> QED  BY <1>1, <2>1 DEF Writing
<1>5. ASSUME NEW w \in Writers, Finish(w) PROVE CalmInv'
  <2> SUFFICES ASSUME calm' PROVE CalmInv'
    OBVIOUS
  <2>1. /\ pc' = [pc EXCEPT ![w] = "idle"] /\ pc[w] \in {"opened", "begun"}
        /\ UNCHANGED <<raised, base, reset, calm>>
    BY <1>5 DEF Finish, resetVars
  <2>2. AreNewest(doc[w], base, raised) /\ reset = "idle"
    BY <2>1 DEF Writing
  <2>3. file' = Json(doc[w])
    <3>1. pc[w] = "opened" => file = Empty
      BY <2>1
    <3>2. pc[w] = "begun" => file = Piece(w)
      BY <2>1
    <3> QED  BY <1>5, <2>1, <3>1, <3>2 DEF Finish, Outcomes
  <2>4. \A v \in Writers : pc'[v] = "idle"
    BY <1>1, <2>1
  <2> QED  BY <2>1, <2>2, <2>3, <2>4 DEF Writing, Json
<1>6. ASSUME NEW w \in Writers, Fail(w) PROVE CalmInv'
  BY <1>6 DEF Fail
<1>7. CASE ResetOpen
  <2>1. /\ file' = Empty /\ base' = raised' /\ reset' = "opened" /\ pc' = pc
        /\ calm' => ~ Writing
    BY <1>7 DEF ResetOpen, writerVars
  <2> QED  BY <2>1 DEF Writing
<1>8. CASE ResetWrite
  <2>1. /\ reset = "opened" /\ reset' = "cleared"
        /\ file = Empty => file' = Json(<<>>)
        /\ UNCHANGED <<pc, doc, raised, base, calm>>
    BY <1>8 DEF ResetWrite, writerVars
  <2>2. base = raised => AreNewest(<<>>, base, raised)
    BY <1>1, NewestOfNone
  <2> QED  BY <2>1, <2>2 DEF Writing, Json
<1>9. CASE ResetPrev
  BY <1>9 DEF ResetPrev, writerVars, Writing
<1>10. CASE ResetSeen
  BY <1>10 DEF ResetSeen, writerVars, Writing
<1>11. CASE Poller \/ PollBreak \/ UNCHANGED vars
  <2>1. UNCHANGED <<file, writerVars, resetVars>> /\ (calm' => calm)
    <3>1. CASE PollLoad
      BY <3>1 DEF PollLoad
    <3>2. CASE PollCompare
      BY <3>2 DEF PollCompare
    <3>3. CASE PollSlice \/ PollMark \/ PollShow \/ PollEnd \/ PollBreak
      BY <3>3 DEF PollSlice, PollMark, PollShow, PollEnd, PollBreak
    <3>4. CASE UNCHANGED vars
      BY <3>4 DEF vars
    <3> QED  BY <1>11, <3>1, <3>2, <3>3, <3>4 DEF Poller
  <2> QED  BY <2>1 DEF Writing, writerVars, resetVars
<1> QED  BY <1>2, <1>3, <1>4, <1>5, <1>6, <1>7, <1>8, <1>9, <1>10, <1>11
         DEF Next, Section, Reset, PollFail

\* Sections that do not meet lose no alert: between them the file holds the
\* newest alerts since the last reset, for every cap, also past it, and for
\* controllers and simulators in any order.
THEOREM CalmFileCorrect == Spec => []CalmFileIsComplete
<1>1. Init => CalmInv
  <2> SUFFICES ASSUME Init PROVE CalmInv
    OBVIOUS
  <2>1. AreNewest(<<>>, base, raised)
    BY NewestOfNone DEF Init
  <2> QED  BY <2>1 DEF Init, CalmInv, Writing, Json
<1>2. TypeOK /\ CalmInv /\ [Next]_vars => CalmInv'
  BY CalmStep
<1>3. CalmInv => CalmFileIsComplete
  BY DEF CalmInv, CalmFileIsComplete, AreNewest
<1> QED  BY <1>1, <1>2, <1>3, AlertTypeCorrect, PTL DEF Spec

-----------------------------------------------------------------------------
(* What the poller has shown.                                              *)

\* The number of the last alert whose writer is done.
Recorded == IF Writing THEN raised - 1 ELSE raised

\* The alerts whose key is known were shown, or a round broke off over them.
SeenInv == \A b \in seen : shown[b] > 0 \/ b \in dropped

\* A writer that has loaded the list has changed nothing yet, and a reset waits
\* for the poller's round.
RoundInv ==
  /\ Writing => base < raised
  /\ \A w \in Writers : pc[w] = "loaded" =>
       file = Json(file.list) /\ AreNewest(file.list, base, raised - 1)
  /\ reset # "idle" => poll = "sleep"

\* The list did not reach the cap, and the poller's count is one of this list.
Counting == raised - base <= Cap /\ reset \in {"idle", "forgetting"}

\* A list in the poller's hands is the beginning of what is recorded, ...
ListInv ==
  /\ base + prev <= Recorded
  /\ poll \in {"loaded", "changed", "sliced"} =>
       Run(read, base) /\ prev <= Len(read) /\ base + Len(read) <= Recorded
  /\ poll = "sliced" => new = SubSeq(read, prev + 1, Len(read))

\* ... and of the alerts it counted it has none skipped.
NoneSkipped ==
  \A b \in base + 1 .. base + prev :
    \/ shown[b] > 0 \/ b \in dropped
    \/ poll = "showing" /\ \E i \in 1 .. Len(new) : new[i] = b

PollInv == calm => RoundInv /\ (Counting => ListInv /\ NoneSkipped)

LEMMA PollTypes ==
  ASSUME TypeOK
  PROVE  /\ raised \in Nat /\ base \in Nat /\ prev \in Nat /\ base <= raised /\ Recorded \in Int
         /\ read \in Seq(Alerts) /\ Len(read) \in Nat /\ new \in Seq(Alerts) /\ Len(new) \in Nat
         /\ \A b \in Alerts : b \in Nat /\ shown[b] \in Nat
         /\ pc \in [Writers -> {"idle", "loaded", "opened", "begun"}]
         /\ shown \in [Alerts -> Nat]
<1>1. /\ raised \in Nat /\ base \in Nat /\ prev \in Nat /\ base <= raised
      /\ read \in Seq(Alerts) /\ new \in Seq(Alerts)
  BY Bounds DEF TypeOK
<1>2. Len(read) \in Nat /\ Len(new) \in Nat
  BY <1>1, LenProperties
<1> QED  BY <1>1, <1>2, Bounds DEF TypeOK, Recorded, Alerts

LEMMA SeenStep ==
  ASSUME TypeOK, SeenInv, [Next]_vars
  PROVE  SeenInv'
<1>1. CASE PollShow
  <2>1. Head(new) \in Alerts
    BY <1>1, PollTypes, HeadTailProperties DEF PollShow
  <2>2. SUFFICES ASSUME NEW b \in seen' PROVE shown'[b] > 0 \/ b \in dropped'
    BY DEF SeenInv
  <2>3. shown' = [shown EXCEPT ![Head(new)] = IF Head(new) \in seen THEN @ ELSE @ + 1]
        /\ seen' = seen \cup {Head(new)} /\ dropped' = dropped
    BY <1>1 DEF PollShow
  <2>4. CASE b \in seen
    <3>1. b \in Alerts /\ (shown[b] > 0 \/ b \in dropped)
      BY <2>4 DEF SeenInv, TypeOK
    <3> QED  BY <2>1, <2>3, <2>4, <3>1, PollTypes
  <2>5. CASE b = Head(new) /\ b \notin seen
    BY <2>1, <2>3, <2>5, PollTypes
  <2> QED  BY <2>3, <2>4, <2>5
<1>2. CASE PollBreak
  <2>1. /\ Head(new) \in Alerts /\ Head(new) \in Range(new)
    <3>1. Head(new) = new[1] /\ Head(new) \in Alerts /\ Len(new) \in Nat /\ Len(new) # 0
      BY <1>2, PollTypes, HeadTailProperties, EmptySeq DEF PollBreak
    <3> QED  BY <3>1 DEF Range
  <2>2. /\ seen' = seen \cup {Head(new)} /\ Head(new) \notin seen
        /\ dropped \subseteq dropped'
        /\ \/ shown' = shown /\ Head(new) \in dropped'
           \/ shown' = [shown EXCEPT ![Head(new)] = @ + 1]
    BY <1>2, <2>1 DEF PollBreak
  <2>3. ASSUME NEW b \in seen' PROVE shown'[b] > 0 \/ b \in dropped'
    <3>1. CASE b \in seen
      <4>1. b \in Alerts /\ (shown[b] > 0 \/ b \in dropped)
        BY <3>1 DEF SeenInv, TypeOK
      <4>2. shown'[b] = shown[b]
        BY <2>1, <2>2, <3>1, <4>1, PollTypes
      <4> QED  BY <2>2, <4>1, <4>2
    <3>2. CASE b = Head(new)
      BY <2>1, <2>2, <3>2, PollTypes
    <3> QED  BY <2>2, <3>1, <3>2
  <2> QED  BY <2>3 DEF SeenInv
<1>3. CASE ~ PollShow /\ ~ PollBreak
  <2>1. shown' = shown /\ dropped' = dropped /\ (seen' = seen \/ seen' = {})
    BY <1>3 DEF Next, Load, Raise, Section, Open, WritePiece, Finish, Fail, Poller, PollLoad,
         PollCompare, PollSlice, PollMark, PollEnd, PollFail, ResetOpen, Reset, ResetWrite,
         ResetPrev, ResetSeen, vars, pollVars
  <2> QED  BY <2>1 DEF SeenInv
<1> QED  BY <1>1, <1>2, <1>3

\* Below the cap the newest alerts are all of them.
LEMMA AllNewest ==
  ASSUME NEW b \in Nat, NEW r \in Nat, b <= r, r - b <= Cap, NEW list, AreNewest(list, b, r)
  PROVE  Run(list, b) /\ Len(list) = r - b
<1>1. PICK n \in Enough(b, r) : list = Newest(n, r)
  BY DEF AreNewest
<1>2. n = r - b /\ n \in 0 .. r /\ r - n = b
  BY <1>1, Bounds DEF Enough
<1> QED  BY <1>1, <1>2, NewestIsRun

\* What writers do does not concern the poller.
LEMMA WriterKeeps ==
  ASSUME TypeOK, PollInv, calm, RoundInv', raised' \in Nat, raised <= raised',
         Recorded <= Recorded', Recorded' \in Int, UNCHANGED <<pollVars, prev, resetVars>>
  PROVE  PollInv'
<1>1. Counting' => Counting
  BY PollTypes, Bounds DEF Counting, resetVars
<1>2. ASSUME Counting' PROVE ListInv'
  <2>1. ListInv
    BY <1>1, <1>2 DEF PollInv
  <2>2. base + Len(read) \in Int /\ base + prev \in Int /\ Recorded \in Int
    BY PollTypes
  <2> QED  BY <2>1, <2>2 DEF ListInv, pollVars, resetVars
<1>3. Counting' => NoneSkipped'
  BY <1>1 DEF PollInv, NoneSkipped, pollVars, resetVars
<1> QED  BY <1>2, <1>3 DEF PollInv

\* What the poller does does not concern the writers.
LEMMA PollerKeeps ==
  ASSUME TypeOK, PollInv, calm, UNCHANGED <<file, writerVars, resetVars>>, reset = "idle",
         Counting => ListInv' /\ NoneSkipped'
  PROVE  PollInv'
<1>1. RoundInv' /\ Counting' = Counting
  BY DEF PollInv, RoundInv, Counting, Writing, writerVars, resetVars
<1> QED  BY <1>1 DEF PollInv

LEMMA PollWriters ==
  ASSUME TypeOK, TypeOK', CalmInv, PollInv, calm', NEW w \in Writers,
         Load(w) \/ Section(w) \/ Fail(w)
  PROVE  PollInv'
<1>t. /\ raised \in Nat /\ raised' \in Nat /\ base \in Nat /\ base <= raised
      /\ pc \in [Writers -> {"idle", "loaded", "opened", "begun"}]
  BY PollTypes DEF TypeOK
<1>1. CASE Load(w)
  <2>1. calm /\ ~ Writing /\ reset = "idle"
    BY <1>1 DEF Load, Raise
  <2>2. file = Json(file.list) /\ AreNewest(file.list, base, raised)
    BY <2>1 DEF CalmInv
  <2>3. file.kind = "json"
    BY <2>2 DEF Json
  <2>4. /\ raised' = raised + 1 /\ pc' = [pc EXCEPT ![w] = "loaded"] /\ file' = file
        /\ UNCHANGED <<pollVars, prev, resetVars>>
    BY <1>1, <2>3 DEF Load, Raise
  <2>5. Writing' /\ Recorded' = Recorded /\ raised' - 1 = raised
    BY <1>t, <2>1, <2>4 DEF Writing, Recorded
  <2>6. RoundInv'
    BY <1>t, <2>1, <2>2, <2>4, <2>5 DEF PollInv, RoundInv, resetVars, pollVars
  <2> QED  BY <1>t, <2>1, <2>4, <2>5, <2>6, PollTypes, WriterKeeps
<1>2. CASE Open(w) \/ WritePiece(w)
  <2>1. /\ pc[w] # "idle" /\ pc'[w] \in {"opened", "begun"}
        /\ \A v \in Writers \ {w} : pc'[v] = pc[v]
        /\ UNCHANGED <<raised, pollVars, prev, resetVars, calm>>
    BY <1>t, <1>2 DEF Open, WritePiece
  <2>2. \A v \in Writers : pc[v] # "idle" => v = w
    BY <2>1 DEF CalmInv
  <2>3. Writing /\ Writing' /\ Recorded' = Recorded
    BY <2>1 DEF Writing, Recorded
  <2>4. RoundInv'
    BY <2>1, <2>2, <2>3 DEF PollInv, RoundInv, resetVars, pollVars
  <2> QED  BY <1>t, <2>1, <2>3, <2>4, PollTypes, WriterKeeps
<1>3. CASE Finish(w)
  <2>1. /\ pc[w] # "idle" /\ pc' = [pc EXCEPT ![w] = "idle"]
        /\ UNCHANGED <<raised, pollVars, prev, resetVars, calm>>
    BY <1>3 DEF Finish
  <2>2. \A v \in Writers : pc[v] # "idle" => v = w
    BY <2>1 DEF CalmInv
  <2>3. Writing /\ ~ Writing' /\ Recorded = raised - 1 /\ Recorded' = raised
    BY <1>t, <2>1, <2>2 DEF Writing, Recorded
  <2>4. RoundInv'
    BY <1>t, <2>1, <2>2, <2>3 DEF PollInv, RoundInv, resetVars, pollVars
  <2> QED  BY <1>t, <2>1, <2>3, <2>4, PollTypes, WriterKeeps
<1>4. CASE Fail(w)
  BY <1>4 DEF Fail
<1> QED  BY <1>1, <1>2, <1>3, <1>4 DEF Section

LEMMA PollResets ==
  ASSUME TypeOK, CalmInv, PollInv, calm', ResetOpen \/ Reset
  PROVE  PollInv'
<1>t. raised \in Nat /\ base \in Nat
  BY PollTypes
<1>1. CASE ResetOpen
  <2>1. calm /\ ~ Writing /\ poll = "sleep" /\ poll' = "sleep" /\ reset' = "opened" /\ pc' = pc
    BY <1>1 DEF ResetOpen, pollVars, writerVars
  <2>2. RoundInv' /\ ~ Counting'
    BY <1>t, <2>1 DEF RoundInv, Counting, Writing, TypeOK
  <2> QED  BY <2>2 DEF PollInv
<1>2. CASE Reset
  <2>1. calm /\ reset # "idle" /\ ~ Writing /\ base = raised /\ poll = "sleep"
        /\ UNCHANGED <<writerVars, poll, read, new, shown, base>>
    BY <1>2 DEF Reset, ResetWrite, ResetPrev, ResetSeen, CalmInv, PollInv, RoundInv, pollVars
  <2>2. RoundInv'
    BY <2>1 DEF RoundInv, Writing, writerVars
  <2>3. CASE ResetWrite
    BY <2>2, <2>3 DEF ResetWrite, PollInv, Counting
  <2>4. ASSUME prev' = 0 PROVE PollInv'
    <3>1. Recorded' = raised /\ base' = raised
      BY <2>1 DEF Recorded, Writing, writerVars
    <3>2. ListInv' /\ NoneSkipped'
      BY <1>t, <2>1, <2>4, <3>1 DEF ListInv, NoneSkipped
    <3> QED  BY <2>2, <3>2 DEF PollInv
  <2>5. CASE ResetSeen
    <3>1. Counting
      BY <1>t, <2>1, <2>5, Bounds DEF Counting, ResetSeen
    <3>2. base + prev <= raised
      BY <2>1, <3>1 DEF PollInv, ListInv, Recorded
    <3>3. prev' = 0
      BY <1>t, <2>1, <2>5, <3>2, PollTypes DEF ResetSeen
    <3> QED  BY <2>4, <3>3
  <2> QED  BY <1>2, <2>3, <2>4, <2>5 DEF Reset, ResetPrev
<1> QED  BY <1>1, <1>2

\* What a round loads is what is recorded.
LEMMA LoadedIsRecorded ==
  ASSUME TypeOK, CalmInv, PollInv, calm, reset = "idle", file.kind = "json", raised - base <= Cap
  PROVE  Run(file.list, base) /\ base + Len(file.list) = Recorded
<1>t. raised \in Nat /\ base \in Nat /\ base <= raised
  BY PollTypes
<1>1. CASE ~ Writing
  <2>1. AreNewest(file.list, base, raised)
    BY <1>1 DEF CalmInv
  <2>2. Run(file.list, base) /\ Len(file.list) = raised - base
    BY <1>t, <2>1, AllNewest
  <2>3. base + Len(file.list) = raised
    BY <1>t, <2>2
  <2> QED  BY <1>1, <2>2, <2>3 DEF Recorded
<1>2. CASE Writing
  <2>1. PICK w \in Writers : pc[w] # "idle"
    BY <1>2 DEF Writing
  <2>2. pc[w] = "loaded"
    <3>1. pc[w] \in {"idle", "loaded", "opened", "begun"}
      BY PollTypes
    <3>2. Empty.kind = "empty" /\ Piece(w).kind = "piece"
      BY DEF Empty, Piece
    <3>3. pc[w] # "opened" /\ pc[w] # "begun"
      BY <3>2 DEF CalmInv
    <3> QED  BY <2>1, <3>1, <3>3
  <2>3. AreNewest(file.list, base, raised - 1) /\ base < raised
    BY <1>2, <2>2 DEF PollInv, RoundInv
  <2>4. raised - 1 \in Nat /\ base <= raised - 1 /\ raised - 1 - base <= Cap
    BY <1>t, <2>3, Bounds
  <2>5. Run(file.list, base) /\ Len(file.list) = raised - 1 - base
    BY <1>t, <2>3, <2>4, AllNewest
  <2> QED  BY <1>t, <1>2, <2>3, <2>5 DEF Recorded
<1> QED  BY <1>1, <1>2

\* The list holds the alert.
Holds(s, b) == \E i \in 1 .. Len(s) : s[i] = b

\* The slice holds what was not counted yet.
LEMMA SliceIsRest ==
  ASSUME NEW s \in Seq(Alerts), NEW d \in Nat, NEW m \in Nat, Run(s, d), m <= Len(s),
         NEW b \in d + m + 1 .. d + Len(s)
  PROVE  Holds(SubSeq(s, m + 1, Len(s)), b)
<1> USE DEF Holds
<1> DEFINE t == SubSeq(s, m + 1, Len(s))
           i == b - d - m
<1>1. Len(s) \in Nat /\ \A j \in m + 1 .. Len(s) : s[j] \in Alerts
  BY LenProperties, ElementOfSeq
<1>2. i \in 1 .. Len(s) - m /\ m + 1 <= Len(s)
  BY <1>1
<1>3. /\ Len(t) = Len(s) - (m + 1) + 1
      /\ \A j \in 1 .. Len(s) - (m + 1) + 1 : t[j] = s[m + 1 + j - 1]
  BY <1>1, <1>2, SubSeqProperties
<1>4. t[i] = s[m + 1 + i - 1] /\ m + 1 + i - 1 = b - d /\ i \in 1 .. Len(t)
  BY <1>1, <1>2, <1>3
<1>5. s[b - d] = b
  BY <1>1 DEF Run
<1> QED  BY <1>4, <1>5

LEMMA PollRounds ==
  ASSUME TypeOK, SeenInv, CalmInv, PollInv, calm', Poller \/ PollBreak
  PROVE  PollInv'
<1>t. /\ raised \in Nat /\ base \in Nat /\ base <= raised /\ prev \in Nat /\ Recorded \in Int
      /\ read \in Seq(Alerts) /\ Len(read) \in Nat /\ new \in Seq(Alerts) /\ Len(new) \in Nat
  BY PollTypes
<1>1. calm /\ reset = "idle" /\ UNCHANGED <<file, writerVars, resetVars>>
  <2>1. calm /\ UNCHANGED <<file, writerVars, resetVars>>
    BY DEF Poller, PollLoad, PollCompare, PollSlice, PollMark, PollShow, PollEnd, PollBreak
  <2>2. poll # "sleep" \/ reset = "idle"
    BY DEF Poller, PollLoad, PollCompare, PollSlice, PollMark, PollShow, PollEnd, PollBreak
  <2> QED  BY <2>1, <2>2 DEF PollInv, RoundInv
<1>2. SUFFICES ASSUME Counting PROVE ListInv' /\ NoneSkipped'
  BY <1>1, PollerKeeps
<1>3. ListInv /\ NoneSkipped /\ base' = base /\ Recorded' = Recorded
  BY <1>1, <1>2 DEF PollInv, Recorded, Writing, writerVars, resetVars
<1>4. CASE PollLoad
  <2>1. Run(file.list, base) /\ base + Len(file.list) = Recorded
    BY <1>1, <1>2, <1>4, LoadedIsRecorded DEF PollLoad, Counting
  <2>2. read' = file.list /\ poll = "sleep" /\ poll' = "loaded" /\ UNCHANGED <<new, shown, dropped, prev>>
    BY <1>4 DEF PollLoad
  <2>3. Len(file.list) \in Nat
    BY <2>1, LenProperties DEF Run
  <2>4. ListInv'
    BY <1>t, <1>3, <2>1, <2>2, <2>3 DEF ListInv
  <2> QED  BY <1>3, <2>2, <2>4 DEF NoneSkipped
<1>5. CASE PollCompare
  <2>1. poll = "loaded" /\ ((poll' = "changed" /\ read' = read) \/ poll' = "sleep")
        /\ UNCHANGED <<new, shown, dropped, prev>>
    BY <1>5 DEF PollCompare
  <2> QED  BY <1>3, <2>1 DEF ListInv, NoneSkipped
<1>6. CASE PollSlice
  <2>1. poll = "changed" /\ poll' = "sliced" /\ UNCHANGED <<read, shown, dropped, prev>>
        /\ new' = SubSeq(read, prev + 1, Len(read))
    BY <1>6 DEF PollSlice
  <2> QED  BY <1>3, <2>1 DEF ListInv, NoneSkipped
<1>7. CASE PollMark
  <2>1. poll = "sliced" /\ poll' = "showing" /\ prev' = Len(read) /\ UNCHANGED <<new, shown, dropped>>
    BY <1>7 DEF PollMark
  <2>2. /\ Run(read, base) /\ prev <= Len(read) /\ base + Len(read) <= Recorded
        /\ new = SubSeq(read, prev + 1, Len(read))
    BY <1>3, <2>1 DEF ListInv
  <2>3. ListInv'
    BY <1>3, <2>1, <2>2 DEF ListInv
  <2>4. ASSUME NEW b \in base + 1 .. base + Len(read)
        PROVE  shown[b] > 0 \/ b \in dropped \/ \E i \in 1 .. Len(new) : new[i] = b
    <3>1. CASE b <= base + prev
      <4>1. b \in base + 1 .. base + prev
        BY <1>t, <3>1
      <4> QED  BY <1>3, <2>1, <4>1 DEF NoneSkipped
    <3>2. CASE b > base + prev
      <4>1. b \in base + prev + 1 .. base + Len(read)
        BY <1>t, <3>2
      <4>2. Holds(SubSeq(read, prev + 1, Len(read)), b)
        BY <1>t, <2>2, <4>1, SliceIsRest
      <4> QED  BY <2>2, <4>2 DEF Holds
    <3> QED  BY <1>t, <3>1, <3>2
  <2> QED  BY <1>3, <2>1, <2>3, <2>4 DEF NoneSkipped
<1>8. CASE PollShow
  <2>1. /\ poll = "showing" /\ poll' = "showing" /\ new # <<>> /\ new' = Tail(new)
        /\ shown' = [shown EXCEPT ![Head(new)] = IF Head(new) \in seen THEN @ ELSE @ + 1]
        /\ UNCHANGED <<read, dropped, prev>>
    BY <1>8 DEF PollShow
  <2>2. /\ Head(new) = new[1] /\ Head(new) \in Alerts /\ Len(Tail(new)) = Len(new) - 1
        /\ \A i \in 1 .. Len(new) - 1 : Tail(new)[i] = new[i + 1]
    BY <1>t, <2>1, HeadTailProperties
  <2>3. ListInv'
    BY <1>3, <2>1 DEF ListInv
  <2>4. shown'[Head(new)] > 0 \/ Head(new) \in dropped
    BY <2>1, <2>2, PollTypes DEF SeenInv
  <2>5. ASSUME NEW b \in base + 1 .. base + prev
        PROVE  shown'[b] > 0 \/ b \in dropped \/ \E i \in 1 .. Len(new') : new'[i] = b
    <3>1. CASE b = Head(new)
      BY <2>4, <3>1
    <3>2. CASE b # Head(new) /\ shown[b] > 0
      <4>1. shown'[b] = shown[b]
        BY <2>1, <2>2, <3>2, PollTypes
      <4> QED  BY <3>2, <4>1
    <3>3. ASSUME b # Head(new), NEW i \in 1 .. Len(new), new[i] = b
          PROVE  \E j \in 1 .. Len(new') : new'[j] = b
      <4>1. i # 1
        BY <2>2, <3>3
      <4>2. i - 1 \in 1 .. Len(new) - 1 /\ (i - 1) + 1 = i
        BY <1>t, <4>1
      <4> QED  BY <2>1, <2>2, <3>3, <4>2
    <3> QED  BY <1>3, <3>1, <3>2, <3>3 DEF NoneSkipped
  <2> QED  BY <1>3, <2>1, <2>3, <2>5 DEF NoneSkipped
<1>9. CASE PollEnd
  <2>1. poll = "showing" /\ poll' = "sleep" /\ new = <<>> /\ UNCHANGED <<read, new, shown, dropped, prev>>
    BY <1>9 DEF PollEnd
  <2>2. 1 .. Len(new) = {}
    BY <2>1
  <2> QED  BY <1>3, <2>1, <2>2 DEF ListInv, NoneSkipped
<1>10. CASE PollBreak
  <2>1. /\ poll = "showing" /\ poll' = "sleep" /\ UNCHANGED <<read, prev>> /\ new # <<>>
        /\ dropped \subseteq dropped'
        /\ \/ shown' = shown /\ dropped' = dropped \cup Range(new)
           \/ shown' = [shown EXCEPT ![Head(new)] = @ + 1]
              /\ dropped' = dropped \cup Range(Tail(new))
    BY <1>10 DEF PollBreak
  <2>2. ListInv'
    BY <1>3, <2>1 DEF ListInv
  <2>3. /\ Head(new) = new[1] /\ Head(new) \in Alerts /\ Len(Tail(new)) = Len(new) - 1
        /\ \A i \in 1 .. Len(new) - 1 : Tail(new)[i] = new[i + 1]
    BY <1>t, <2>1, HeadTailProperties
  <2>4. ASSUME NEW i \in 1 .. Len(new), NEW b \in Alerts, new[i] = b
        PROVE  shown'[b] > 0 \/ b \in dropped'
    <3>1. CASE i = 1
      <4>1. i \in 1 .. Len(new) /\ b = Head(new)
        BY <2>3, <2>4, <3>1
      <4>2. CASE dropped' = dropped \cup Range(new)
        BY <2>4, <4>2 DEF Range
      <4>3. CASE shown' = [shown EXCEPT ![Head(new)] = @ + 1]
        BY <2>3, <4>1, <4>3, PollTypes
      <4> QED  BY <2>1, <4>2, <4>3
    <3>2. CASE i # 1
      <4>1. i - 1 \in 1 .. Len(Tail(new)) /\ Tail(new)[i - 1] = b
        BY <1>t, <2>3, <2>4, <3>2
      <4>2. b \in Range(new)
        BY <2>4 DEF Range
      <4>3. b \in Range(Tail(new))
        <5>1. Tail(new) \in Seq(Alerts)
          BY <1>t, <2>1, HeadTailProperties
        <5> QED  BY <4>1, <5>1, InRange
      <4> QED  BY <2>1, <4>2, <4>3
    <3> QED  BY <3>1, <3>2
  <2>5. ASSUME NEW b \in base + 1 .. base + prev
        PROVE  shown'[b] > 0 \/ b \in dropped'
    <3>1. CASE shown[b] > 0 /\ b \in Alerts
      <4>1. shown'[b] >= shown[b]
        BY <2>1, <2>3, <3>1, PollTypes
      <4>2. shown'[b] \in Int
        BY <2>1, <2>3, <3>1, PollTypes
      <4> QED  BY <3>1, <4>1, <4>2, PollTypes
    <3>2. CASE b \in dropped
      BY <2>1, <3>2
    <3>3. CASE b \in Alerts /\ \E i \in 1 .. Len(new) : new[i] = b
      BY <2>4, <3>3
    <3>4. b \in Alerts
      <4>1. base + prev <= Recorded /\ Recorded <= raised /\ raised <= MaxAlerts
        BY <1>t, <1>3, Bounds DEF ListInv, Recorded, TypeOK
      <4> QED  BY <1>t, <4>1, Bounds DEF Alerts
    <3> QED  BY <1>3, <2>1, <3>1, <3>2, <3>3, <3>4 DEF NoneSkipped
  <2> QED  BY <1>3, <2>1, <2>2, <2>5 DEF NoneSkipped
<1> QED  BY <1>4, <1>5, <1>6, <1>7, <1>8, <1>9, <1>10 DEF Poller

LEMMA PollStep ==
  ASSUME TypeOK, TypeOK', SeenInv, CalmInv, PollInv, [Next]_vars
  PROVE  PollInv'
<1> SUFFICES ASSUME calm' PROVE PollInv'
  BY DEF PollInv
<1>1. CASE UNCHANGED vars
  BY <1>1 DEF PollInv, RoundInv, Counting, ListInv, NoneSkipped, Recorded, Writing, vars,
              writerVars, pollVars, resetVars
<1> QED  BY <1>1, PollWriters, PollResets, PollRounds DEF Next, PollFail

\* The state of the whole: what PollInv rests on.
WholeInv == TypeOK /\ SeenInv /\ CalmInv /\ PollInv

LEMMA WholeCorrect == Spec => []WholeInv
<1>1. Init => WholeInv
  <2> SUFFICES ASSUME Init PROVE WholeInv
    OBVIOUS
  <2>1. TypeOK
    BY Bounds, ContentTypes DEF Init, TypeOK, Json, Contents
  <2>2. AreNewest(<<>>, base, raised)
    BY NewestOfNone DEF Init
  <2>3. CalmInv
    BY <2>2 DEF Init, CalmInv, Writing, Json
  <2>4. SeenInv /\ PollInv
    BY DEF Init, SeenInv, PollInv, RoundInv, Counting, ListInv, NoneSkipped, Recorded, Writing
  <2> QED  BY <2>1, <2>3, <2>4 DEF WholeInv
<1>2. WholeInv /\ [Next]_vars => WholeInv'
  BY NextType, SeenStep, CalmStep, PollStep DEF WholeInv
<1> QED  BY <1>1, <1>2, PTL DEF Spec

\* Below the cap, and while no section met another, a kill or a reset, the poller
\* skips no alert it has counted but those of a round that broke off while sending,
\* whatever it reads between the system calls of the writers and in which order
\* its own statements fall (app.py:88-101).
SkipsNone ==
  calm /\ raised - base <= Cap /\ reset = "idle" /\ poll = "sleep" =>
    \A b \in base + 1 .. base + prev : shown[b] > 0 \/ b \in dropped

THEOREM PollerSkipsNone == Spec => []SkipsNone
<1>1. WholeInv => SkipsNone
  BY DEF WholeInv, PollInv, Counting, NoneSkipped, SkipsNone
<1> QED  BY <1>1, WholeCorrect, PTL

-----------------------------------------------------------------------------
(* What it will show.                                                      *)

\* The alert was raised, and nothing ended the promise to show it.
Due(a) ==
  a <= raised /\ shown[a] = 0 /\ a \notin dropped /\ a > base /\ raised - base <= Cap /\ calm

\* Its writer is done; and a round has it in its hands.
OnFile(a) == a <= Recorded
InHand(a) ==
  \/ poll \in {"loaded", "changed", "sliced"} /\ a <= base + Len(read)
  \/ poll = "showing" /\ a <= base + prev

LEMMA DueFacts ==
  ASSUME WholeInv, NEW a \in Alerts, Due(a)
  PROVE  /\ reset = "idle" /\ Counting /\ ListInv /\ NoneSkipped
         /\ ~ Writing => OnFile(a)
         /\ poll # "showing" => a > base + prev
<1>1. a \in Nat /\ base \in Nat /\ prev \in Nat /\ raised \in Nat /\ shown[a] \in Nat
  BY PollTypes DEF WholeInv
<1>2. reset = "idle" /\ Counting /\ ListInv /\ NoneSkipped
  BY <1>1 DEF WholeInv, CalmInv, Due, PollInv, Counting
<1>3. poll # "showing" => a > base + prev
  <2> SUFFICES ASSUME poll # "showing", ~ (a > base + prev) PROVE FALSE
    OBVIOUS
  <2>1. a \in base + 1 .. base + prev
    BY <1>1 DEF Due
  <2> QED  BY <1>1, <1>2, <2>1 DEF NoneSkipped, Due
<1> QED  BY <1>2, <1>3 DEF Due, OnFile, Recorded

LEMMA OnFileStays ==
  ASSUME WholeInv, WholeInv', [Next]_vars, NEW a \in Alerts, Due(a), Due(a)', OnFile(a)
  PROVE  OnFile(a)'
<1>1. a \in Nat /\ raised \in Nat /\ raised' \in Nat
  BY PollTypes DEF WholeInv, TypeOK
<1>2. calm /\ calm' /\ reset = "idle"
  BY DueFacts DEF Due
<1>3. ASSUME NEW w \in Writers, Load(w) PROVE OnFile(a)'
  <2>1. ~ Writing
    BY <1>2, <1>3 DEF Load, Raise
  <2>2. raised' = raised + 1
    BY <1>3 DEF Load, Raise
  <2> QED  BY <1>1, <2>1, <2>2 DEF OnFile, Recorded
<1>4. ASSUME NEW w \in Writers, Section(w) PROVE OnFile(a)'
  <2>1. Writing /\ raised' = raised
    BY <1>4 DEF Section, Open, WritePiece, Finish, Writing
  <2> QED  BY <1>1, <2>1 DEF OnFile, Recorded
<1>5. ASSUME NEW w \in Writers, Fail(w) PROVE FALSE
  BY <1>2, <1>5 DEF Fail
<1>6. CASE Poller \/ PollFail \/ PollBreak \/ ResetOpen \/ Reset \/ UNCHANGED vars
  <2>1. UNCHANGED writerVars
    BY <1>6 DEF Poller, PollLoad, PollCompare, PollSlice, PollMark, PollShow, PollEnd, PollFail,
                PollBreak,
                ResetOpen, Reset, ResetWrite, ResetPrev, ResetSeen, vars
  <2> QED  BY <2>1 DEF OnFile, Recorded, Writing, writerVars
<1> QED  BY <1>3, <1>4, <1>5, <1>6 DEF Next

LEMMA InHandStays ==
  ASSUME WholeInv, WholeInv', [Next]_vars, NEW a \in Alerts, Due(a), Due(a)', InHand(a)
  PROVE  InHand(a)'
<1>t. a \in Nat /\ base \in Nat /\ prev \in Nat /\ Len(read) \in Nat
  BY PollTypes DEF WholeInv
<1>1. reset = "idle" /\ calm'
  BY DueFacts DEF Due
<1>2. CASE PollLoad
  BY <1>2 DEF PollLoad, InHand
<1>3. CASE PollCompare
  <2>1. poll = "loaded" /\ a > base + prev /\ a <= base + Len(read)
    BY <1>3, DueFacts DEF PollCompare, InHand
  <2>2. Len(read) # prev
    BY <1>t, <2>1
  <2> QED  BY <1>3, <2>1, <2>2 DEF PollCompare, InHand, resetVars
<1>4. CASE PollSlice
  BY <1>4 DEF PollSlice, InHand, resetVars
<1>5. CASE PollMark
  BY <1>5 DEF PollMark, InHand, resetVars
<1>6. CASE PollShow
  BY <1>6 DEF PollShow, InHand, resetVars
<1>7. CASE PollEnd
  <2>1. poll = "showing" /\ 1 .. Len(new) = {} /\ a <= base + prev
    BY <1>7 DEF PollEnd, InHand
  <2>2. a \in base + 1 .. base + prev /\ shown[a] = 0 /\ a \notin dropped
    BY <1>t, <2>1 DEF Due
  <2>3. shown[a] > 0
    BY <2>1, <2>2, DueFacts DEF NoneSkipped
  <2> QED  BY <2>2, <2>3
<1>11. CASE PollBreak
  <2>1. /\ poll = "showing" /\ new # <<>> /\ a <= base + prev
        /\ \/ shown' = shown /\ dropped' = dropped \cup Range(new)
           \/ shown' = [shown EXCEPT ![Head(new)] = @ + 1]
              /\ dropped' = dropped \cup Range(Tail(new))
    BY <1>11 DEF PollBreak, InHand
  <2>2. a \in base + 1 .. base + prev /\ shown[a] = 0 /\ a \notin dropped
    BY <1>t, <2>1 DEF Due
  <2>3. PICK i \in 1 .. Len(new) : new[i] = a
    BY <2>2, DueFacts DEF NoneSkipped
  <2>4. new \in Seq(Alerts) /\ Len(new) \in Nat /\ shown \in [Alerts -> Nat]
    BY PollTypes DEF WholeInv
  <2>5. /\ Head(new) = new[1] /\ Len(Tail(new)) = Len(new) - 1
        /\ \A j \in 1 .. Len(new) - 1 : Tail(new)[j] = new[j + 1]
    BY <2>1, <2>4, HeadTailProperties
  <2>6. a \in Range(new)
    BY <2>3 DEF Range
  <2>7. a = Head(new) \/ a \in Range(Tail(new))
    <3>1. CASE i = 1
      BY <2>3, <2>5, <3>1
    <3>2. CASE i # 1
      <4>1. i - 1 \in 1 .. Len(Tail(new)) /\ Tail(new)[i - 1] = a
        BY <2>3, <2>4, <2>5, <3>2
      <4> QED  BY <4>1 DEF Range
    <3> QED  BY <3>1, <3>2
  <2>8. shown'[a] = 0 /\ a \notin dropped'
    BY DEF Due
  <2> QED  BY <2>1, <2>2, <2>4, <2>6, <2>7, <2>8
<1>8. ASSUME NEW w \in Writers, Load(w) \/ Section(w) \/ Fail(w) PROVE InHand(a)'
  BY <1>8 DEF Load, Raise, Section, Open, WritePiece, Finish, Fail, InHand, pollVars, resetVars
<1>9. CASE ResetOpen \/ Reset
  BY <1>1, <1>9 DEF InHand, ResetOpen, Reset, ResetWrite, ResetPrev, ResetSeen
<1>10. CASE UNCHANGED vars
  BY <1>10 DEF InHand, vars, pollVars, resetVars
<1> QED  BY <1>2, <1>3, <1>4, <1>5, <1>6, <1>7, <1>8, <1>9, <1>10, <1>11 DEF Next, Poller, PollFail

LEMMA OneIsShown ==
  ASSUME NEW a \in Alerts
  PROVE  []WholeInv /\ [][Next]_vars /\ RoundsGoOn => (a <= raised ~> ~ Due(a))
<1> DEFINE D == Due(a)
           F == OnFile(a)
           H == InHand(a)
           W == Writing
           C == calm
<1>1. WholeInv /\ D /\ D' /\ WholeInv' /\ [Next]_vars => (F => F')
  BY OnFileStays
<1>2. WholeInv /\ D /\ D' /\ WholeInv' /\ [Next]_vars => (H => H')
  BY InHandStays
<1>3. WholeInv /\ D /\ ~ W => F
  BY DueFacts
<1>4. D => C
  BY DEF Due
<1>5. <<PollLoad>>_vars => ~ H
  BY DEF PollLoad, InHand
<1>6. WholeInv /\ D /\ D' /\ F /\ <<PollLoad>>_vars => H'
  <2> SUFFICES ASSUME WholeInv, D, F, PollLoad PROVE H'
    OBVIOUS
  <2>1. Run(file.list, base) /\ base + Len(file.list) = Recorded
    BY LoadedIsRecorded, DueFacts DEF WholeInv, Due, PollLoad
  <2> QED  BY <2>1 DEF PollLoad, InHand, OnFile, resetVars
<1> HIDE DEF D, F, H, W, C
<1>7. []WholeInv /\ [][Next]_vars /\ (<>[](~ C) \/ ([]<>(~ W) /\ []<><<PollLoad>>_vars)) => []<>(~ D)
  BY <1>1, <1>2, <1>3, <1>4, <1>5, <1>6, PTL
<1>8. []<>(~ D) => (a <= raised ~> ~ D)
  BY PTL
<1> QED  BY <1>7, <1>8, PTL DEF RoundsGoOn, D, W, C

-----------------------------------------------------------------------------
(* That the rounds go on, as long as no step of another disturbs a section *)
(* or a round.                                                             *)

Going == [](WholeInv /\ NeverWaits /\ calm) /\ [][Next]_vars

At(w, p) == pc[w] = p

\* A writer's section moves only by its own system calls, and the end of the one
\* section there is leaves nobody writing.
LEMMA SectionSteps ==
  ASSUME WholeInv, WholeInv', [Next]_vars, calm, calm', NEW w \in Writers
  PROVE  /\ At(w, "idle") \/ At(w, "loaded") \/ At(w, "opened") \/ At(w, "begun")
         /\ At(w, "loaded") => At(w, "loaded")' \/ At(w, "opened")'
         /\ At(w, "opened") => At(w, "opened")' \/ At(w, "begun")' \/ ~ Writing'
         /\ At(w, "begun") => At(w, "begun")' \/ ~ Writing'
         /\ Section(w) => ~ (At(w, "loaded") /\ At(w, "loaded")')
                         /\ ~ (At(w, "opened") /\ At(w, "opened")')
                         /\ ~ (At(w, "begun") /\ At(w, "begun")')
<1>t. pc \in [Writers -> {"idle", "loaded", "opened", "begun"}]
  BY DEF WholeInv, TypeOK
<1>1. \A v \in Writers : pc[v] # "idle" /\ pc[w] # "idle" => v = w
  BY DEF WholeInv, CalmInv
<1>2. ASSUME NEW v \in Writers, Load(v) PROVE pc[w] = "idle"
  BY <1>2, <1>t DEF Load, Raise, Writing
<1>3. ASSUME NEW v \in Writers, Open(v) \/ WritePiece(v)
      PROVE  \/ v = w /\ pc[w] = "loaded" /\ pc'[w] = "opened"
             \/ v = w /\ pc[w] = "opened" /\ pc'[w] = "begun"
             \/ v # w /\ pc'[w] = pc[w]
  BY <1>3, <1>t DEF Open, WritePiece
<1>4. ASSUME NEW v \in Writers, Finish(v)
      PROVE  \/ v = w /\ pc[w] \in {"opened", "begun"} /\ pc'[w] = "idle" /\ ~ Writing'
             \/ v # w /\ pc'[w] = pc[w]
  BY <1>4, <1>1, <1>t DEF Finish, Writing
<1>5. ASSUME NEW v \in Writers, Fail(v) PROVE FALSE
  BY <1>5 DEF Fail
<1>6. Poller \/ PollFail \/ PollBreak \/ ResetOpen \/ Reset \/ UNCHANGED vars => pc' = pc
  BY DEF Poller, PollLoad, PollCompare, PollSlice, PollMark, PollShow, PollEnd, PollFail, PollBreak,
         ResetOpen, Reset, ResetWrite, ResetPrev, ResetSeen, vars, writerVars
<1>7. Section(w) =>
        \/ pc[w] = "loaded" /\ pc'[w] = "opened"
        \/ pc[w] = "opened" /\ pc'[w] = "begun"
        \/ pc[w] \in {"opened", "begun"} /\ pc'[w] = "idle"
  BY <1>t DEF Section, Open, WritePiece, Finish
<1> QED  BY <1>t, <1>2, <1>3, <1>4, <1>5, <1>6, <1>7 DEF Next, Section, At

\* A section that began ends, now and always.
Ends(w)       == ~ At(w, "idle") => <>(~ Writing)
AlwaysEnds(w) == []Ends(w)

LEMMA SectionEnds ==
  ASSUME NEW w \in Writers
  PROVE  Going /\ Runs(w) => AlwaysEnds(w)
<1> DEFINE I == At(w, "idle")
           L == At(w, "loaded")
           O == At(w, "opened")
           B == At(w, "begun")
           W == Writing
           S == WholeInv /\ NeverWaits /\ calm
           E == ENABLED <<Section(w)>>_vars
<1>1. S /\ S' /\ [Next]_vars
        => /\ I \/ L \/ O \/ B
           /\ (L => L' \/ O') /\ (O => O' \/ B' \/ ~ W') /\ (B => B' \/ ~ W')
  BY SectionSteps
<1>2. S /\ S' /\ [Next]_vars /\ <<Section(w)>>_vars
        => ~ (L /\ L') /\ ~ (O /\ O') /\ ~ (B /\ B')
  BY SectionSteps
<1>3. S => (~ I => E)
  <2>1. NeverWaits => CanGoOn(w)
    BY Zenon DEF NeverWaits
  <2>2. CanGoOn(w) => (pc[w] # "idle" => E)
    BY Zenon DEF CanGoOn
  <2>3. I <=> pc[w] = "idle"
    BY DEF At
  <2> HIDE DEF E, I
  <2> QED  BY <2>1, <2>2, <2>3
<1>4. ~ (I /\ (L \/ O \/ B))
  BY DEF At
<1> HIDE DEF I, L, O, B, W, S
<1>5. []S /\ [][Next]_vars /\ WF_vars(Section(w)) => [](~ I => <>(~ W))
  BY <1>1, <1>2, <1>3, <1>4, PTL
<1> QED  BY <1>5, PTL DEF Going, Runs, AlwaysEnds, Ends, I, W, S

LEMMA WritersRest ==
  Going /\ (\A w \in Writers : Runs(w)) => []<>(~ Writing)
<1>1. ASSUME NEW w \in Writers PROVE Going /\ Runs(w) => AlwaysEnds(w)
  BY <1>1, SectionEnds
<1>2. Going /\ (\A w \in Writers : Runs(w)) => \A w \in Writers : AlwaysEnds(w)
  BY <1>1
<1>3. (\A w \in Writers : AlwaysEnds(w)) => [](\A w \in Writers : Ends(w))
  BY DEF AlwaysEnds
<1>4. (\A w \in Writers : Ends(w)) => (Writing => <>(~ Writing))
  BY DEF Writing, At, Ends
<1> QED  BY <1>2, <1>3, <1>4, PTL

\* The model's alerts and resets come to an end, and so do the alerts of a round.
CountsSettle ==
  /\ Settles(MaxAlerts - raised, vars)
  /\ Settles(MaxResets - resets, vars)
  /\ Settles(Len(new), vars)

LEMMA LeftOver ==
  ASSUME NEW M \in Nat, NEW n \in 0 .. M, NEW k \in 0 .. M, k \in {n, n + 1}
  PROVE  M - n \in Nat /\ M - k <= M - n /\ (M - k = M - n => ~ (k = n + 1))
OBVIOUS

LEMMA CountSteps ==
  ASSUME WholeInv, WholeInv', [Next]_vars
  PROVE  /\ MaxAlerts - raised \in Nat /\ MaxResets - resets \in Nat
         /\ (MaxAlerts - raised)' <= MaxAlerts - raised
         /\ (MaxResets - resets)' <= MaxResets - resets
         /\ [(MaxAlerts - raised)' = MaxAlerts - raised]_vars => (~ Writing => ~ Writing')
         /\ [(MaxResets - resets)' = MaxResets - resets]_vars
              => (reset # "idle" => reset' # "idle")
<1>t. /\ raised \in 0 .. MaxAlerts /\ raised' \in 0 .. MaxAlerts
      /\ resets \in 0 .. MaxResets /\ resets' \in 0 .. MaxResets
  BY Bounds DEF WholeInv, TypeOK
<1> DEFINE Raises == raised' = raised + 1 \/ (raised' = raised /\ (~ Writing => ~ Writing'))
           Clears == \/ resets' = resets + 1
                     \/ resets' = resets /\ (reset # "idle" => reset' # "idle")
<1>1. ASSUME NEW w \in Writers, Load(w) \/ Section(w) \/ Fail(w)
      PROVE  Raises /\ Clears
  BY <1>1 DEF Load, Raise, Section, Open, WritePiece, Finish, Fail, Writing, resetVars
<1>2. ASSUME Poller \/ PollFail \/ PollBreak \/ ResetOpen \/ Reset \/ UNCHANGED vars
      PROVE  pc' = pc /\ raised' = raised /\ Clears
  BY <1>2, <1>t
  DEF Poller, PollLoad, PollCompare, PollSlice, PollMark, PollShow, PollEnd, PollFail, PollBreak,
      ResetOpen, Reset, ResetWrite, ResetPrev, ResetSeen, vars, writerVars, resetVars
<1>3. pc' = pc => (~ Writing => ~ Writing')
  BY DEF Writing
<1>4. Raises /\ Clears
  BY <1>1, <1>2, <1>3 DEF Next
<1>5. UNCHANGED vars => raised' = raised /\ resets' = resets
  BY DEF vars, writerVars, resetVars
<1>a. raised' \in {raised, raised + 1} /\ resets' \in {resets, resets + 1}
  BY <1>4
<1>6. /\ MaxAlerts - raised \in Nat /\ MaxResets - resets \in Nat
      /\ MaxAlerts - raised' <= MaxAlerts - raised
      /\ MaxResets - resets' <= MaxResets - resets
      /\ MaxAlerts - raised' = MaxAlerts - raised => ~ (raised' = raised + 1)
      /\ MaxResets - resets' = MaxResets - resets => ~ (resets' = resets + 1)
  BY <1>a, <1>t, Bounds, LeftOver
<1>7. /\ [(MaxAlerts - raised)' = MaxAlerts - raised]_vars => ~ (raised' = raised + 1)
      /\ [(MaxResets - resets)' = MaxResets - resets]_vars => ~ (resets' = resets + 1)
  BY <1>5, <1>6, <1>t
<1> QED  BY <1>4, <1>6, <1>7

LEMMA WritersFallSilent ==
  Going /\ []<>(~ Writing) /\ Settles(MaxAlerts - raised, vars) => <>[](~ Writing)
<1> DEFINE m == MaxAlerts - raised
           W == Writing
           S == WholeInv /\ NeverWaits /\ calm
<1>1. S /\ S' /\ [Next]_vars => m \in Nat /\ [m' <= m]_vars
  BY CountSteps
<1>2. S /\ S' /\ [Next]_vars /\ [m' = m]_vars => (~ W => ~ W')
  BY CountSteps
<1> HIDE DEF m, W, S
<1>3. []S /\ [][Next]_vars /\ []<>(~ W) /\ Settles(m, vars) => <>[](~ W)
  BY <1>1, <1>2, PTL DEF Settles
<1> QED  BY <1>3, PTL DEF Going, m, W, S

LEMMA ResetSteps ==
  ASSUME WholeInv, [Next]_vars
  PROVE  /\ reset \in {"idle", "opened", "cleared", "forgetting"}
         /\ reset = "opened" => reset' \in {"opened", "cleared"}
         /\ reset = "cleared" => reset' \in {"cleared", "forgetting"}
         /\ reset = "forgetting" => reset' \in {"forgetting", "idle"}
         /\ Reset => reset' # reset
<1>t. reset \in {"idle", "opened", "cleared", "forgetting"}
  BY DEF WholeInv, TypeOK
<1>1. CASE ResetOpen \/ Reset
  BY <1>1, <1>t DEF ResetOpen, Reset, ResetWrite, ResetPrev, ResetSeen
<1>2. CASE ~ Reset /\ reset' = reset
  BY <1>2, <1>t
<1>3. ASSUME NEW w \in Writers, Load(w) \/ Section(w) \/ Fail(w) PROVE reset' = reset
  BY <1>3 DEF Load, Raise, Section, Open, WritePiece, Finish, Fail, resetVars
<1>4. Poller \/ PollFail \/ PollBreak \/ UNCHANGED vars => reset' = reset
  BY DEF Poller, PollLoad, PollCompare, PollSlice, PollMark, PollShow, PollEnd, PollFail, PollBreak,
         vars, resetVars
<1> QED  BY <1>t, <1>1, <1>2, <1>3, <1>4 DEF Next

LEMMA ResetsEnd ==
  Going /\ ResetRuns /\ Settles(MaxResets - resets, vars) => <>[](reset = "idle")
<1> DEFINE m == MaxResets - resets
           I == reset = "idle"
           O == reset = "opened"
           C == reset = "cleared"
           F == reset = "forgetting"
           S == WholeInv /\ NeverWaits /\ calm
           E == ENABLED <<Reset>>_vars
<1>1. S /\ S' /\ [Next]_vars => m \in Nat /\ [m' <= m]_vars
  BY CountSteps
<1>2. S /\ S' /\ [Next]_vars /\ [m' = m]_vars => (~ I => ~ I')
  BY CountSteps
<1>3. S /\ [Next]_vars => /\ I \/ O \/ C \/ F
                         /\ (O => O' \/ C') /\ (C => C' \/ F') /\ (F => F' \/ I')
  BY ResetSteps
<1>4. S /\ [Next]_vars /\ <<Reset>>_vars => ~ (O /\ O') /\ ~ (C /\ C') /\ ~ (F /\ F')
  BY ResetSteps
<1>5. S => (~ I => E)
  <2>1. NeverWaits => (reset # "idle" => E)
    BY Zenon DEF NeverWaits
  <2> QED  BY <2>1
<1>6. ~ (I /\ (O \/ C \/ F))
  OBVIOUS
<1> HIDE DEF m, I, O, C, F, S
<1>7. []S /\ [][Next]_vars /\ WF_vars(Reset) => []<>I
  BY <1>3, <1>4, <1>5, <1>6, PTL
<1>8. []S /\ [][Next]_vars /\ []<>I /\ Settles(m, vars) => <>[]I
  BY <1>1, <1>2, PTL DEF Settles
<1> QED  BY <1>7, <1>8, PTL DEF Going, ResetRuns, m, I, S

\* A round goes from statement to statement, and its end shows the alerts it has
\* in hand one by one.
LEMMA RoundSteps ==
  ASSUME WholeInv, [Next]_vars
  PROVE  /\ poll \in {"sleep", "loaded", "changed", "sliced", "showing"}
         /\ poll' # poll => Poller \/ PollBreak
         /\ PollBreak => poll = "showing" /\ poll' = "sleep"
         /\ PollLoad => poll = "sleep"
         /\ Poller => \/ PollLoad
                      \/ poll = "loaded" /\ poll' \in {"changed", "sleep"}
                      \/ poll = "changed" /\ poll' = "sliced"
                      \/ poll = "sliced" /\ poll' = "showing"
                      \/ poll = "showing" /\ poll' \in {"showing", "sleep"}
         /\ Len(new) \in Nat
         /\ poll = "showing" => Len(new)' <= Len(new)
         /\ Poller /\ poll = "showing" /\ poll' = "showing" => Len(new)' < Len(new)
<1>t. /\ poll \in {"sleep", "loaded", "changed", "sliced", "showing"}
      /\ new \in Seq(Alerts) /\ Len(new) \in Nat
  BY PollTypes DEF WholeInv, TypeOK
<1>1. ASSUME NEW w \in Writers, Load(w) \/ Section(w) \/ Fail(w)
      PROVE  poll' = poll /\ new' = new
  BY <1>1 DEF Load, Raise, Section, Open, WritePiece, Finish, Fail, pollVars
<1>2. PollFail \/ ResetOpen \/ Reset \/ UNCHANGED vars => poll' = poll /\ new' = new
  BY DEF PollFail, ResetOpen, Reset, ResetWrite, ResetPrev, ResetSeen, vars, pollVars
<1>3. PollShow => poll = "showing" /\ poll' = "showing" /\ Len(new') < Len(new)
  <2> SUFFICES ASSUME PollShow PROVE poll = "showing" /\ poll' = "showing" /\ Len(new') < Len(new)
    OBVIOUS
  <2>1. new # <<>> /\ new' = Tail(new)
    BY DEF PollShow
  <2>2. Len(Tail(new)) = Len(new) - 1
    BY <1>t, <2>1, HeadTailProperties
  <2> QED  BY <1>t, <2>1, <2>2 DEF PollShow
<1>4. PollLoad \/ PollCompare => poll # "showing"
  BY DEF PollLoad, PollCompare
<1>5. PollSlice \/ PollMark => poll # "showing"
  BY DEF PollSlice, PollMark
<1>6. PollEnd => poll = "showing" /\ poll' = "sleep" /\ new' = new
  BY DEF PollEnd
<1>14. PollBreak => poll = "showing" /\ poll' = "sleep" /\ Len(new') <= Len(new)
  BY <1>t, EmptySeq DEF PollBreak
<1>7. poll' # poll => Poller \/ PollBreak
  BY <1>1, <1>2 DEF Next
<1>8. Poller => \/ PollLoad
                \/ poll = "loaded" /\ poll' \in {"changed", "sleep"}
                \/ poll = "changed" /\ poll' = "sliced"
                \/ poll = "sliced" /\ poll' = "showing"
                \/ poll = "showing" /\ poll' \in {"showing", "sleep"}
  BY DEF Poller, PollCompare, PollSlice, PollMark, PollShow, PollEnd
<1>9. poll = "showing" /\ ~ PollBreak => new' = new \/ Len(new') < Len(new)
  BY <1>1, <1>2, <1>3, <1>4, <1>5, <1>6 DEF Next, Poller
<1>10. Poller /\ poll = "showing" /\ poll' = "showing" => Len(new') < Len(new)
  BY <1>3, <1>4, <1>5, <1>6 DEF Poller
<1>11. PollLoad => poll = "sleep"
  BY DEF PollLoad
<1>12. new' = new \/ Len(new') < Len(new) => Len(new') <= Len(new)
  <2>1. CASE new' = new
    BY <1>t, <2>1
  <2>2. CASE Len(new') < Len(new)
    BY <1>t, <2>2
  <2> QED  BY <2>1, <2>2
<1>13. poll = "showing" => Len(new') <= Len(new)
  BY <1>9, <1>12, <1>14
<1> QED  BY <1>t, <1>7, <1>8, <1>10, <1>11, <1>13, <1>14

LEMMA FileIsWhole ==
  ASSUME WholeInv, calm, ~ Writing, reset = "idle"
  PROVE  file.kind = "json"
BY DEF WholeInv, CalmInv, Json

LEMMA RoundsRepeat ==
  Going /\ PollerRuns /\ <>[](~ Writing) /\ <>[](reset = "idle") /\ Settles(Len(new), vars)
    => []<><<PollLoad>>_vars
<1> DEFINE m == Len(new)
           W == Writing
           I == reset = "idle"
           P == poll = "sleep"
           A == poll = "loaded"
           B == poll = "changed"
           C == poll = "sliced"
           D == poll = "showing"
           S == WholeInv /\ NeverWaits /\ calm
           E == ENABLED <<Poller>>_vars
<1>1. S /\ ~ W /\ I => E
  <2>1. NeverWaits => (file.kind = "json" => E)
    BY Zenon DEF NeverWaits
  <2>2. S /\ ~ W /\ I => file.kind = "json"
    BY FileIsWhole
  <2> HIDE DEF E
  <2> QED  BY <2>1, <2>2
<1>2. S /\ S' /\ [Next]_vars => m \in Nat /\ (D /\ D' => [m' <= m]_vars)
  BY RoundSteps
<1>3. S /\ [Next]_vars /\ <<Poller>>_vars /\ D /\ D' => ~ [m' = m]_vars
  <2> SUFFICES ASSUME S, [Next]_vars, <<Poller>>_vars, D, D' PROVE ~ [m' = m]_vars
    OBVIOUS
  <2>1. m \in Nat /\ m' < m
    BY RoundSteps
  <2> QED  BY <2>1
<1>4. S /\ [Next]_vars
        => \/ <<PollLoad>>_vars
           \/ (P => P') /\ (A => A' \/ B' \/ P') /\ (B => B' \/ C') /\ (C => C' \/ D')
              /\ (D => D' \/ P')
  BY RoundSteps DEF PollLoad, vars, pollVars
<1>5. S /\ [Next]_vars /\ <<Poller>>_vars
        => \/ <<PollLoad>>_vars
           \/ ~ P /\ ~ (A /\ A') /\ ~ (B /\ B') /\ ~ (C /\ C')
  BY RoundSteps DEF PollLoad, vars, pollVars
<1>6. S => P \/ A \/ B \/ C \/ D
  BY DEF WholeInv, TypeOK
<1> HIDE DEF m, W, I, P, A, B, C, D, S
<1>7. []S /\ [][Next]_vars /\ WF_vars(Poller) /\ <>[](~ W) /\ <>[]I => []<><<Poller>>_vars
  BY <1>1, PTL
<1>8. []S /\ [][Next]_vars /\ []<><<Poller>>_vars /\ <>[][~ PollLoad]_vars => <>[]D
  BY <1>4, <1>5, <1>6, PTL
<1>9. []S /\ [][Next]_vars /\ []<><<Poller>>_vars /\ <>[]D /\ Settles(m, vars) => FALSE
  BY <1>2, <1>3, PTL DEF Settles
<1>10. []S /\ [][Next]_vars /\ []<><<Poller>>_vars /\ Settles(m, vars) => []<><<PollLoad>>_vars
  BY <1>8, <1>9, PTL
<1> QED  BY <1>7, <1>10, PTL DEF Going, PollerRuns, m, W, I, S

LEMMA CalmStays == TypeOK /\ [Next]_vars => (~ calm => ~ calm')
<1> SUFFICES ASSUME TypeOK, [Next]_vars, ~ calm PROVE ~ calm'
  OBVIOUS
<1> QED
  BY DEF Next, Load, Raise, Section, Open, WritePiece, Finish, Fail, Poller, PollLoad, PollCompare,
     PollSlice, PollMark, PollShow, PollEnd, PollFail, PollBreak, ResetOpen, Reset, ResetWrite, ResetPrev,
     ResetSeen, vars

LEMMA RoundsAlwaysGoOn ==
  FairSpec /\ []NeverWaits /\ CountsSettle => RoundsGoOn
<1> DEFINE C == calm
           G == Going
           R == \A w \in Writers : Runs(w)
           X == <>[](~ Writing)
           Y == <>[](reset = "idle")
           Z == []<><<PollLoad>>_vars
<1>1. FairSpec => Spec /\ PollerRuns /\ ResetRuns /\ R
  BY DEF FairSpec
<1>2. WholeInv /\ [Next]_vars => (~ C => ~ C')
  BY CalmStays DEF WholeInv
<1>3. Spec /\ []NeverWaits /\ []C => G
  BY WholeCorrect, PTL DEF Spec, Going
<1>4. Spec => <>[](~ C) \/ []C
  <2> HIDE DEF C
  <2> QED  BY <1>2, WholeCorrect, PTL DEF Spec
<1>5. G /\ R => []<>(~ Writing)
  BY WritersRest
<1>6. CountsSettle => /\ Settles(MaxAlerts - raised, vars)
                      /\ Settles(MaxResets - resets, vars)
                      /\ Settles(Len(new), vars)
  BY DEF CountsSettle
<1>7. G /\ []<>(~ Writing) /\ Settles(MaxAlerts - raised, vars) => X
  BY WritersFallSilent
<1>8. G /\ ResetRuns /\ Settles(MaxResets - resets, vars) => Y
  BY ResetsEnd
<1>9. G /\ PollerRuns /\ X /\ Y /\ Settles(Len(new), vars) => Z
  BY RoundsRepeat
<1>10. <>[](~ C) \/ ([]<>(~ Writing) /\ Z) => RoundsGoOn
  BY DEF RoundsGoOn
<1> HIDE DEF C, G, R, X, Y, Z
<1> QED
  BY <1>1, <1>3, <1>4, <1>5, <1>6, <1>7, <1>8, <1>9, <1>10

\* The poller's rounds go on, and every alert that its writer got into the file
\* undisturbed is shown, for any number of writers, alerts and resets: a round
\* that reads the file between the system calls of a writer, or counts an older
\* list, skips none; a round that breaks off while sending is said to have dropped
\* what is left (app.py:88-101, 157; agent.py:288-297; simulator.py:58-81).
THEOREM RecordedIsAlwaysShown ==
  FairSpec /\ []NeverWaits /\ CountsSettle => RecordedIsShown
<1>1. ASSUME NEW a \in Alerts
      PROVE  Spec /\ RoundsGoOn => (a <= raised ~> ShownOrLost(a))
  <2> DEFINE G == ShownOrLost(a)
             R == a <= raised
  <2>1. WholeInv /\ ~ Due(a) => G \/ ~ R
    <3> SUFFICES ASSUME WholeInv, ~ Due(a), R PROVE G
      OBVIOUS
    <3>1. /\ a \in Nat /\ base \in Nat /\ raised \in Nat /\ shown[a] \in Nat
      BY PollTypes DEF WholeInv
    <3> QED  BY <3>1, Bounds DEF Due, ShownOrLost
  <2>2. R /\ [Next]_vars /\ WholeInv /\ WholeInv' => R'
    <3> SUFFICES ASSUME R, [Next]_vars, WholeInv, WholeInv' PROVE R'
      OBVIOUS
    <3>1. /\ a \in Nat /\ raised \in Nat /\ (raised' = raised \/ raised' = raised + 1)
      BY PollTypes DEF WholeInv, Next, Load, Raise, Section, Open, WritePiece, Finish, Fail, Poller,
         PollLoad, PollCompare, PollSlice, PollMark, PollShow, PollEnd, PollFail, PollBreak, ResetOpen,
         Reset, ResetWrite, ResetPrev, ResetSeen, vars, writerVars
    <3> QED  BY <3>1
  <2> HIDE DEF G, R
  <2>3. []WholeInv /\ [][Next]_vars /\ (R ~> ~ Due(a)) => (R ~> G)
    BY <2>1, <2>2, PTL
  <2>4. []WholeInv /\ [][Next]_vars /\ RoundsGoOn => (R ~> ~ Due(a))
    BY OneIsShown DEF R
  <2>5. Spec /\ RoundsGoOn => (R ~> G)
    BY <2>3, <2>4, WholeCorrect, PTL DEF Spec
  <2> QED  BY <2>5 DEF R, G
<1>2. FairSpec => Spec
  BY DEF FairSpec
<1>3. FairSpec /\ []NeverWaits /\ CountsSettle => RoundsGoOn
  BY RoundsAlwaysGoOn
<1> QED  BY <1>1, <1>2, <1>3 DEF RecordedIsShown
=============================================================================
