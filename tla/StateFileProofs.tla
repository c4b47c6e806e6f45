-------------------------- MODULE StateFileProofs ---------------------------
(***************************************************************************)
(* Theorems about StateFile for every set of controllers and every number  *)
(* of flushes, attacks and resets.                                         *)
(***************************************************************************)
EXTENDS StateFile, TLAPS

LEMMA Bounds ==
  /\ MaxSeq \in Nat /\ MaxSeq > 0 /\ MaxRewrites \in Nat
  /\ Targets \subseteq Writers
  /\ Owner \in [Threads -> Writers] /\ Heartbeats \subseteq Threads
BY StateFileAssumption

-----------------------------------------------------------------------------
(* Type correctness.                                                       *)

LEMMA EntryTypes ==
  /\ Forged \in Forged .. MaxSeq /\ 0 \in Forged .. MaxSeq
  /\ \A n \in 0 .. MaxSeq : n \in Forged .. MaxSeq
  /\ \A b \in Forged .. MaxSeq, ok \in BOOLEAN :
       [block |-> b, ok |-> ok] \in Entries
  /\ NoEntry \in Entries /\ Blank \in Docs
  /\ \A k \in {"missing", "empty", "torn"} : Bad(k) \in File
  /\ \A d \in Docs : Json(d) \in File
<1>1. /\ Forged \in Forged .. MaxSeq /\ 0 \in Forged .. MaxSeq
      /\ \A n \in 0 .. MaxSeq : n \in Forged .. MaxSeq
  BY Bounds DEF Forged
<1>2. \A b \in Forged .. MaxSeq, ok \in BOOLEAN :
        [block |-> b, ok |-> ok] \in Entries
  BY DEF Entries
<1>3. NoEntry \in Entries
  BY <1>1, <1>2 DEF NoEntry
<1>4. Blank \in Docs
  BY <1>3 DEF Blank, Docs
<1> QED  BY <1>1, <1>2, <1>3, <1>4 DEF Bad, Json, File

\* What a write leaves in a file is a content again.
LEMMA OverwrittenType ==
  ASSUME NEW f \in File, NEW d \in Docs
  PROVE  Overwritten(f, d) \subseteq File
BY EntryTypes DEF Overwritten

LEMMA WriteType ==
  ASSUME live \in File, tmp \in File, NEW h, NEW d \in Docs, WriteTo(h, d)
  PROVE  live' \in File /\ tmp' \in File
<1>1. Overwritten(live, d) \subseteq File /\ Overwritten(tmp, d) \subseteq File
  BY OverwrittenType
<1> QED  BY <1>1 DEF WriteTo, files

LEMMA MovedType == \A h \in Handles : Moved[h] \in Handles
BY DEF Moved, Handles

LEMMA PayloadType ==
  ASSUME TypeOK, NEW t \in Threads, Payload(t)
  PROVE  /\ made' \in [Writers -> [block : 0 .. MaxSeq, ok : BOOLEAN]]
         /\ doc' \in [Threads -> Docs]
         /\ alarmed' \subseteq Writers
<1> DEFINE w == Owner[t]
<1>0. w \in Writers
  BY Bounds
<1>1. made[w].block \in 0 .. MaxSeq
  BY <1>0 DEF TypeOK
<1>2. Later(made[w].block) \in 0 .. MaxSeq
  BY <1>1, Bounds DEF Later
<1>3. (w \notin alarmed') \in BOOLEAN
  OBVIOUS
<1>4. NextEntry(w) \in [block : 0 .. MaxSeq, ok : BOOLEAN]
  BY <1>2, <1>3 DEF NextEntry
<1>5. NextEntry(w) \in Entries
  BY <1>2, <1>3, EntryTypes DEF NextEntry
<1>6. [Blank EXCEPT ![w] = NextEntry(w)] \in Docs
  BY <1>5, EntryTypes DEF Docs
<1>7. alarmed' \subseteq Writers
  BY <1>0, Bounds DEF Payload, Judges, TypeOK
<1>8. /\ made' = [made EXCEPT ![w] = NextEntry(w)]
      /\ doc' = [doc EXCEPT ![t] = [Blank EXCEPT ![w] = NextEntry(w)]]
  BY DEF Payload
<1> HIDE DEF w
<1> QED  BY <1>4, <1>6, <1>7, <1>8 DEF TypeOK

LEMMA LoadType ==
  ASSUME TypeOK, NEW t \in Threads, Load(t)
  PROVE  doc' \in [Threads -> Docs]
<1>1. live.doc \in Docs /\ doc[t] \in Docs /\ Owner[t] \in Writers
  BY Bounds DEF TypeOK, File
<1>2. [live.doc EXCEPT ![Owner[t]] = doc[t][Owner[t]]] \in Docs
  BY <1>1 DEF Docs
<1> QED  BY <1>2 DEF Load, TypeOK

LEMMA EditType ==
  ASSUME TypeOK
  PROVE  /\ [w \in Writers |-> [block |-> live.doc[w].block, ok |-> TRUE]] \in Docs
         /\ \A v \in Writers :
              /\ live.doc[v].block \in Forged .. MaxSeq
              /\ [live.doc EXCEPT ![v] = [block |-> Forged, ok |-> FALSE]] \in Docs
         /\ [w \in Writers |-> IF w \in attack.target \cap Present
                                THEN [block |-> attack.block, ok |-> TRUE]
                                ELSE live.doc[w]] \in Docs
<1>1. live.doc \in [Writers -> Entries]
  BY DEF TypeOK, File, Docs
<1>2. attack.block \in Forged .. MaxSeq
  BY DEF TypeOK
<1>3. [block |-> Forged, ok |-> FALSE] \in Entries /\ [block |-> attack.block, ok |-> TRUE] \in Entries
  BY <1>2, EntryTypes
<1>4. \A w \in Writers : /\ live.doc[w] \in Entries
                         /\ live.doc[w].block \in Forged .. MaxSeq
                         /\ [block |-> live.doc[w].block, ok |-> TRUE] \in Entries
  BY <1>1 DEF Entries
<1> QED  BY <1>1, <1>3, <1>4 DEF Docs

LEMMA StateFileTypeStep == TypeOK /\ [Next]_vars => TypeOK'
<1> SUFFICES ASSUME TypeOK, [Next]_vars PROVE TypeOK'
  OBVIOUS
<1> USE Bounds
<1>0. ASSUME NEW t \in Threads, Payload(t), Note PROVE TypeOK'
  BY <1>0, PayloadType DEF TypeOK, Payload, MayBegin, Note, Positions, files, rVars
<1>1. ASSUME NEW t \in Threads, Load(t), Note PROVE TypeOK'
  BY <1>1, LoadType DEF TypeOK, Load, Note, Positions, files, rVars
<1>2. ASSUME NEW t \in Threads, OpenTmp(t), Note PROVE TypeOK'
  BY <1>2, EntryTypes DEF TypeOK, OpenTmp, Note, Positions, Handles, rVars
<1>3. ASSUME NEW t \in Threads, Write(t), Note PROVE TypeOK'
  <2>1. doc[t] \in Docs /\ WriteTo(fd[t], doc[t]) /\ live \in File /\ tmp \in File
    BY <1>3 DEF TypeOK, Write
  <2>2. live' \in File /\ tmp' \in File
    BY <2>1, WriteType
  <2> QED  BY <1>3, <2>2, EntryTypes DEF TypeOK, Write, Note, Positions, Handles, rVars
<1>4. ASSUME NEW t \in Threads, FailWrite(t), Note PROVE TypeOK'
  <2>1. live' \in File /\ tmp' \in File
    BY <1>4, EntryTypes DEF TypeOK, FailWrite, files
  <2> QED  BY <1>4, <2>1, EntryTypes DEF TypeOK, FailWrite, Note, Positions, Handles, rVars
<1>5. ASSUME NEW t \in Threads, Replace(t), Note PROVE TypeOK'
  <2>1. live' \in File /\ tmp' \in File
    BY <1>5, EntryTypes DEF TypeOK, Replace, files
  <2>2. fd' \in [Threads -> Handles] /\ rfd' \in Handles
    BY <1>5, MovedType DEF TypeOK, Replace
  <2> QED  BY <1>5, <2>1, <2>2 DEF TypeOK, Replace, Note, Positions, rVars
<1>6. ASSUME NEW w \in Writers, Kill(w) \/ Start(w), Note PROVE TypeOK'
  BY <1>6, EntryTypes
     DEF TypeOK, Kill, Start, Note, Positions, Handles, files, rVars
<1>7. ASSUME ResetLoad \/ RestoreLoad \/ GiveUp, Note PROVE TypeOK'
  <2>1. rdoc' \in Docs
    BY <1>7, EditType DEF ResetLoad, RestoreLoad, GiveUp, Edit, TypeOK
  <2>2. attack' \in [target : SUBSET Writers, block : Forged .. MaxSeq]
    BY <1>7, EntryTypes DEF ResetLoad, RestoreLoad, GiveUp, NoAttack, TypeOK
  <2> QED  BY <1>7, <2>1, <2>2 DEF TypeOK, ResetLoad, RestoreLoad, GiveUp, Edit, Begin,
              Note, ResetPositions, files, wVars
<1>8. ASSUME NEW v \in Writers, AttackLoad(v), Note PROVE TypeOK'
  <2>1. rdoc' \in Docs /\ attack' \in [target : SUBSET Writers, block : Forged .. MaxSeq]
    BY <1>8, EditType DEF AttackLoad, Edit
  <2> QED  BY <1>8, <2>1 DEF TypeOK, AttackLoad, Edit, Begin, Note, ResetPositions,
              files, wVars
<1>9. ASSUME ResetOpen, Note PROVE TypeOK'
  BY <1>9, EntryTypes DEF TypeOK, ResetOpen, Note, ResetPositions, Handles, wVars
<1>10. ASSUME ResetWrite, Note PROVE TypeOK'
  <2>1. rdoc \in Docs /\ WriteTo(rfd, rdoc) /\ live \in File /\ tmp \in File
    BY <1>10 DEF TypeOK, ResetWrite
  <2>2. live' \in File /\ tmp' \in File
    BY <2>1, WriteType
  <2> QED  BY <1>10, <2>2, EntryTypes
           DEF TypeOK, ResetWrite, Note, ResetPositions, Handles, wVars
<1>11. CASE Abort
  BY <1>11, EntryTypes DEF TypeOK, Abort, ResetPositions, Handles, files, wVars
<1>12. CASE UNCHANGED vars
  BY <1>12 DEF TypeOK, vars, files, wVars, rVars
<1> QED
  BY <1>0, <1>1, <1>2, <1>3, <1>4, <1>5, <1>6, <1>7, <1>8, <1>9, <1>10, <1>11, <1>12
  DEF Next, Begins, GoesOn, Proceed, Fates, Rewrite, Finish

\* The files, the documents in hand and the handles keep their types, however many
\* threads of however many controllers flush (integrity/agent.py:253-273,
\* dashboard/app.py:145-153).
THEOREM StateFileTypeCorrect == Spec => []TypeOK
<1>1. Init => TypeOK
  <2>1. Blank \in [Writers -> [block : 0 .. MaxSeq, ok : BOOLEAN]]
    BY Bounds DEF Blank, NoEntry
  <2> QED  BY <2>1, EntryTypes, Bounds
           DEF Init, TypeOK, Positions, ResetPositions, Handles, NoAttack
<1> QED  BY <1>1, StateFileTypeStep, PTL DEF Spec

-----------------------------------------------------------------------------
(* The file while sections do not meet.                                    *)

Whole(f)  == f.kind \in {"json", "missing"}
InFile(t) == pc[t] \in {"open", "write", "replace"}

\* Where the one section stands and what the two files and its handle then are.
CalmInv ==
  calm =>
    /\ Alone
    /\ rpc # "write" => Whole(live)
    /\ rpc = "write" => rfd = "live" /\ live.kind = "empty"
    /\ \A t \in Threads :
         /\ pc[t] = "write" => fd[t] = "tmp" /\ tmp.kind = "empty"
         /\ pc[t] = "replace" => tmp.kind = "json"

LEMMA WriteToEmpty ==
  ASSUME NEW d
  PROVE  /\ WriteTo("live", d) /\ live.kind = "empty" => live' = Json(d) /\ tmp' = tmp
         /\ WriteTo("tmp", d) /\ tmp.kind = "empty" => tmp' = Json(d) /\ live' = live
BY DEF WriteTo, Overwritten

\* A section excludes every other and the rewriting process, and a flush every
\* other one of its controller.
AloneApart ==
  Alone =>
    /\ \A t, u \in Threads : InFile(t) /\ InFile(u) => t = u
    /\ (\E t \in Threads : InFile(t)) => rpc = "idle"
    /\ \A t, u \in Threads : pc[t] # "idle" /\ pc[u] # "idle" /\ Owner[t] = Owner[u] => t = u

LEMMA AloneFacts == AloneApart
BY DEF AloneApart, Alone, Section, Flushing, InFile

LEMMA AloneFactsNext == AloneApart'
BY AloneFacts, PTL

\* A kill or a start begins nothing.
LEMMA StaysAlone ==
  ASSUME TypeOK, Alone, NEW w \in Writers, Kill(w) \/ Start(w)
  PROVE  Alone'
<1>1. rpc' = rpc /\ \A t \in Threads : pc'[t] # "idle" => pc'[t] = pc[t]
  BY DEF TypeOK, Kill, Start, rVars
<1>2. Section' \subseteq Section /\ Flushing' \subseteq Flushing
  BY <1>1 DEF Section, Flushing
<1> QED  BY <1>1, <1>2 DEF Alone

LEMMA CalmStep == TypeOK /\ CalmInv /\ [Next]_vars => CalmInv'
<1> SUFFICES ASSUME TypeOK, CalmInv, [Next]_vars, calm' PROVE CalmInv'
  BY DEF CalmInv
<1>0. pc \in [Threads -> Positions] /\ fd \in [Threads -> Handles]
  BY DEF TypeOK
<1>1. ASSUME NEW t \in Threads, Payload(t) \/ Load(t), Note PROVE CalmInv'
  <2>1. calm /\ Alone' /\ Alone
    BY <1>1 DEF Note, CalmInv
  <2>2. (pc' = [pc EXCEPT ![t] = "open"] \/ pc' = [pc EXCEPT ![t] = "load"])
        /\ live' = live /\ tmp' = tmp /\ rpc' = rpc /\ rfd' = rfd /\ fd' = fd
    BY <1>1 DEF Payload, Load, files, rVars
  <2> QED  BY <1>0, <2>1, <2>2 DEF CalmInv, Whole
<1>2. ASSUME NEW t \in Threads, OpenTmp(t), Note PROVE CalmInv'
  <2>1. calm /\ Alone' /\ Alone
    BY <1>2 DEF Note, CalmInv
  <2>2. rpc = "idle" /\ \A u \in Threads : pc[u] \in {"write", "replace"} => FALSE
    BY <1>2, <2>1, AloneFacts DEF OpenTmp, AloneApart, InFile
  <2>3. pc' = [pc EXCEPT ![t] = "write"] /\ live' = live /\ tmp' = Bad("empty")
        /\ rpc' = rpc /\ fd' = [fd EXCEPT ![t] = "tmp"]
    BY <1>2 DEF OpenTmp, rVars
  <2> QED  BY <1>0, <2>1, <2>2, <2>3 DEF CalmInv, Whole, Bad
<1>3. ASSUME NEW t \in Threads, Write(t), Note PROVE CalmInv'
  <2>1. calm /\ Alone' /\ Alone
    BY <1>3 DEF Note, CalmInv
  <2>2. /\ rpc = "idle"
        /\ \A u \in Threads : pc[u] \in {"write", "replace"} => u = t
    BY <1>3, <2>1, AloneFacts DEF Write, AloneApart, InFile
  <2>3. fd[t] = "tmp" /\ tmp.kind = "empty" /\ WriteTo(fd[t], doc[t])
    BY <1>3, <2>1 DEF CalmInv, Write
  <2>4. tmp' = Json(doc[t]) /\ live' = live
    BY <2>3, WriteToEmpty
  <2>5. pc' = [pc EXCEPT ![t] = "replace"] /\ rpc' = rpc
    BY <1>3 DEF Write, rVars
  <2> QED  BY <1>0, <2>1, <2>2, <2>4, <2>5 DEF CalmInv, Whole, Json
<1>4. ASSUME NEW t \in Threads, FailWrite(t), Note PROVE CalmInv'
  <2>1. calm /\ Alone' /\ Alone
    BY <1>4 DEF Note, CalmInv
  <2>2. /\ rpc = "idle"
        /\ \A u \in Threads : pc[u] \in {"write", "replace"} => u = t
    BY <1>4, <2>1, AloneFacts DEF FailWrite, AloneApart, InFile
  <2>3. live' = live /\ pc' = [pc EXCEPT ![t] = "idle"] /\ rpc' = rpc
    BY <1>4, <2>1 DEF FailWrite, CalmInv, rVars
  <2> QED  BY <1>0, <2>1, <2>2, <2>3 DEF CalmInv, Whole
<1>5. ASSUME NEW t \in Threads, Replace(t), Note PROVE CalmInv'
  <2>1. calm /\ Alone' /\ Alone
    BY <1>5 DEF Note, CalmInv
  <2>2. /\ rpc = "idle"
        /\ \A u \in Threads : pc[u] \in {"write", "replace"} => u = t
    BY <1>5, <2>1, AloneFacts DEF Replace, AloneApart, InFile
  <2>3. Whole(live') /\ pc' = [pc EXCEPT ![t] = "idle"] /\ rpc' = rpc
    BY <1>5, <2>1 DEF Replace, CalmInv, rVars, Whole
  <2> QED  BY <1>0, <2>1, <2>2, <2>3 DEF CalmInv, Whole
<1>6. ASSUME NEW w \in Writers, Kill(w) \/ Start(w), Note PROVE CalmInv'
  <2>1. calm /\ Alone' /\ Alone
    BY <1>6 DEF Note, CalmInv
  <2>2. /\ live' = live /\ tmp' = tmp /\ rpc' = rpc /\ rfd' = rfd
        /\ \A u \in Threads : pc'[u] \in {"write", "replace"} => pc'[u] = pc[u] /\ fd'[u] = fd[u]
    BY <1>0, <1>6 DEF Kill, Start, files, rVars
  <2> QED  BY <2>1, <2>2 DEF CalmInv, Whole
<1>7. ASSUME ResetLoad \/ RestoreLoad \/ GiveUp \/ \E v \in Writers : AttackLoad(v), Note
      PROVE CalmInv'
  <2>1. calm /\ Alone' /\ Alone
    BY <1>7 DEF Note, CalmInv
  <2>2. /\ live' = live /\ tmp' = tmp /\ rfd' = rfd /\ pc' = pc /\ fd' = fd
        /\ rpc' = rpc \/ (rpc = "idle" /\ rpc' = "open")
    BY <1>7 DEF ResetLoad, RestoreLoad, GiveUp, AttackLoad, Edit, files, wVars
  <2> QED  BY <2>1, <2>2 DEF CalmInv, Whole
<1>8. ASSUME ResetOpen, Note PROVE CalmInv'
  <2>1. calm /\ Alone' /\ Alone
    BY <1>8 DEF Note, CalmInv
  <2>2. \A t \in Threads : ~ InFile(t)
    BY <1>8, <2>1, AloneFacts DEF ResetOpen, AloneApart
  <2> QED  BY <1>8, <2>1, <2>2 DEF CalmInv, ResetOpen, Bad, wVars, InFile
<1>9. ASSUME ResetWrite, Note PROVE CalmInv'
  <2>1. calm /\ Alone' /\ Alone
    BY <1>9 DEF Note, CalmInv
  <2>2. \A t \in Threads : ~ InFile(t)
    BY <1>9, <2>1, AloneFacts DEF ResetWrite, AloneApart
  <2>3. live' = Json(rdoc)
    BY <1>9, <2>1, WriteToEmpty DEF ResetWrite, CalmInv
  <2> QED  BY <1>9, <2>1, <2>2, <2>3 DEF CalmInv, ResetWrite, Json, Whole, wVars, InFile
<1>10. CASE Abort
  BY <1>10 DEF Abort
<1>11. CASE UNCHANGED vars
  BY <1>11 DEF CalmInv, Alone, Section, Flushing, Whole, vars, files, wVars, rVars
<1> QED
  BY <1>1, <1>2, <1>3, <1>4, <1>5, <1>6, <1>7, <1>8, <1>9, <1>10, <1>11
  DEF Next, Begins, GoesOn, Proceed, Fates, Rewrite, Finish

LEMMA CalmInit == Init => CalmInv
BY DEF Init, CalmInv, Alone, Section, Flushing, Whole, Bad

\* As long as no two sections or flushes of a controller meet and no rewrite is
\* cut short, no reader finds a half-written file except while it is rewritten in
\* place, however many controllers and threads there are and wherever they are
\* killed (integrity/agent.py:254-256).
THEOREM CalmFileCorrect == Spec => []CalmFileIsWhole
<1>1. CalmInv => CalmFileIsWhole
  BY DEF CalmInv, CalmFileIsWhole, NeverHalfWritten, Whole
<1> QED  BY <1>1, CalmInit, CalmStep, StateFileTypeCorrect, PTL DEF Spec

-----------------------------------------------------------------------------
(* The files as one document.                                              *)

\* What thread t is about to publish: the document as it is, with the newest entry
\* of its controller.
Merged(t) == [live.doc EXCEPT ![Owner[t]] = made[Owner[t]]]

\* No entry of d is newer than its controller's newest.
Within(d) == \A v \in Writers : d[v].block <= made[v].block

\* What a rewriting process makes of document d.
Edited(d, e) ==
  \/ e = [w \in Writers |-> [block |-> d[w].block, ok |-> TRUE]]
  \/ \E v \in Targets : e = [d EXCEPT ![v] = [block |-> Forged, ok |-> FALSE]]
  \/ \E v \in Targets : \E b \in Forged .. made[v].block :
       e = [d EXCEPT ![v] = [block |-> b, ok |-> TRUE]]

\* While nobody else is in a section, the document at hand is still made from
\* the one on file.
DocInv ==
  calm =>
    /\ Within(live.doc)
    /\ attack # NoAttack => \E v \in Targets : attack.target = {v} /\ attack.block <= made[v].block
    /\ rpc = "open" => Edited(live.doc, rdoc)
    /\ rpc = "write" => Within(rdoc)
    /\ \A t \in Threads :
         /\ pc[t] = "load" => doc[t][Owner[t]] = made[Owner[t]]
         /\ pc[t] \in {"open", "write"} => doc[t] = Merged(t)
         /\ pc[t] = "replace" => tmp.doc = Merged(t)

LEMMA DocTypes ==
  ASSUME TypeOK
  PROVE  /\ live.doc \in [Writers -> Entries] /\ tmp.doc \in [Writers -> Entries]
         /\ rdoc \in [Writers -> Entries] /\ doc \in [Threads -> [Writers -> Entries]]
         /\ made \in [Writers -> Entries]
         /\ \A v \in Writers : made[v].block \in Nat
         /\ \A d \in [Writers -> Entries], v \in Writers :
              /\ d[v].block \in Int /\ d[v].block >= Forged
              /\ d[v] = [block |-> d[v].block, ok |-> d[v].ok]
         /\ Forged \in Int /\ Forged = -1
<1>1. made \in [Writers -> Entries] /\ \A v \in Writers : made[v].block \in Nat
  BY Bounds, EntryTypes DEF TypeOK, Entries
<1> QED  BY <1>1, Bounds DEF TypeOK, File, Docs, Entries, Forged

\* An edit leaves no entry newer than its controller's newest.
LEMMA EditedWithin ==
  ASSUME TypeOK, NEW e, Within(live.doc), Edited(live.doc, e)
  PROVE  Within(e)
<1>t. /\ live.doc \in [Writers -> Entries] /\ \A v \in Writers : made[v].block \in Nat
      /\ Forged = -1 /\ Targets \subseteq Writers
  BY DocTypes, Bounds
<1>1. CASE e = [w \in Writers |-> [block |-> live.doc[w].block, ok |-> TRUE]]
  BY <1>t, <1>1 DEF Within
<1>2. ASSUME NEW v \in Targets, NEW b \in Forged .. made[v].block, NEW ok,
             e = [live.doc EXCEPT ![v] = [block |-> b, ok |-> ok]]
      PROVE  Within(e)
  BY <1>t, <1>2 DEF Within
<1>3. \A v \in Targets : Forged \in Forged .. made[v].block
  BY <1>t
<1> QED  BY <1>1, <1>2, <1>3 DEF Edited

LEMMA RestoreEdits ==
  ASSUME TypeOK, NEW v \in Targets, attack.target = {v}, attack.block <= made[v].block
  PROVE  Edited(live.doc, [w \in Writers |-> IF w \in attack.target \cap Present
                                              THEN [block |-> attack.block, ok |-> TRUE]
                                              ELSE live.doc[w]])
<1> DEFINE e == [w \in Writers |-> IF w \in attack.target \cap Present
                                    THEN [block |-> attack.block, ok |-> TRUE]
                                    ELSE live.doc[w]]
<1>1. /\ live.doc \in [Writers -> Entries] /\ made[v].block \in Nat /\ v \in Writers /\ Forged = -1
      /\ attack.block \in Int /\ attack.block >= Forged
  BY DocTypes, Bounds DEF TypeOK
<1>2. CASE v \in Present
  <2>1. e = [live.doc EXCEPT ![v] = [block |-> attack.block, ok |-> TRUE]]
    BY <1>1, <1>2
  <2>2. attack.block \in Forged .. made[v].block
    BY <1>1
  <2>3. \E b \in Forged .. made[v].block : e = [live.doc EXCEPT ![v] = [block |-> b, ok |-> TRUE]]
    BY <2>1, <2>2
  <2> HIDE DEF e
  <2>4. Edited(live.doc, e)
    BY <2>3 DEF Edited
  <2> QED  BY <2>4 DEF e
<1>3. CASE v \notin Present
  <2>1. live.doc[v] = [block |-> 0, ok |-> TRUE]
    BY <1>1, <1>3 DEF Present, NoEntry
  <2>2. e = [live.doc EXCEPT ![v] = [block |-> 0, ok |-> TRUE]]
    BY <1>1, <1>3, <2>1
  <2>3. 0 \in Forged .. made[v].block
    BY <1>1
  <2>4. \E b \in Forged .. made[v].block : e = [live.doc EXCEPT ![v] = [block |-> b, ok |-> TRUE]]
    BY <2>2, <2>3
  <2> HIDE DEF e
  <2>5. Edited(live.doc, e)
    BY <2>4 DEF Edited
  <2> QED  BY <2>5 DEF e
<1> QED  BY <1>2, <1>3

\* A new entry is not older than the one before it, and touches nothing of the
\* other controllers; no other flush of its controller is under way.
LEMMA PayloadMakes ==
  ASSUME TypeOK, NEW t \in Threads, Payload(t), Alone'
  PROVE  /\ live' = live /\ tmp' = tmp /\ rpc' = rpc /\ rdoc' = rdoc /\ attack' = attack
         /\ pc' = [pc EXCEPT ![t] = "load"] /\ pc[t] = "idle"
         /\ doc'[t][Owner[t]] = made'[Owner[t]]
         /\ made'[Owner[t]].ok = (Owner[t] \notin alarmed')
         /\ \A v \in Writers : made[v].block \in Nat /\ made'[v].block \in Nat
                               /\ made[v].block <= made'[v].block
         /\ \A u \in Threads : pc'[u] # "idle" /\ u # t =>
              doc'[u] = doc[u] /\ made'[Owner[u]] = made[Owner[u]] /\ Owner[u] # Owner[t]
<1>t. /\ pc \in [Threads -> Positions] /\ made \in [Writers -> Entries]
      /\ doc \in [Threads -> [Writers -> Entries]] /\ \A v \in Writers : made[v].block \in Nat
      /\ Owner[t] \in Writers /\ \A u \in Threads : Owner[u] \in Writers
  BY DocTypes, Bounds DEF TypeOK
<1>1. /\ live' = live /\ tmp' = tmp /\ rpc' = rpc /\ rdoc' = rdoc /\ attack' = attack
      /\ pc' = [pc EXCEPT ![t] = "load"] /\ pc[t] = "idle"
      /\ made' = [made EXCEPT ![Owner[t]] = NextEntry(Owner[t])]
      /\ doc' = [doc EXCEPT ![t] = [Blank EXCEPT ![Owner[t]] = NextEntry(Owner[t])]]
  BY DEF Payload, MayBegin, files, rVars
<1>2. \A u \in Threads : pc'[u] # "idle" /\ u # t => Owner[u] # Owner[t]
  BY <1>t, <1>1, AloneFactsNext DEF AloneApart
<1>3. doc'[t] = [Blank EXCEPT ![Owner[t]] = NextEntry(Owner[t])] /\ made'[Owner[t]] = NextEntry(Owner[t])
  BY <1>t, <1>1
<1>4. doc'[t][Owner[t]] = made'[Owner[t]]
  BY <1>t, <1>3 DEF Blank
<1>5. made'[Owner[t]].ok = (Owner[t] \notin alarmed')
  BY <1>3 DEF NextEntry
<1>6. ASSUME NEW v \in Writers
      PROVE made'[v].block \in Nat /\ made[v].block <= made'[v].block
  <2>1. CASE v = Owner[t]
    <3>1. made'[v].block = Later(made[v].block)
      BY <1>3, <2>1 DEF NextEntry
    <3>2. made[v].block \in Nat /\ MaxSeq \in Nat
      BY <1>t, Bounds
    <3> QED  BY <3>1, <3>2 DEF Later
  <2>2. CASE v # Owner[t]
    <3>1. made'[v] = made[v]
      BY <1>t, <1>1, <2>2
    <3> QED  BY <1>t, <3>1
  <2> QED  BY <2>1, <2>2
<1> QED  BY <1>t, <1>1, <1>2, <1>4, <1>5, <1>6

LEMMA DocStep == TypeOK /\ CalmInv /\ DocInv /\ [Next]_vars => DocInv'
<1> SUFFICES ASSUME TypeOK, CalmInv, DocInv, [Next]_vars, calm' PROVE DocInv'
  BY DEF DocInv
<1>t. /\ pc \in [Threads -> Positions] /\ live.doc \in [Writers -> Entries]
      /\ made \in [Writers -> Entries] /\ doc \in [Threads -> [Writers -> Entries]]
      /\ \A v \in Writers : made[v].block \in Nat /\ live.doc[v].block \in Int /\ rdoc[v].block \in Int
      /\ \A t \in Threads : Owner[t] \in Writers
      /\ attack.block \in Int /\ Targets \subseteq Writers
  <2>1. attack.block \in Int
    BY Bounds DEF TypeOK, Forged
  <2>2. \A v \in Writers : live.doc[v].block \in Int /\ rdoc[v].block \in Int
    BY DocTypes
  <2> QED  BY <2>1, <2>2, DocTypes, Bounds DEF TypeOK
<1>0. ASSUME NEW t \in Threads, Payload(t), Note PROVE DocInv'
  <2>1. calm /\ Alone'
    BY <1>0 DEF Note
  <2>2. /\ live' = live /\ tmp' = tmp /\ rpc' = rpc /\ rdoc' = rdoc /\ attack' = attack
        /\ pc' = [pc EXCEPT ![t] = "load"] /\ doc'[t][Owner[t]] = made'[Owner[t]]
        /\ \A u \in Threads : pc'[u] # "idle" /\ u # t =>
             doc'[u] = doc[u] /\ made'[Owner[u]] = made[Owner[u]]
    BY <1>0, <2>1, PayloadMakes
  <2>3. \A v \in Writers : made'[v].block \in Nat /\ made[v].block <= made'[v].block
    BY <1>0, <2>1, PayloadMakes
  <2>4. Within(live.doc)' /\ (rpc' = "write" => Within(rdoc)')
    <3>1. \A n \in Int, v \in Writers : n <= made[v].block => n <= made'[v].block
      BY <2>3, <1>t
    <3>2. Within(live.doc) => \A v \in Writers : live.doc[v].block <= made'[v].block
      BY <1>t, <3>1 DEF Within
    <3>3. Within(rdoc) => \A v \in Writers : rdoc[v].block <= made'[v].block
      BY <1>t, <3>1 DEF Within
    <3> QED  BY <2>1, <2>2, <3>2, <3>3 DEF DocInv, Within
  <2>5. attack' # NoAttack => \E v \in Targets : attack'.target = {v} /\ attack'.block <= made'[v].block
    <3>1. SUFFICES ASSUME attack # NoAttack
                   PROVE  \E v \in Targets : attack.target = {v} /\ attack.block <= made'[v].block
      BY <2>2
    <3>2. PICK v \in Targets : attack.target = {v} /\ attack.block <= made[v].block
      BY <2>1, <3>1 DEF DocInv
    <3>3. attack.block <= made'[v].block
      BY <1>t, <2>3, <3>2
    <3> QED  BY <3>2, <3>3
  <2>6. rpc' = "open" => Edited(live.doc, rdoc)'
    <3>1. \A v \in Targets : Forged .. made[v].block \subseteq Forged .. made'[v].block
      BY <1>t, <2>3, DocTypes
    <3> QED  BY <2>1, <2>2, <3>1 DEF DocInv, Edited
  <2>7. ASSUME NEW u \in Threads
        PROVE  /\ pc'[u] = "load" => doc'[u][Owner[u]] = made'[Owner[u]]
               /\ pc'[u] \in {"open", "write"} => doc'[u] = Merged(u)'
               /\ pc'[u] = "replace" => tmp'.doc = Merged(u)'
    <3>1. CASE u = t
      BY <1>t, <2>2, <3>1
    <3>2. CASE u # t
      BY <1>t, <2>1, <2>2, <3>2 DEF DocInv, Merged
    <3> QED  BY <3>1, <3>2
  <2> QED  BY <2>4, <2>5, <2>6, <2>7 DEF DocInv
<1>1. ASSUME NEW t \in Threads, Load(t), Note PROVE DocInv'
  <2>1. calm /\ Alone'
    BY <1>1 DEF Note
  <2>2. /\ pc' = [pc EXCEPT ![t] = "open"] /\ live' = live /\ tmp' = tmp /\ rpc' = rpc /\ rdoc' = rdoc
        /\ attack' = attack /\ made' = made /\ pc[t] = "load"
        /\ doc' = [doc EXCEPT ![t] = [live.doc EXCEPT ![Owner[t]] = doc[t][Owner[t]]]]
    BY <1>1 DEF Load, files, rVars
  <2>3. doc'[t] = Merged(t)'
    BY <1>t, <2>1, <2>2 DEF DocInv, Merged
  <2>4. \A u \in Threads : u # t => pc'[u] = pc[u] /\ doc'[u] = doc[u]
    BY <1>t, <2>2
  <2>5. ASSUME NEW u \in Threads
        PROVE  /\ pc'[u] = "load" => doc'[u][Owner[u]] = made'[Owner[u]]
               /\ pc'[u] \in {"open", "write"} => doc'[u] = Merged(u)'
               /\ pc'[u] = "replace" => tmp'.doc = Merged(u)'
    <3>1. CASE u = t
      BY <1>t, <2>2, <2>3, <3>1
    <3>2. CASE u # t
      BY <2>1, <2>2, <2>4, <3>2 DEF DocInv, Merged
    <3> QED  BY <3>1, <3>2
  <2>6. Within(live.doc)' /\ Within(rdoc)' = Within(rdoc)
        /\ Edited(live.doc, rdoc)' = Edited(live.doc, rdoc)
    BY <2>1, <2>2 DEF DocInv, Within, Edited
  <2> QED  BY <2>1, <2>2, <2>5, <2>6 DEF DocInv
<1>2. ASSUME NEW t \in Threads, OpenTmp(t), Note PROVE DocInv'
  <2>1. calm /\ Alone
    BY <1>2 DEF Note, CalmInv
  <2>2. /\ pc' = [pc EXCEPT ![t] = "write"] /\ live' = live /\ rpc' = rpc /\ rdoc' = rdoc
        /\ attack' = attack /\ made' = made /\ doc' = doc /\ pc[t] = "open"
    BY <1>2 DEF OpenTmp, rVars
  <2>3. \A u \in Threads : InFile(u) => u = t
    BY <2>1, <2>2, AloneFacts DEF AloneApart, InFile
  <2> QED  BY <1>t, <2>1, <2>2, <2>3 DEF DocInv, Within, Edited, Merged, InFile
<1>3. ASSUME NEW t \in Threads, Write(t), Note PROVE DocInv'
  <2>1. calm /\ Alone
    BY <1>3 DEF Note, CalmInv
  <2>2. /\ pc' = [pc EXCEPT ![t] = "replace"] /\ rpc' = rpc /\ rdoc' = rdoc
        /\ attack' = attack /\ made' = made /\ pc[t] = "write" /\ doc' = [doc EXCEPT ![t] = Blank]
    BY <1>3 DEF Write, rVars
  <2>3. \A u \in Threads : InFile(u) => u = t
    BY <2>1, <2>2, AloneFacts DEF AloneApart, InFile
  <2>4. tmp' = Json(doc[t]) /\ live' = live
    BY <1>3, <2>1, WriteToEmpty DEF CalmInv, Write
  <2>5. tmp'.doc = Merged(t)'
    BY <2>1, <2>2, <2>4 DEF Json, DocInv, Merged
  <2>6. \A u \in Threads : u # t => pc'[u] = pc[u] /\ doc'[u] = doc[u]
    BY <1>t, <2>2
  <2> QED  BY <1>t, <2>1, <2>2, <2>3, <2>4, <2>5, <2>6 DEF DocInv, Within, Edited, InFile
<1>4. ASSUME NEW t \in Threads, FailWrite(t), Note PROVE DocInv'
  <2>1. calm /\ Alone
    BY <1>4 DEF Note, CalmInv
  <2>2. /\ pc' = [pc EXCEPT ![t] = "idle"] /\ rpc' = rpc /\ rdoc' = rdoc /\ live' = live
        /\ attack' = attack /\ made' = made /\ pc[t] = "write" /\ doc' = [doc EXCEPT ![t] = Blank]
    BY <1>4, <2>1 DEF FailWrite, CalmInv, rVars
  <2>3. \A u \in Threads : InFile(u) => u = t
    BY <2>1, <2>2, AloneFacts DEF AloneApart, InFile
  <2>6. \A u \in Threads : u # t => pc'[u] = pc[u] /\ doc'[u] = doc[u]
    BY <1>t, <2>2
  <2> QED  BY <1>t, <2>1, <2>2, <2>3, <2>6 DEF DocInv, Within, Edited, InFile
<1>5. ASSUME NEW t \in Threads, Replace(t), Note PROVE DocInv'
  <2>1. calm /\ Alone
    BY <1>5 DEF Note, CalmInv
  <2>2. /\ pc' = [pc EXCEPT ![t] = "idle"] /\ rpc' = rpc /\ rdoc' = rdoc /\ live' = tmp
        /\ attack' = attack /\ made' = made /\ doc' = doc /\ pc[t] = "replace"
    BY <1>5, <2>1 DEF Replace, CalmInv, rVars
  <2>3. rpc = "idle" /\ \A u \in Threads : InFile(u) => u = t
    BY <2>1, <2>2, AloneFacts DEF AloneApart, InFile
  <2>4. live'.doc = Merged(t) /\ Within(live.doc)
    BY <2>1, <2>2 DEF DocInv
  <2>5. Within(live.doc)'
    BY <1>t, <2>2, <2>4 DEF Within, Merged
  <2> QED  BY <1>t, <2>1, <2>2, <2>3, <2>5 DEF DocInv, InFile
<1>6. ASSUME NEW w \in Writers, Kill(w) \/ Start(w), Note PROVE DocInv'
  <2>1. calm
    BY <1>6 DEF Note
  <2>2. /\ live' = live /\ tmp' = tmp /\ rpc' = rpc /\ rdoc' = rdoc /\ attack' = attack /\ made' = made
        /\ \A u \in Threads : pc'[u] # "idle" => pc'[u] = pc[u] /\ doc'[u] = doc[u]
    BY <1>t, <1>6 DEF Kill, Start, files, rVars
  <2> QED  BY <2>1, <2>2 DEF DocInv, Within, Edited, Merged
<1>7. ASSUME ResetLoad \/ RestoreLoad \/ GiveUp \/ \E v \in Writers : AttackLoad(v), Note
      PROVE DocInv'
  <2>1. calm
    BY <1>7 DEF Note
  <2>2. /\ live' = live /\ tmp' = tmp /\ pc' = pc /\ doc' = doc /\ made' = made
    BY <1>7 DEF ResetLoad, RestoreLoad, GiveUp, AttackLoad, Edit, files, wVars
  <2>3. CASE GiveUp
    BY <2>1, <2>2, <2>3 DEF GiveUp, DocInv, Within, Edited, Merged
  <2>4. ASSUME rpc' = "open", Edited(live.doc, rdoc'),
               attack' # NoAttack =>
                 \E v \in Targets : attack'.target = {v} /\ attack'.block <= made[v].block
        PROVE  DocInv'
    BY <2>1, <2>2, <2>4 DEF DocInv, Within, Edited, Merged
  <2>5. CASE ResetLoad
    BY <2>1, <2>4, <2>5 DEF ResetLoad, Edit, Edited, DocInv
  <2>6. ASSUME NEW v \in Writers, AttackLoad(v) PROVE DocInv'
    BY <2>1, <2>4, <2>6 DEF AttackLoad, Edit, Edited, DocInv, Within
  <2>7. CASE RestoreLoad
    <3>1. PICK v \in Targets : attack.target = {v} /\ attack.block <= made[v].block
      BY <2>1, <2>7 DEF RestoreLoad, DocInv
    <3> QED  BY <2>4, <2>7, <3>1, RestoreEdits DEF RestoreLoad, Edit
  <2> QED  BY <1>7, <2>3, <2>5, <2>6, <2>7
<1>8. ASSUME ResetOpen, Note PROVE DocInv'
  <2>1. calm /\ rpc = "open" /\ rpc' = "write"
    BY <1>8 DEF Note, ResetOpen
  <2>2. /\ pc' = pc /\ made' = made /\ doc' = doc /\ rdoc' = rdoc /\ attack' = attack
        /\ live' = Bad("empty")
    BY <1>8 DEF ResetOpen, wVars
  <2>3. \A t \in Threads : ~ InFile(t)
    BY <2>1, AloneFacts DEF CalmInv, AloneApart
  <2>4. Within(rdoc)' /\ Within(live.doc)'
    BY <1>t, <2>1, <2>2, EditedWithin DEF DocInv, Within, Bad, Blank, NoEntry
  <2> QED  BY <2>1, <2>2, <2>3, <2>4 DEF DocInv, InFile
<1>9. ASSUME ResetWrite, Note PROVE DocInv'
  <2>1. calm /\ rpc = "write" /\ rpc' = "idle"
    BY <1>9 DEF Note, ResetWrite
  <2>2. /\ pc' = pc /\ made' = made /\ doc' = doc /\ attack' = attack
    BY <1>9 DEF ResetWrite, wVars
  <2>3. live' = Json(rdoc)
    BY <1>9, <2>1, WriteToEmpty DEF ResetWrite, CalmInv
  <2>4. \A t \in Threads : ~ InFile(t)
    BY <2>1, AloneFacts DEF CalmInv, AloneApart
  <2> QED  BY <2>1, <2>2, <2>3, <2>4 DEF DocInv, Within, Json, InFile
<1>10. CASE Abort
  BY <1>10 DEF Abort
<1>11. CASE UNCHANGED vars
  BY <1>11 DEF DocInv, Within, Edited, Merged, vars, files, wVars, rVars
<1> QED
  BY <1>0, <1>1, <1>2, <1>3, <1>4, <1>5, <1>6, <1>7, <1>8, <1>9, <1>10, <1>11
  DEF Next, Begins, GoesOn, Proceed, Fates, Rewrite, Finish

\* Before anything is rewritten nobody rewrites.
Untouched == calm /\ rewrites = 0 => rpc = "idle" /\ attack = NoAttack

LEMMA UntouchedStep == TypeOK /\ Untouched /\ [Next]_vars => Untouched'
<1> SUFFICES ASSUME TypeOK, Untouched, [Next]_vars, calm', rewrites' = 0 PROVE Untouched'
  BY DEF Untouched
<1>0. rewrites \in Nat
  BY Bounds DEF TypeOK
<1>1. CASE Rewrite
  <2>1. calm /\ (rewrites' = rewrites \/ rewrites' = rewrites + 1)
    BY <1>1 DEF Rewrite, ResetLoad, RestoreLoad, GiveUp, AttackLoad, Begin, Note
  <2>2. rewrites = 0
    BY <1>0, <2>1
  <2>3. attack = NoAttack
    BY <2>1, <2>2 DEF Untouched
  <2>4. rewrites' = 1
    BY <1>1, <2>2, <2>3 DEF Rewrite, ResetLoad, RestoreLoad, GiveUp, AttackLoad, Begin
  <2> QED  BY <2>4
<1>2. CASE Finish \/ Abort
  BY <1>2 DEF Finish, Abort, ResetOpen, ResetWrite, Note, Untouched
<1>3. ASSUME NEW t \in Threads, Begins(t) \/ GoesOn(t) PROVE Untouched'
  BY <1>3 DEF Begins, GoesOn, Proceed, Payload, Load, OpenTmp, Write, FailWrite, Replace, Note,
              Untouched, rVars
<1>4. ASSUME NEW w \in Writers, Fates(w) PROVE Untouched'
  BY <1>4 DEF Fates, Kill, Start, Note, Untouched, rVars
<1>5. CASE UNCHANGED vars
  BY <1>5 DEF vars, rVars, Untouched
<1> QED  BY <1>1, <1>2, <1>3, <1>4, <1>5 DEF Next

\* No entry of document e is older than the one of d.
NotOlder(d, e) == \A v \in Writers : e[v].block >= d[v].block

LEMMA LiveAdvances ==
  TypeOK /\ CalmInv /\ DocInv /\ Untouched /\ [Next]_vars =>
    (calm' /\ rewrites' = 0 => NotOlder(live.doc, live'.doc))
<1> SUFFICES ASSUME TypeOK, CalmInv, DocInv, Untouched, [Next]_vars, calm', rewrites' = 0
             PROVE  NotOlder(live.doc, live'.doc)
  OBVIOUS
<1>t. live.doc \in [Writers -> Entries] /\ \A v \in Writers : live.doc[v].block \in Int
  BY DocTypes
<1>0. NotOlder(live.doc, live.doc)
  BY <1>t DEF NotOlder
<1>1. ASSUME NEW t \in Threads, Payload(t) \/ Load(t) \/ OpenTmp(t) PROVE live' = live
  BY <1>1 DEF Payload, Load, OpenTmp, files
<1>2. ASSUME NEW t \in Threads, Write(t) \/ FailWrite(t), Note PROVE live' = live
  BY <1>2, WriteToEmpty DEF Write, FailWrite, Note, CalmInv
<1>3. ASSUME NEW t \in Threads, Replace(t), Note PROVE NotOlder(live.doc, live'.doc)
  <2>1. live'.doc = Merged(t) /\ Within(live.doc) /\ Owner[t] \in Writers
    BY <1>3, Bounds DEF Replace, Note, CalmInv, DocInv
  <2> QED  BY <1>t, <2>1 DEF NotOlder, Merged, Within
<1>4. ASSUME Finish PROVE FALSE
  BY <1>4 DEF Untouched, Finish, ResetOpen, ResetWrite, Note
<1>5. CASE Rewrite
  BY <1>0, <1>5 DEF Rewrite, ResetLoad, RestoreLoad, GiveUp, AttackLoad, Edit, files
<1>6. CASE Abort
  BY <1>6 DEF Abort
<1>7. ASSUME NEW w \in Writers, Fates(w) PROVE live' = live
  BY <1>7 DEF Fates, Kill, Start, files
<1>8. CASE UNCHANGED vars
  BY <1>0, <1>8 DEF vars, files
<1> QED
  BY <1>0, <1>1, <1>2, <1>3, <1>4, <1>5, <1>6, <1>7, <1>8 DEF Next, Begins, GoesOn, Proceed

LEMMA DocInit == Init => DocInv /\ Untouched
BY DEF Init, DocInv, Untouched, Within, Bad, Blank, NoEntry

\* What readers see of a controller never goes back to an earlier block as long
\* as no two sections or flushes of a controller meet and nothing is rewritten
\* (integrity/agent.py:264, 271).
THEOREM EntriesNeverGoBack == Spec => EntriesAdvance
<1>1. TypeOK /\ CalmInv /\ DocInv /\ Untouched /\ [Next]_vars =>
        [calm' /\ rewrites' = 0 =>
           \A w \in Writers : live'.doc[w].block >= live.doc[w].block]_vars
  BY LiveAdvances DEF NotOlder
<1> QED
  BY <1>1, CalmInit, DocInit, CalmStep, DocStep, UntouchedStep, StateFileTypeCorrect, PTL
  DEF Spec, EntriesAdvance

LEMMA PayloadMade ==
  ASSUME NEW t \in Threads, Payload(t)
  PROVE  Document!Made(Owner[t])
<1>1. made' = [made EXCEPT ![Owner[t]] =
                 [block |-> Later(made[Owner[t]].block), ok |-> Owner[t] \notin alarmed']]
  BY DEF Payload, NextEntry
<1>2. made' = [made EXCEPT ![Owner[t]] =
                 [block |-> IF @.block < MaxSeq THEN @.block + 1 ELSE @.block,
                  ok |-> Owner[t] \notin alarmed']]
  BY <1>1 DEF Later
<1> QED  BY <1>2 DEF Document!Made, Payload, Judges

\* Who forgets: a controller that is killed.
LEMMA KillForgets ==
  ASSUME NEW w \in Writers, Kill(w) \/ Start(w)
  PROVE  /\ made' = made /\ live' = live /\ rpc' = rpc /\ rdoc' = rdoc
         /\ alarmed' = alarmed \ {w} \/ alarmed' = alarmed
BY DEF Kill, Start, files, rVars

LEMMA OthersMakeNothing ==
  /\ \A t \in Threads : Proceed(t) => UNCHANGED <<made, alarmed>>
  /\ Rewrite \/ Finish \/ Abort \/ UNCHANGED vars => UNCHANGED <<made, alarmed>>
BY DEF Proceed, Load, OpenTmp, Write, FailWrite, Replace, Rewrite, Finish, Abort, ResetLoad,
       RestoreLoad, GiveUp, AttackLoad, Edit, ResetOpen, ResetWrite, vars, wVars

LEMMA CalmChanges ==
  ASSUME TypeOK, [Next]_vars
  PROVE  /\ ~ calm => ~ calm' /\ calm' = calm
         /\ ~ calm' => calm' = FALSE
         /\ calm /\ calm' => calm' = calm
<1>1. calm' = calm \/ calm' = FALSE \/ calm' = (calm /\ Alone')
  BY DEF Next, Begins, GoesOn, Fates, Rewrite, Finish, Abort, Note, vars
<1>2. (calm = TRUE \/ calm = FALSE) /\ calm' \in BOOLEAN
  <2>1. calm \in BOOLEAN
    BY DEF TypeOK
  <2>2. (calm /\ Alone') \in BOOLEAN
    OBVIOUS
  <2> QED  BY <1>1, <2>1, <2>2
<1>3. CASE calm = FALSE
  BY <1>1, <1>3
<1>4. CASE calm = TRUE
  BY <1>2, <1>4
<1> QED  BY <1>2, <1>3, <1>4

\* Nothing is promised any more.
LEMMA NotCalmDocument ==
  ASSUME TypeOK, [Next]_vars, ~ calm
  PROVE  [Document!Next]_(Document!docVars)
<1>1. ~ calm' /\ calm' = calm
  BY CalmChanges
<1>2. AbsEntries = Document!Blank /\ AbsEntries' = AbsEntries
  BY <1>1 DEF AbsEntries, Blank, NoEntry, Document!Blank
<1>3. ASSUME NEW t \in Threads, Payload(t) PROVE Document!Next
  <2>1. Document!Make(Owner[t])
    BY <1>1, <1>2, <1>3, PayloadMade DEF Document!Make
  <2> QED  BY <2>1, Bounds DEF Document!Next
<1>4. ASSUME NEW w \in Writers, Kill(w) \/ Start(w)
      PROVE  Document!Next \/ UNCHANGED Document!docVars
  <2>1. Document!Forget(w) \/ alarmed' = alarmed
    BY <1>1, <1>2, <1>4, KillForgets DEF Document!Forget
  <2> QED  BY <1>1, <1>2, <1>4, <2>1, KillForgets DEF Document!Next, Document!docVars
<1>5. CASE UNCHANGED <<made, alarmed>>
  BY <1>1, <1>2, <1>5 DEF Document!docVars
<1> QED  BY <1>3, <1>4, <1>5, OthersMakeNothing DEF Next, Begins, GoesOn, Fates

\* Two sections or flushes have met, or a rewrite was cut short.
LEMMA SpoilsDocument ==
  ASSUME TypeOK, CalmInv, [Next]_vars, calm, ~ calm'
  PROVE  Document!Spoil
<1>1. calm' = FALSE
  BY CalmChanges
<1>2. AbsEntries' = Document!Blank
  BY <1>1 DEF AbsEntries, Blank, NoEntry, Document!Blank
<1>3. ASSUME NEW t \in Threads, Payload(t) PROVE \E w \in Writers : Document!Made(w)
  BY <1>3, PayloadMade, Bounds
<1>4. ASSUME NEW w \in Writers, Fates(w) PROVE FALSE
  <2>1. Alone' /\ Note
    BY <1>4, StaysAlone DEF Fates, CalmInv
  <2> QED  BY <1>1, <2>1 DEF Note
<1>5. UNCHANGED <<made, alarmed>> \/ \E w \in Writers : Document!Made(w)
  BY <1>3, <1>4, OthersMakeNothing DEF Next, Begins, GoesOn
<1> QED  BY <1>1, <1>2, <1>5 DEF Document!Spoil

\* The edits of a rewriting process are the ones of the document.
LEMMA EditedDocument ==
  ASSUME TypeOK, DocInv, calm, calm', rpc = "open", AbsEntries = live.doc, AbsEntries' = rdoc,
         UNCHANGED <<made, alarmed>>
  PROVE  Document!Next
<1>1. Edited(live.doc, rdoc) /\ calm' = calm
  BY DEF DocInv, TypeOK
<1>2. CASE rdoc = [w \in Writers |-> [block |-> live.doc[w].block, ok |-> TRUE]]
  BY <1>1, <1>2 DEF Document!Clear, Document!Next
<1>3. ASSUME NEW v \in Targets, rdoc = [live.doc EXCEPT ![v] = [block |-> Forged, ok |-> FALSE]]
      PROVE  Document!Next
  <2>1. Document!Attack(v)
    BY <1>1, <1>3 DEF Document!Attack, Document!Forged, Forged
  <2> QED  BY <2>1 DEF Document!Next
<1>4. ASSUME NEW v \in Targets, NEW b \in Forged .. made[v].block,
             rdoc = [live.doc EXCEPT ![v] = [block |-> b, ok |-> TRUE]]
      PROVE  Document!Next
  <2>1. Document!Restore(v)
    BY <1>1, <1>4 DEF Document!Restore, Document!Forged, Forged
  <2> QED  BY <2>1 DEF Document!Next
<1> QED  BY <1>1, <1>2, <1>3, <1>4 DEF Edited

LEMMA CalmDocument ==
  ASSUME TypeOK, CalmInv, DocInv, [Next]_vars, calm, calm'
  PROVE  [Document!Next]_(Document!docVars)
<1>0. calm' = calm
  BY CalmChanges
<1>t. AbsEntries = IF rpc = "write" THEN rdoc ELSE live.doc
  BY DEF AbsEntries
<1>u. AbsEntries' = IF rpc' = "write" THEN rdoc' ELSE live'.doc
  BY DEF AbsEntries
<1>1. ASSUME NEW t \in Threads, Payload(t) PROVE Document!Next
  <2>1. AbsEntries' = AbsEntries
    BY <1>t, <1>u, <1>1 DEF Payload, files, rVars
  <2>2. Document!Make(Owner[t])
    BY <1>0, <1>1, <2>1, PayloadMade DEF Document!Make
  <2> QED  BY <2>2, Bounds DEF Document!Next
<1>2. ASSUME NEW t \in Threads, Load(t) \/ OpenTmp(t) PROVE UNCHANGED Document!docVars
  BY <1>0, <1>t, <1>u, <1>2 DEF Load, OpenTmp, files, rVars, Document!docVars
<1>3. ASSUME NEW t \in Threads, Write(t) PROVE UNCHANGED Document!docVars
  <2>1. live' = live
    BY <1>3, WriteToEmpty DEF CalmInv, Write
  <2> QED  BY <1>0, <1>t, <1>u, <1>3, <2>1 DEF Write, rVars, Document!docVars
<1>4. ASSUME NEW t \in Threads, FailWrite(t) PROVE UNCHANGED Document!docVars
  <2>1. live' = live
    BY <1>4 DEF CalmInv, FailWrite
  <2> QED  BY <1>0, <1>t, <1>u, <1>4, <2>1 DEF FailWrite, rVars, Document!docVars
<1>5. ASSUME NEW t \in Threads, Replace(t) PROVE Document!Next
  <2>1. live'.doc = Merged(t)
    BY <1>5 DEF Replace, CalmInv, DocInv
  <2>2. rpc = "idle" /\ rpc' = "idle" /\ UNCHANGED <<made, alarmed>>
    BY <1>5, AloneFacts DEF Replace, CalmInv, rVars, AloneApart, InFile
  <2>3. AbsEntries' = [AbsEntries EXCEPT ![Owner[t]] = made[Owner[t]]]
    BY <1>t, <1>u, <2>1, <2>2 DEF Merged
  <2>4. Document!Publish(Owner[t])
    BY <1>0, <2>2, <2>3 DEF Document!Publish
  <2> QED  BY <2>4, Bounds DEF Document!Next
<1>6. ASSUME NEW w \in Writers, Kill(w) \/ Start(w)
      PROVE  Document!Next \/ UNCHANGED Document!docVars
  <2>1. AbsEntries' = AbsEntries
    BY <1>t, <1>u, <1>6, KillForgets
  <2>2. Document!Forget(w) \/ alarmed' = alarmed
    BY <1>0, <1>6, <2>1, KillForgets DEF Document!Forget
  <2> QED  BY <1>0, <1>6, <2>1, <2>2, KillForgets DEF Document!Next, Document!docVars
<1>7. CASE Rewrite
  <2>1. live' = live /\ UNCHANGED <<made, alarmed>>
        /\ \/ rpc' = rpc /\ rdoc' = rdoc
           \/ rpc = "idle" /\ rpc' = "open"
    BY <1>7 DEF Rewrite, ResetLoad, RestoreLoad, GiveUp, AttackLoad, Edit, files, wVars
  <2> QED  BY <1>0, <1>t, <1>u, <2>1 DEF Document!docVars
<1>8. CASE ResetOpen
  BY <1>8, <1>t, <1>u, EditedDocument DEF ResetOpen, wVars
<1>9. CASE ResetWrite
  <2>1. live' = Json(rdoc)
    BY <1>9, WriteToEmpty DEF ResetWrite, CalmInv
  <2> QED  BY <1>0, <1>t, <1>u, <1>9, <2>1 DEF ResetWrite, Json, wVars, Document!docVars
<1>10. CASE UNCHANGED vars
  BY <1>10, <1>t, <1>u DEF vars, files, wVars, rVars, Document!docVars
<1> QED
  BY <1>1, <1>2, <1>3, <1>4, <1>5, <1>6, <1>7, <1>8, <1>9, <1>10
  DEF Next, Begins, GoesOn, Proceed, Fates, Finish, Abort

\* As long as no two sections or flushes of a controller meet and no rewrite is cut
\* short, the open, write and rename of every thread of every controller, the
\* truncating rewrites of the dashboard and the simulator, kills and full disks are
\* together one document, each update of which is one step that changes one
\* controller's entry to its newest and loses nothing of the others
\* (integrity/agent.py:253-273).
THEOREM FilesAreOneDocument == Spec => ImplementsDocument
<1>1. Init => Document!Init
  BY DEF Init, Document!Init, Document!Blank, AbsEntries, Bad, Blank, NoEntry
<1>2. TypeOK /\ CalmInv /\ DocInv /\ [Next]_vars => [Document!Next]_(Document!docVars)
  <2>1. TypeOK /\ CalmInv /\ [Next]_vars /\ calm /\ ~ calm' => Document!Next
    BY SpoilsDocument DEF Document!Next
  <2> QED  BY <2>1, NotCalmDocument, CalmDocument
<1> QED
  BY <1>1, <1>2, CalmInit, DocInit, CalmStep, DocStep, StateFileTypeCorrect, PTL
  DEF Spec, ImplementsDocument, Document!Spec

-----------------------------------------------------------------------------
(* What the heartbeat of a controller restores once nobody races.          *)

Apart(w) == w \in up /\ rpc = "idle" /\ Alone

\* What a section of thread u makes of the entry of w.
Due(u, w) == IF Owner[u] = w THEN made[w] ELSE live.doc[w]

\* Every flush under way carries what it should of the entry of w.
Carries(w) ==
  /\ made[w].ok = (w \notin alarmed)
  /\ \A u \in Threads :
       /\ pc[u] = "load" /\ Owner[u] = w => doc[u][w] = made[w]
       /\ pc[u] \in {"open", "write"} => doc[u][w] = Due(u, w)
       /\ pc[u] = "write" => fd[u] = "tmp" /\ tmp.kind = "empty"
       /\ pc[u] = "replace" => tmp.kind = "json" /\ tmp.doc[w] = Due(u, w)

Newest(w)  == live.kind = "json" /\ live.doc[w] = made[w]
Verdict(w) == live.kind = "json" /\ live.doc[w].ok = (w \notin alarmed)
Accused(w) == w \in alarmed

In(t, p) == pc[t] = p

\* A thread has just made the newest entry of its controller.
Ready(t) ==
  In(t, "load") /\ doc[t][Owner[t]] = made[Owner[t]] /\ made[Owner[t]].ok = (Owner[t] \notin alarmed)

\* Meanwhile threads flush, and other controllers are killed and started.
LEMMA ApartSteps ==
  ASSUME NEW w \in Writers, Apart(w), Apart(w)', [Next]_vars
  PROVE  \/ \E u \in Threads : Payload(u) \/ Load(u) \/ OpenTmp(u) \/ Write(u)
                                 \/ FailWrite(u) \/ Replace(u)
         \/ \E v \in Writers \ {w} : Kill(v) \/ Start(v)
         \/ UNCHANGED <<files, wVars, fd>>
<1>1. w \in up /\ w \in up' /\ rpc = "idle" /\ rpc' = "idle"
  BY DEF Apart
<1>2. CASE Rewrite \/ Finish \/ Abort
  BY <1>1, <1>2 DEF Rewrite, Finish, Abort, ResetLoad, RestoreLoad, GiveUp, AttackLoad, Edit,
                    ResetOpen, ResetWrite
<1>3. ASSUME NEW v \in Writers, Fates(v) PROVE v # w /\ (Kill(v) \/ Start(v))
  BY <1>1, <1>3 DEF Fates, Kill, Start
<1> QED  BY <1>2, <1>3 DEF Next, Begins, GoesOn, Proceed, vars

\* The step of a thread that does not write a file keeps what all carry.
LEMMA FirstStepsCarry ==
  ASSUME TypeOK, NEW w \in Writers, Apart(w), Apart(w)', Carries(w), NEW t \in Threads,
         Payload(t) \/ Load(t)
  PROVE  Carries(w)'
<1>t. /\ pc \in [Threads -> Positions] /\ live.doc \in [Writers -> Entries]
      /\ doc \in [Threads -> [Writers -> Entries]] /\ \A u \in Threads : Owner[u] \in Writers
      /\ made \in [Writers -> Entries]
  BY DocTypes, Bounds DEF TypeOK
<1>1. CASE Payload(t)
  <2>1. Alone'
    BY DEF Apart
  <2>2. /\ live' = live /\ tmp' = tmp /\ pc' = [pc EXCEPT ![t] = "load"] /\ pc[t] = "idle"
        /\ doc'[t][Owner[t]] = made'[Owner[t]]
        /\ made'[Owner[t]].ok = (Owner[t] \notin alarmed')
        /\ \A u \in Threads : pc'[u] # "idle" /\ u # t =>
              doc'[u] = doc[u] /\ made'[Owner[u]] = made[Owner[u]] /\ Owner[u] # Owner[t]
    BY <1>1, <2>1, PayloadMakes
  <2>3. fd' = fd /\ made' = [made EXCEPT ![Owner[t]] = NextEntry(Owner[t])]
        /\ alarmed' \in {alarmed, alarmed \cup ({Owner[t]} \cap Targets)}
    BY <1>1 DEF Payload, Judges
  <2>4. made'[w].ok = (w \notin alarmed')
    <3>1. CASE w = Owner[t]
      BY <2>2, <3>1
    <3>2. CASE w # Owner[t]
      <4>1. made'[w] = made[w] /\ (w \in alarmed' <=> w \in alarmed)
        BY <1>t, <2>3, <3>2
      <4> QED  BY <4>1 DEF Carries
    <3> QED  BY <3>1, <3>2
  <2>5. ASSUME NEW u \in Threads
        PROVE  /\ pc'[u] = "load" /\ Owner[u] = w => doc'[u][w] = made'[w]
               /\ pc'[u] \in {"open", "write"} => doc'[u][w] = Due(u, w)'
               /\ pc'[u] = "write" => fd'[u] = "tmp" /\ tmp'.kind = "empty"
               /\ pc'[u] = "replace" => tmp'.kind = "json" /\ tmp'.doc[w] = Due(u, w)'
    <3>1. CASE u = t
      BY <1>t, <2>2, <3>1
    <3>2. CASE u # t /\ pc'[u] = "idle"
      BY <3>2
    <3>3. CASE u # t /\ pc'[u] # "idle"
      <4>1. pc'[u] = pc[u] /\ doc'[u] = doc[u] /\ made'[Owner[u]] = made[Owner[u]]
        BY <1>t, <2>2, <3>3
      <4>2. Due(u, w)' = Due(u, w)
        BY <2>2, <4>1 DEF Due
      <4> QED  BY <2>2, <2>3, <4>1, <4>2 DEF Carries
    <3> QED  BY <3>1, <3>2, <3>3
  <2> QED  BY <2>4, <2>5 DEF Carries
<1>2. CASE Load(t)
  <2>1. /\ live' = live /\ tmp' = tmp /\ pc' = [pc EXCEPT ![t] = "open"] /\ pc[t] = "load"
        /\ fd' = fd /\ made' = made /\ alarmed' = alarmed
        /\ doc' = [doc EXCEPT ![t] = [live.doc EXCEPT ![Owner[t]] = doc[t][Owner[t]]]]
    BY <1>2 DEF Load, files
  <2>2. doc'[t][w] = Due(t, w)'
    BY <1>t, <2>1 DEF Due, Carries
  <2>3. \A u \in Threads : u # t => pc'[u] = pc[u] /\ doc'[u] = doc[u]
    BY <1>t, <2>1
  <2>4. \A u \in Threads : Due(u, w)' = Due(u, w)
    BY <2>1 DEF Due
  <2>5. pc'[t] = "open"
    BY <1>t, <2>1
  <2> QED  BY <2>1, <2>2, <2>3, <2>4, <2>5 DEF Carries
<1> QED  BY <1>1, <1>2

LEMMA FileStepsCarry ==
  ASSUME TypeOK, NEW w \in Writers, Apart(w), Apart(w)', Carries(w), NEW t \in Threads,
         OpenTmp(t) \/ Write(t) \/ FailWrite(t) \/ Replace(t)
  PROVE  /\ Carries(w)'
         /\ live' = live \/ (live' = tmp /\ tmp.kind = "json" /\ tmp.doc[w] = Due(t, w))
         /\ Replace(t) => live' = tmp
         /\ made' = made /\ alarmed' = alarmed
<1>t. /\ pc \in [Threads -> Positions] /\ live.doc \in [Writers -> Entries]
      /\ doc \in [Threads -> [Writers -> Entries]] /\ fd \in [Threads -> Handles]
  BY DocTypes DEF TypeOK
<1>a. pc[t] \in {"open", "write", "replace"} /\ made' = made /\ alarmed' = alarmed
  BY DEF OpenTmp, Write, FailWrite, Replace
<1>b. \A u \in Threads : InFile(u) => u = t
  BY <1>a, AloneFacts DEF Apart, AloneApart, InFile
<1>c. \A u \in Threads \ {t} : pc[u] \in {"idle", "load"}
  BY <1>b, <1>t DEF InFile, Positions
<1>1. CASE OpenTmp(t)
  <2>1. /\ live' = live /\ tmp'.kind = "empty" /\ pc' = [pc EXCEPT ![t] = "write"]
        /\ fd' = [fd EXCEPT ![t] = "tmp"] /\ doc' = doc /\ pc[t] = "open"
    BY <1>1 DEF OpenTmp, Bad
  <2>2. \A u \in Threads : Due(u, w)' = Due(u, w)
    BY <1>a, <2>1 DEF Due
  <2>3. Carries(w)'
    BY <1>t, <1>a, <1>c, <2>1, <2>2 DEF Carries
  <2>4. ~ Replace(t)
    BY <2>1 DEF Replace
  <2> QED  BY <1>a, <2>1, <2>3, <2>4
<1>2. CASE Write(t)
  <2>1. /\ pc' = [pc EXCEPT ![t] = "replace"] /\ doc' = [doc EXCEPT ![t] = Blank] /\ pc[t] = "write"
    BY <1>2 DEF Write
  <2>2. tmp' = Json(doc[t]) /\ live' = live
    BY <1>2, <2>1, WriteToEmpty DEF Carries, Write
  <2>3. \A u \in Threads : Due(u, w)' = Due(u, w)
    BY <1>a, <2>2 DEF Due
  <2>4. tmp'.kind = "json" /\ tmp'.doc[w] = Due(t, w)'
    BY <2>1, <2>2, <2>3 DEF Carries, Json
  <2>5. Carries(w)'
    BY <1>t, <1>a, <1>c, <2>1, <2>3, <2>4 DEF Carries
  <2>6. ~ Replace(t)
    BY <2>1 DEF Replace
  <2> QED  BY <1>a, <2>2, <2>5, <2>6
<1>3. CASE FailWrite(t)
  <2>1. /\ pc' = [pc EXCEPT ![t] = "idle"] /\ doc' = [doc EXCEPT ![t] = Blank] /\ pc[t] = "write"
    BY <1>3 DEF FailWrite
  <2>2. live' = live
    BY <1>3, <2>1 DEF Carries, FailWrite
  <2>3. \A u \in Threads : Due(u, w)' = Due(u, w)
    BY <1>a, <2>2 DEF Due
  <2>5. Carries(w)'
    BY <1>t, <1>a, <1>c, <2>1, <2>3 DEF Carries
  <2>6. ~ Replace(t)
    BY <2>1 DEF Replace
  <2> QED  BY <1>a, <2>2, <2>5, <2>6
<1>4. CASE Replace(t)
  <2>1. /\ pc' = [pc EXCEPT ![t] = "idle"] /\ doc' = doc /\ pc[t] = "replace"
    BY <1>4 DEF Replace
  <2>2. tmp.kind = "json" /\ tmp.doc[w] = Due(t, w)
    BY <2>1 DEF Carries
  <2>3. live' = tmp
    BY <1>4, <2>2 DEF Replace
  <2>5. Carries(w)'
    BY <1>t, <1>a, <1>c, <2>1 DEF Carries
  <2> QED  BY <1>a, <2>2, <2>3, <2>5
<1> QED  BY <1>1, <1>2, <1>3, <1>4

\* A kill or a start of another controller, or nothing.
LEMMA OtherStepsCarry ==
  ASSUME TypeOK, NEW w \in Writers,
         \/ \E v \in Writers \ {w} : Kill(v) \/ Start(v)
         \/ UNCHANGED <<files, wVars, fd>>
  PROVE  /\ live' = live /\ made' = made /\ (w \in alarmed' <=> w \in alarmed)
         /\ Carries(w) => Carries(w)'
         /\ \A t \in Threads : Owner[t] = w => pc'[t] = pc[t] /\ doc'[t] = doc[t]
<1>1. CASE UNCHANGED <<files, wVars, fd>>
  BY <1>1 DEF Carries, Due, files, wVars
<1>2. ASSUME NEW v \in Writers \ {w}, Kill(v) \/ Start(v)
      PROVE  /\ live' = live /\ tmp' = tmp /\ made' = made /\ (w \in alarmed' <=> w \in alarmed)
             /\ \A u \in Threads : pc'[u] # "idle" => pc'[u] = pc[u] /\ doc'[u] = doc[u] /\ fd'[u] = fd[u]
             /\ \A t \in Threads : Owner[t] = w => pc'[t] = pc[t] /\ doc'[t] = doc[t]
  BY <1>2 DEF TypeOK, Kill, Start, files
<1>3. ASSUME NEW v \in Writers \ {w}, Kill(v) \/ Start(v) PROVE Carries(w) => Carries(w)'
  BY <1>2, <1>3 DEF Carries, Due
<1> QED  BY <1>1, <1>2, <1>3

LEMMA CarriesSteps ==
  ASSUME TypeOK, NEW w \in Writers, Apart(w), Apart(w)', [Next]_vars
  PROVE  /\ Carries(w) => Carries(w)'
         /\ Accused(w) => Accused(w)'
         /\ Carries(w) /\ Verdict(w) /\ (Accused(w)' => Accused(w)) => Verdict(w)'
<1>1. ASSUME NEW t \in Threads, Payload(t) \/ Load(t)
      PROVE  live' = live /\ (Accused(w) => Accused(w)')
  BY <1>1 DEF Payload, Judges, Load, files, Accused
<1>2. ASSUME NEW t \in Threads, OpenTmp(t) \/ Write(t) \/ FailWrite(t) \/ Replace(t)
      PROVE  Accused(w)' = Accused(w)
  BY <1>2 DEF OpenTmp, Write, FailWrite, Replace, Accused
<1>3. ASSUME NEW t \in Threads, OpenTmp(t) \/ Write(t) \/ FailWrite(t) \/ Replace(t),
             Carries(w), Verdict(w)
      PROVE  Verdict(w)'
  BY <1>3, FileStepsCarry DEF Verdict, Due, Carries
<1>4. ASSUME \/ \E v \in Writers \ {w} : Kill(v) \/ Start(v)
             \/ UNCHANGED <<files, wVars, fd>>
      PROVE  /\ live' = live /\ Accused(w)' = Accused(w)
             /\ Carries(w) => Carries(w)'
  BY <1>4, OtherStepsCarry DEF Accused
<1>5. ASSUME live' = live, Accused(w) => Accused(w)'
      PROVE  Verdict(w) /\ (Accused(w)' => Accused(w)) => Verdict(w)'
  BY <1>5 DEF Verdict, Accused
<1> QED  BY <1>1, <1>2, <1>3, <1>4, <1>5, ApartSteps, FirstStepsCarry, FileStepsCarry

\* How a thread of w goes round.
LEMMA RoundSteps ==
  ASSUME TypeOK, NEW t \in Threads, Apart(Owner[t]), Apart(Owner[t])', [Next]_vars
  PROVE  /\ In(t, "idle") => In(t, "idle")' \/ Ready(t)'
         /\ Ready(t) => Ready(t)' \/ (In(t, "open")' /\ Carries(Owner[t])')
         /\ In(t, "load") => In(t, "load")' \/ In(t, "open")'
         /\ In(t, "open") => In(t, "open")' \/ In(t, "write")'
         /\ In(t, "replace") => In(t, "replace")' \/ In(t, "idle")'
         /\ In(t, "replace") /\ Carries(Owner[t]) => In(t, "replace")' \/ Newest(Owner[t])'
<1> DEFINE w == Owner[t]
<1>t. /\ pc \in [Threads -> Positions] /\ live.doc \in [Writers -> Entries]
      /\ doc \in [Threads -> [Writers -> Entries]] /\ w \in Writers
      /\ made \in [Writers -> Entries]
  BY DocTypes, Bounds DEF TypeOK
<1>1. ASSUME NEW u \in Threads \ {t}, Payload(u) \/ Load(u) \/ OpenTmp(u) \/ Write(u)
                                        \/ FailWrite(u) \/ Replace(u)
      PROVE  pc'[t] = pc[t] /\ doc'[t] = doc[t]
  BY <1>t, <1>1 DEF Payload, Load, OpenTmp, Write, FailWrite, Replace
<1>2. ASSUME NEW u \in Threads \ {t}, Payload(u), pc[t] # "idle"
      PROVE  made'[w] = made[w] /\ (w \in alarmed' <=> w \in alarmed)
  <2>1. Owner[u] # w /\ made'[w] = made[w]
    BY <1>1, <1>2, PayloadMakes DEF Apart
  <2> QED  BY <1>2, <2>1 DEF Payload, Judges
<1>3. ASSUME NEW u \in Threads, Load(u) \/ OpenTmp(u) \/ Write(u) \/ FailWrite(u) \/ Replace(u)
      PROVE  made' = made /\ alarmed' = alarmed
  BY <1>3 DEF Load, OpenTmp, Write, FailWrite, Replace
<1>4. ASSUME \/ \E v \in Writers \ {w} : Kill(v) \/ Start(v)
             \/ UNCHANGED <<files, wVars, fd>>
      PROVE  /\ pc'[t] = pc[t] /\ doc'[t] = doc[t] /\ made' = made
             /\ (w \in alarmed' <=> w \in alarmed)
  BY <1>t, <1>4, OtherStepsCarry
<1>5. CASE Payload(t)
  <2>1. /\ pc'[t] = "load" /\ pc[t] = "idle" /\ doc'[t][w] = made'[w]
        /\ made'[w].ok = (w \notin alarmed')
    BY <1>t, <1>5, PayloadMakes DEF Apart
  <2> QED  BY <2>1 DEF In, Ready
<1>6. CASE Load(t)
  <2>1. /\ pc'[t] = "open" /\ pc[t] = "load" /\ live' = live
        /\ doc'[t] = [live.doc EXCEPT ![w] = doc[t][w]]
        /\ made' = made /\ alarmed' = alarmed
    BY <1>t, <1>6 DEF Load, files
  <2>2. Alone'
    BY DEF Apart
  <2>3. \A u \in Threads \ {t} : ~ InFile(u)'
    BY <2>1, <2>2, AloneFactsNext DEF AloneApart, InFile
  <2>4. \A u \in Threads \ {t} : pc'[u] = "load" => Owner[u] # w
    BY <2>1, <2>2, AloneFactsNext DEF AloneApart
  <2>5. Ready(t) => Carries(w)'
    BY <1>t, <2>1, <2>3, <2>4 DEF Ready, Carries, Due, InFile
  <2> QED  BY <2>1, <2>5 DEF In, Ready
<1>7. CASE OpenTmp(t)
  BY <1>t, <1>7 DEF OpenTmp, In, Ready
<1>8. CASE Write(t) \/ FailWrite(t)
  BY <1>t, <1>8 DEF Write, FailWrite, In, Ready
<1>9. CASE Replace(t)
  <2>1. pc'[t] = "idle" /\ pc[t] = "replace"
    BY <1>t, <1>9 DEF Replace
  <2>2. Carries(w) => Newest(w)'
    BY <1>t, <1>9, <2>1, FileStepsCarry DEF Newest, Carries, Due
  <2> QED  BY <2>1, <2>2 DEF In, Ready
<1>10. ASSUME pc'[t] = pc[t], doc'[t] = doc[t],
              pc[t] # "idle" => made'[w] = made[w] /\ (w \in alarmed' <=> w \in alarmed)
       PROVE  /\ \A p \in Positions : In(t, p) => In(t, p)'
              /\ Ready(t) => Ready(t)'
  BY <1>10 DEF In, Ready
<1>11. CASE \E u \in Threads \ {t} : Payload(u) \/ Load(u) \/ OpenTmp(u) \/ Write(u)
                                        \/ FailWrite(u) \/ Replace(u)
  BY <1>1, <1>2, <1>3, <1>10, <1>11 DEF Positions
<1>12. CASE \/ \E v \in Writers \ {w} : Kill(v) \/ Start(v)
            \/ UNCHANGED <<files, wVars, fd>>
  BY <1>4, <1>10, <1>12 DEF Positions
<1>13. \/ \E u \in Threads : Payload(u) \/ Load(u) \/ OpenTmp(u) \/ Write(u)
                                 \/ FailWrite(u) \/ Replace(u)
       \/ \E v \in Writers \ {w} : Kill(v) \/ Start(v)
       \/ UNCHANGED <<files, wVars, fd>>
  BY <1>t, ApartSteps
<1> QED  BY <1>5, <1>6, <1>7, <1>8, <1>9, <1>11, <1>12, <1>13

\* The heartbeat of a controller stores its document again and again.
KeepsFlushing(t) == []<><<Stores(t)>>_vars

LEMMA OneHeals ==
  ASSUME NEW w \in Writers, NEW t \in Threads, Owner[t] = w
  PROVE  []TypeOK /\ [][Next]_vars /\ <>[]Apart(w) /\ KeepsFlushing(t) => Healed(w)
<1> DEFINE L == Apart(w)
           C == Carries(w)
           N == Newest(w)
           V == Verdict(w)
           A == Accused(w)
           I == In(t, "idle")
           D == Ready(t)
           P == In(t, "open")
           O == In(t, "write")
           R == In(t, "replace")
<1>1. TypeOK /\ L /\ L' /\ [Next]_vars => (I => I' \/ D')
  BY RoundSteps
<1>2. TypeOK /\ L /\ L' /\ [Next]_vars => (D => D' \/ (P' /\ C'))
  BY RoundSteps
<1>3. TypeOK /\ L /\ L' /\ [Next]_vars => (R => R' \/ I')
  BY RoundSteps
<1>4. TypeOK /\ L /\ L' /\ [Next]_vars => (R /\ C => R' \/ N')
  BY RoundSteps
<1>5. TypeOK /\ L /\ L' /\ [Next]_vars => (C => C')
  BY CarriesSteps
<1>6. TypeOK /\ L /\ L' /\ [Next]_vars => (A => A')
  BY CarriesSteps
<1>7. TypeOK /\ L /\ L' /\ [Next]_vars => (C /\ V /\ (A' => A) => V')
  BY CarriesSteps
<1>8. TypeOK /\ <<Stores(t)>>_vars => O /\ R'
  BY DEF TypeOK, Stores, Write, In
<1>9. ~ (O /\ R) /\ ~ (O /\ I) /\ ~ (O /\ D)
  BY DEF In, Ready
<1>10. N /\ C => V
  BY DEF Newest, Verdict, Carries
<1>11. N => live.doc[w] = made[w]
  BY DEF Newest
<1>12. V => live.kind = "json" /\ live.doc[w].ok = (w \notin alarmed)
  BY DEF Verdict
<1> HIDE DEF L, C, N, V, A, I, D, P, O, R
\* It gets to the end of a section and through a flush of its own from the start, ...
<1>13. []TypeOK /\ [][Next]_vars /\ <>[]L /\ []<><<Stores(t)>>_vars => <>[](L /\ C)
  BY <1>1, <1>2, <1>3, <1>5, <1>8, <1>9, PTL
\* ... and from there to the end of the next one, again and again ...
<1>14. []TypeOK /\ [][Next]_vars /\ <>[](L /\ C) /\ []<><<Stores(t)>>_vars => []<>N
  BY <1>4, <1>8, <1>9, PTL
\* ... with the same verdict, at last.
<1>15. []TypeOK /\ [][Next]_vars /\ <>[](L /\ C) /\ []<>N => <>[]V
  BY <1>6, <1>7, <1>10, PTL
<1>16. []TypeOK /\ [][Next]_vars /\ <>[]L /\ []<><<Stores(t)>>_vars => []<>N /\ <>[]V
  BY <1>13, <1>14, <1>15, PTL
<1> QED  BY <1>11, <1>12, <1>16, PTL DEF L, KeepsFlushing, Healed

\* Fairness takes the heartbeat from each position to the next, and a section that
\* fails begins again.
LEMMA GoingOn ==
  ASSUME TypeOK, NEW t \in Threads
  PROVE  /\ <<Begins(t)>>_vars => ~ In(t, "idle")'
         /\ <<GoesOn(t)>>_vars =>
              /\ In(t, "load") => ~ In(t, "load")'
              /\ In(t, "open") => ~ In(t, "open")'
              /\ In(t, "replace") => ~ In(t, "replace")'
BY DEF TypeOK, Begins, GoesOn, Proceed, Payload, Load, OpenTmp, Write, FailWrite, Replace, In

LEMMA AlwaysFlushes ==
  ASSUME NEW w \in Writers, NEW t \in Heartbeats, Owner[t] = w
  PROVE  []TypeOK /\ [][Next]_vars /\ []NeverWaits /\ Runs(t) /\ Beats(t) /\ <>[]Apart(w)
           => KeepsFlushing(t)
<1> DEFINE L == Apart(w)
           I == In(t, "idle")
           D == In(t, "load")
           P == In(t, "open")
           O == In(t, "write")
           R == In(t, "replace")
           EB == ENABLED <<Begins(t)>>_vars
           E  == ENABLED <<GoesOn(t)>>_vars
           EW == ENABLED <<Stores(t)>>_vars
<1>t. t \in Threads
  BY Bounds
<1>1. TypeOK /\ L /\ L' /\ [Next]_vars
        => (I => I' \/ D') /\ (D => D' \/ P') /\ (P => P' \/ O') /\ (R => R' \/ I')
  BY <1>t, RoundSteps DEF Ready
<1>2. TypeOK /\ <<Begins(t)>>_vars => ~ I'
  BY <1>t, GoingOn
<1>3. TypeOK /\ <<GoesOn(t)>>_vars => (D => ~ D') /\ (P => ~ P') /\ (R => ~ R')
  BY <1>t, GoingOn
<1>4. NeverWaits /\ L => (~ I => E) /\ (O => EW) /\ (I => EB)
  <2>1. NeverWaits => CanGoOn(t)
    BY <1>t, Zenon DEF NeverWaits
  <2>2. CanGoOn(t) => (pc[t] # "idle" => E) /\ (pc[t] = "write" => EW)
                      /\ (t \in Heartbeats /\ pc[t] = "idle" /\ Owner[t] \in up => EB)
    BY Zenon DEF CanGoOn
  <2>3. (I <=> pc[t] = "idle") /\ (O <=> pc[t] = "write") /\ (L => Owner[t] \in up)
    BY DEF In, Apart
  <2> HIDE DEF E, EW, EB, I, O, L
  <2> QED  BY <2>1, <2>2, <2>3
<1>5. TypeOK => I \/ D \/ P \/ O \/ R
  BY <1>t DEF TypeOK, Positions, In
<1>6. ~ (I /\ D) /\ ~ (I /\ P) /\ ~ (I /\ R) /\ ~ (D /\ P) /\ ~ (D /\ R) /\ ~ (P /\ R)
  BY DEF In
<1> HIDE DEF L, I, D, P, O, R
<1>7. []TypeOK /\ [][Next]_vars /\ []NeverWaits /\ WF_vars(GoesOn(t)) /\ WF_vars(Begins(t)) /\ <>[]L
        => []<>O
  BY <1>1, <1>2, <1>3, <1>4, <1>5, <1>6, PTL
<1>8. []NeverWaits /\ <>[]L /\ SF_vars(Stores(t)) /\ []<>O => []<><<Stores(t)>>_vars
  BY <1>4, PTL
<1> QED  BY <1>7, <1>8, PTL DEF L, Runs, Beats, KeepsFlushing

\* From whatever files there are, and whatever flushes carry when the races end, the
\* heartbeat of a controller brings back a readable document with its own verdict
\* for good and its newest entry again and again, if steps are always possible when
\* a thread stands before them (NeverWaits) and no bound holds a heartbeat back
\* (integrity/agent.py:237-273, 305-316).
THEOREM HeartbeatAlwaysHeals == FairSpec /\ []NeverWaits => HeartbeatHeals
<1>1. ASSUME NEW w \in Writers, NEW t \in Heartbeats, Owner[t] = w
      PROVE  FairSpec /\ []NeverWaits => (<>[]Apart(w) => Healed(w))
  <2>1. FairSpec => Spec /\ Runs(t) /\ Beats(t)
    BY Bounds DEF FairSpec, Fairness
  <2>2. Spec => []TypeOK /\ [][Next]_vars
    BY StateFileTypeCorrect, PTL DEF Spec
  <2>3. []TypeOK /\ [][Next]_vars /\ []NeverWaits /\ Runs(t) /\ Beats(t) /\ <>[]Apart(w)
          => KeepsFlushing(t)
    BY <1>1, AlwaysFlushes
  <2>4. []TypeOK /\ [][Next]_vars /\ <>[]Apart(w) /\ KeepsFlushing(t) => Healed(w)
    BY <1>1, OneHeals, Bounds
  <2> QED  BY <2>1, <2>2, <2>3, <2>4
<1>2. ASSUME NEW w \in Writers
      PROVE  FairSpec /\ []NeverWaits => (Undisturbed(w) => Healed(w))
  <2>1. CASE \E t \in Heartbeats : Owner[t] = w
    <3>1. PICK t \in Heartbeats : Owner[t] = w
      BY <2>1
    <3>2. FairSpec /\ []NeverWaits => (<>[]Apart(w) => Healed(w))
      BY <1>1, <3>1
    <3>3. Undisturbed(w) => <>[]Apart(w)
      BY DEF Undisturbed, Apart
    <3> QED  BY <3>2, <3>3
  <2>2. CASE ~ \E t \in Heartbeats : Owner[t] = w
    BY <2>2 DEF Undisturbed
  <2> QED  BY <2>1, <2>2
<1> QED  BY <1>2 DEF HeartbeatHeals
=============================================================================
