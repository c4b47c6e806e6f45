---------------------------- MODULE GossipProofs ----------------------------
(***************************************************************************)
(* Theorems about Gossip for every set of peers and every limit: what the  *)
(* receiver knows of a peer is fresh, and, when requests are answered      *)
(* before their sender gives up, never moves backwards; a peer that runs   *)
(* again is accepted again, and one that is dead is reported.              *)
(***************************************************************************)
EXTENDS Gossip, Progress, FiniteSetTheorems, TLAPS

-----------------------------------------------------------------------------
(* Type correctness.                                                       *)

Frames == Requests \cup {Free}

LEMMA Limits ==
  /\ Ttl \in Nat /\ Window \in Nat /\ Grace \in Nat /\ TrustMax \in Nat
  /\ Gain \in Nat /\ SigPenalty \in Nat /\ MaxGen \in Nat /\ MaxReboots \in Nat
  /\ MaxIdx \in Nat \ {0} /\ Prompt \in BOOLEAN
BY GossipAssumption

LEMMA SlotType ==
  ASSUME TypeOK, NEW p \in Peers, NEW s \in Slots, req[p][s].at # "free"
  PROVE  /\ req[p] \in [Slots -> Frames]
         /\ req[p][s] \in Requests
         /\ req[p][s].idx \in 1 .. MaxIdx
         /\ req[p][s].gen \in 0 .. MaxGen /\ req[p][s].age \in 0 .. Window + 1
<1>1. req[p] \in [Slots -> Frames]
  BY DEF TypeOK, Frames
<1>2. req[p][s] \in Requests
  BY <1>1 DEF Frames, Free
<1> QED  BY <1>1, <1>2 DEF Requests

LEMMA FillType ==
  ASSUME TypeOK, NEW p \in Peers, NEW s \in Slots, NEW m \in Frames,
         req' = [req EXCEPT ![p][s] = m]
  PROVE  req' \in [Peers -> [Slots -> Frames]]
<1>1. req \in [Peers -> [Slots -> Frames]]
  BY DEF TypeOK, Frames
<1>2. [req[p] EXCEPT ![s] = m] \in [Slots -> Frames]
  BY <1>1
<1>3. req' = [req EXCEPT ![p] = [req[p] EXCEPT ![s] = m]]
  OBVIOUS
<1> QED  BY <1>1, <1>2, <1>3

LEMMA AnswerType ==
  ASSUME TypeOK, NEW p \in Peers, NEW s \in Slots, Answer(p, s)
  PROVE  req' \in [Peers -> [Slots -> Frames]]
BY FillType DEF Answer, Frames

LEMMA MoveType ==
  ASSUME TypeOK, NEW p \in Peers, NEW s \in Slots,
         NEW from \in Places, NEW to \in Places, Move(p, s, from, to)
  PROVE  /\ req' \in [Peers -> [Slots -> Frames]]
         /\ req[p][s].at # "free"
<1>1. req[p][s].at # "free"
  BY DEF Move, Places
<1>2. [req[p][s] EXCEPT !.at = to] \in Frames
  BY <1>1, SlotType DEF Requests, Frames
<1>3. req' = [req EXCEPT ![p][s] = [req[p][s] EXCEPT !.at = to]]
  BY DEF Move
<1> QED  BY <1>1, <1>2, <1>3, FillType

LEMMA HandleType ==
  ASSUME TypeOK, NEW p \in Peers, NEW s \in Slots, Handle(p, s)
  PROVE  TypeOK'
<1> USE Limits
<1>1. CASE Receive(p, s)
  <2>1. req' \in [Peers -> [Slots -> Frames]]
    BY <1>1, AnswerType, MoveType DEF Receive, Places
  <2>2. lastSeen' \in [Peers -> Never .. Ttl + 1]
    BY <1>1 DEF Receive, TypeOK, Never
  <2>3. Lesser(silent[p], req[p][s].age) \in 0 .. Ttl + 1
    <3>1. req[p][s].age \in Nat
      BY <1>1, SlotType DEF Receive, Arrive
    <3> QED  BY <3>1 DEF TypeOK, Lesser
  <2>4. silent' \in [Peers -> 0 .. Ttl + 1]
    BY <1>1, <2>3 DEF Receive, Arrive, TypeOK
  <2> QED  BY <1>1, <2>1, <2>2, <2>4 DEF Receive, Arrive, TypeOK, Frames, agentVars, selfVars
<1>2. CASE StoreIndex(p, s)
  <2>1. req' \in [Peers -> [Slots -> Frames]] /\ req[p][s].at # "free"
    BY <1>2, MoveType DEF StoreIndex, Places
  <2>2. lastIdx' \in [Peers -> {Never} \cup 1 .. MaxIdx]
    BY <1>2, <2>1, SlotType DEF StoreIndex, TypeOK
  <2> QED  BY <1>2, <2>1, <2>2 DEF StoreIndex, TypeOK, Frames, peerVars, nodeVars, selfVars
<1>3. CASE RejectSignature(p, s)
  <2>1. req' \in [Peers -> [Slots -> Frames]]
    BY <1>3, AnswerType DEF RejectSignature
  <2>2. Greater(0, trust[p] - SigPenalty) \in 0 .. TrustMax
    BY DEF TypeOK, Greater
  <2>3. trust' \in [Peers -> 0 .. TrustMax]
    BY <1>3, <2>2 DEF RejectSignature, TypeOK
  <2> QED  BY <1>3, <2>1, <2>3 DEF RejectSignature, TypeOK, Frames, peerVars, nodeVars, selfVars
<1>6. CASE PassSignature(p, s)
  <2>1. req' \in [Peers -> [Slots -> Frames]]
    BY <1>6, MoveType DEF PassSignature, Places
  <2>2. Lesser(TrustMax, trust[p] + Gain) \in 0 .. TrustMax
    BY DEF TypeOK, Lesser
  <2>3. trust' \in [Peers -> 0 .. TrustMax]
    BY <1>6, <2>2 DEF PassSignature, TypeOK
  <2> QED  BY <1>6, <2>1, <2>3 DEF PassSignature, TypeOK, Frames, peerVars, nodeVars, selfVars
<1>4. CASE AcceptHash(p, s)
  <2>1. req' \in [Peers -> [Slots -> Frames]] /\ req[p][s].at # "free"
    BY <1>4, MoveType DEF AcceptHash, Places
  <2>3. peerHash' \in [Peers -> {Never} \cup 0 .. MaxGen]
    BY <1>4, <2>1, SlotType DEF AcceptHash, TypeOK
  <2> QED  BY <1>4, <2>1, <2>3 DEF AcceptHash, TypeOK, Frames, peerVars, agentVars, selfVars
<1>5. CASE Consensus(p, s)
  <2>1. req' \in [Peers -> [Slots -> Frames]]
    BY <1>5, AnswerType DEF Consensus
  <2>2. \A q \in Peers : /\ trust[q] \in 0 .. TrustMax
                         /\ Lesser(TrustMax, trust[q] + Gain) \in 0 .. TrustMax
    BY DEF TypeOK, Lesser
  <2>3. trust' \in [Peers -> 0 .. TrustMax]
    BY <1>5, <2>2 DEF Consensus
  <2> QED  BY <1>5, <2>1, <2>3 DEF Consensus, TypeOK, Frames, peerVars, nodeVars, selfVars
<1> QED  BY <1>1, <1>2, <1>3, <1>4, <1>5, <1>6 DEF Handle

LEMMA NextType ==
  ASSUME TypeOK, [Next]_vars
  PROVE  TypeOK'
<1> USE Limits
<1>1. ASSUME NEW p \in Peers, Grow(p) \/ Crash(p) \/ Recover(p)
      PROVE  TypeOK'
  <2>1. CASE Grow(p)
    <3>1. CASE GrowHeight(p)
      <4>1. PICK v \in oldest[p] .. height[p] :
              /\ v < MaxIdx
              /\ height' = [height EXCEPT ![p] = v + 1]
              /\ fell' = [fell EXCEPT ![p] = @ \/ v + 1 < height[p]]
        BY <3>1 DEF GrowHeight
      <4>2. v + 1 \in 1 .. MaxIdx /\ oldest[p] <= v + 1
        BY <4>1 DEF TypeOK
      <4>3. height' \in [Peers -> 1 .. MaxIdx] /\ \A q \in Peers : oldest[q] <= height'[q]
        BY <4>1, <4>2 DEF TypeOK
      <4>4. fell' \in [Peers -> BOOLEAN]
        BY <4>1 DEF TypeOK
      <4> QED  BY <3>1, <4>3, <4>4 DEF GrowHeight, TypeOK, agentVars, nodeVars, selfVars
    <3>2. CASE StaleAddsEnd(p)
      <4>1. oldest[p] + 1 \in 1 .. MaxIdx /\ oldest[p] + 1 <= height[p]
        BY <3>2 DEF StaleAddsEnd, TypeOK
      <4>2. oldest' \in [Peers -> 1 .. MaxIdx] /\ \A q \in Peers : oldest'[q] <= height[q]
        BY <3>2, <4>1 DEF StaleAddsEnd, TypeOK
      <4> QED  BY <3>2, <4>2 DEF StaleAddsEnd, TypeOK, agentVars, nodeVars, selfVars
    <3> QED  BY <2>1, <3>1, <3>2 DEF Grow
  <2>3. CASE Crash(p)
    BY <2>3 DEF Crash, TypeOK, agentVars, nodeVars, selfVars
  <2>4. CASE Recover(p)
    <3>1. /\ height' \in [Peers -> 1 .. MaxIdx] /\ oldest' \in [Peers -> 1 .. MaxIdx]
          /\ \A q \in Peers : oldest'[q] <= height'[q]
      BY <2>4 DEF Recover, TypeOK
    <3>2. fell' \in [Peers -> BOOLEAN]
      BY <2>4 DEF Recover, TypeOK
    <3>3. gen' \in [Peers -> 0 .. MaxGen] /\ up' \in [Peers -> BOOLEAN]
      BY <2>4 DEF Recover, TypeOK
    <3> QED  BY <2>4, <3>1, <3>2, <3>3 DEF Recover, TypeOK, agentVars, nodeVars, selfVars
  <2> QED  BY <1>1, <2>1, <2>3, <2>4
<1>2. ASSUME NEW p \in Peers, NEW s \in Slots, Push(p, s) PROVE TypeOK'
  <2> DEFINE m == [at |-> "sent", gen |-> gen[p], idx |-> height[p], age |-> 0]
  <2>1. m \in Frames
    BY <1>2 DEF Push, TypeOK, Frames, Requests, Places
  <2>2. req' \in [Peers -> [Slots -> Frames]]
    BY <1>2, <2>1, FillType DEF Push
  <2> QED  BY <1>2, <2>2 DEF Push, TypeOK, Frames, peerVars, agentVars, nodeVars, selfVars
<1>7. ASSUME NEW p \in Peers, NEW s \in Slots, Lose(p, s) PROVE TypeOK'
  <2>1. req' \in [Peers -> [Slots -> Frames]]
    BY <1>7, AnswerType DEF Lose
  <2> QED  BY <1>7, <2>1 DEF Lose, TypeOK, Frames, peerVars, agentVars, nodeVars, selfVars
<1>3. CASE Sweep
  BY <1>3 DEF Sweep, TypeOK, peerVars, agentVars, nodeVars
<1>4. CASE Tick
  <2>1. ASSUME NEW p \in Peers, NEW s \in Slots
        PROVE  req'[p][s] \in Frames
    <3>1. CASE req[p][s].at = "sent"
      <4>1. req'[p][s] = [req[p][s] EXCEPT !.age = Lesser(Window + 1, @ + 1)]
        BY <1>4, <3>1 DEF Tick
      <4>2. req[p][s] \in Requests
        BY <3>1, SlotType
      <4>3. Lesser(Window + 1, req[p][s].age + 1) \in 0 .. Window + 1
        BY <4>2 DEF Lesser, Requests
      <4> QED  BY <4>1, <4>2, <4>3 DEF Requests, Frames
    <3>2. CASE req[p][s].at # "sent"
      <4>1. req'[p][s] = req[p][s]
        BY <1>4, <3>2 DEF Tick
      <4> QED  BY <4>1 DEF TypeOK, Frames
    <3> QED  BY <3>1, <3>2
  <2>2. req' \in [Peers -> [Slots -> Frames]]
    BY <1>4, <2>1 DEF Tick
  <2>3. silent' \in [Peers -> 0 .. Ttl + 1]
    BY <1>4 DEF Tick, TypeOK, Lesser
  <2>4. lastSeen' \in [Peers -> Never .. Ttl + 1]
    BY <1>4 DEF Tick, TypeOK, Lesser, Never
  <2>5. age' \in 0 .. Grace
    BY <1>4 DEF Tick, TypeOK, Lesser
  <2> QED  BY <1>4, <2>2, <2>3, <2>4, <2>5 DEF Tick, TypeOK, Frames, agentVars
<1>5. CASE Reboot
  <2>1. req' \in [Peers -> [Slots -> Frames]]
    BY <1>5 DEF Reboot, NoRequests, Frames
  <2>2. /\ lastSeen' \in [Peers -> Never .. Ttl + 1]
        /\ lastIdx' \in [Peers -> {Never} \cup 1 .. MaxIdx]
        /\ peerHash' \in [Peers -> {Never} \cup 0 .. MaxGen]
        /\ trust' \in [Peers -> 0 .. TrustMax]
    BY <1>5 DEF Reboot, Never
  <2>3. fell' \in [Peers -> BOOLEAN]
    BY <1>5 DEF Reboot
  <2> QED  BY <1>5, <2>1, <2>2, <2>3 DEF Reboot, TypeOK, Frames
<1>6. CASE UNCHANGED vars
  BY <1>6 DEF vars, peerVars, agentVars, nodeVars, selfVars, TypeOK
<1> QED  BY <1>1, <1>2, <1>3, <1>4, <1>5, <1>6, <1>7, HandleType DEF Next

\* The receiver's tables keep their types: trust stays between 0 and its
\* maximum, and an index on record is one a chain can have.
THEOREM GossipTypeCorrect == Spec => []TypeOK
<1>1. Init => TypeOK
  BY Limits DEF Init, TypeOK, NoRequests, Never
<1> QED  BY <1>1, NextType, PTL DEF Spec

-----------------------------------------------------------------------------
(* Freshness, whatever is lost and however requests overlap.               *)

LEMMA OtherSlot ==
  ASSUME TypeOK, NEW p \in Peers, NEW s \in Slots, NEW m,
         req' = [req EXCEPT ![p][s] = m]
  PROVE  /\ req'[p][s] = m
         /\ \A q \in Peers, r \in Slots :
              q # p \/ r # s => req'[q][r] = req[q][r]
BY DEF TypeOK

\* Where a step of a handler leaves the requests: the one it handles goes to
\* its next place with its fields as they were, or is answered.
LEMMA HandleMoves ==
  ASSUME TypeOK, NEW p \in Peers, NEW s \in Slots, Handle(p, s)
  PROVE  /\ \/ req'[p][s] = Free
            \/ /\ req'[p][s].idx = req[p][s].idx
               /\ req'[p][s].gen = req[p][s].gen /\ req'[p][s].age = req[p][s].age
               /\ req'[p][s].at = CASE req[p][s].at = "sent"   -> "store"
                                    [] req[p][s].at = "store"  -> "verify"
                                    [] req[p][s].at = "verify" -> "accept"
                                    [] OTHER -> "vote"
         /\ req[p][s].at # "free"
         /\ \A q \in Peers, r \in Slots :
              q # p \/ r # s => req'[q][r] = req[q][r]
<1> DEFINE After(m, to) ==
      /\ req' = [req EXCEPT ![p][s] = m]
      /\ \/ m = Free
         \/ /\ m.at = to /\ m.idx = req[p][s].idx
            /\ m.gen = req[p][s].gen /\ m.age = req[p][s].age
<1>1. ASSUME NEW from \in Places, NEW to \in Places, Move(p, s, from, to)
      PROVE  req[p][s].at = from /\ \E m : After(m, to)
  <2> DEFINE m == [req[p][s] EXCEPT !.at = to]
  <2>1. req[p][s].at = from /\ req[p][s] \in Requests
    BY <1>1, SlotType DEF Move, Places
  <2>2. /\ m.at = to /\ m.idx = req[p][s].idx
        /\ m.gen = req[p][s].gen /\ m.age = req[p][s].age
    BY <2>1 DEF Requests
  <2>3. req' = [req EXCEPT ![p][s] = m]
    BY <1>1 DEF Move
  <2> QED  BY <2>1, <2>2, <2>3
<1>2. ASSUME Answer(p, s) PROVE After(Free, "vote")
  BY <1>2 DEF Answer
<1>3. \E m, from, to :
        /\ After(m, to) /\ req[p][s].at = from
        /\ \/ from = "sent" /\ to = "store"
           \/ from = "store" /\ to = "verify"
           \/ from = "verify" /\ to = "accept"
           \/ from = "accept" /\ to = "vote"
           \/ from = "vote" /\ to = "vote"
  <2>1. CASE Receive(p, s)
    BY <2>1, <1>1, <1>2 DEF Receive, Arrive, Places
  <2>2. CASE StoreIndex(p, s)
    BY <2>2, <1>1 DEF StoreIndex, Places
  <2>3. CASE RejectSignature(p, s)
    BY <2>3, <1>2 DEF RejectSignature
  <2>6. CASE PassSignature(p, s)
    BY <2>6, <1>1 DEF PassSignature, Places
  <2>4. CASE AcceptHash(p, s)
    BY <2>4, <1>1 DEF AcceptHash, Places
  <2>5. CASE Consensus(p, s)
    BY <2>5, <1>2 DEF Consensus
  <2> QED  BY <2>1, <2>2, <2>3, <2>4, <2>5, <2>6 DEF Handle
<1>4. PICK m, from, to :
        /\ After(m, to) /\ req[p][s].at = from
        /\ \/ from = "sent" /\ to = "store"
           \/ from = "store" /\ to = "verify"
           \/ from = "verify" /\ to = "accept"
           \/ from = "accept" /\ to = "vote"
           \/ from = "vote" /\ to = "vote"
  BY <1>3
<1>5. /\ req'[p][s] = m
      /\ \A q \in Peers, r \in Slots : q # p \/ r # s => req'[q][r] = req[q][r]
  BY <1>4, OtherSlot
<1>6. to = CASE from = "sent" -> "store" [] from = "store" -> "verify"
             [] from = "verify" -> "accept" [] OTHER -> "vote"
  BY <1>4
<1>7. from # "free"
  BY <1>4
<1> QED  BY <1>4, <1>5, <1>6, <1>7

\* last_seen is at least as recent as the latest push that arrived was sent.
SeenIsFresh == \A p \in Peers : lastSeen[p] <= silent[p]

LEMMA FreshStep ==
  ASSUME TypeOK, SeenIsFresh, [Next]_vars
  PROVE  SeenIsFresh'
<1> USE Limits
<1> SUFFICES ASSUME NEW q \in Peers
             PROVE  lastSeen'[q] <= silent'[q]
  BY DEF SeenIsFresh
<1>0. /\ lastSeen[q] <= silent[q]
      /\ lastSeen[q] \in Never .. Ttl + 1 /\ silent[q] \in 0 .. Ttl + 1
  BY DEF SeenIsFresh, TypeOK
<1>1. CASE UNCHANGED <<lastSeen, silent>>
  BY <1>0, <1>1
<1>2. ASSUME NEW p \in Peers, Grow(p) \/ Crash(p) \/ Recover(p)
      PROVE  UNCHANGED <<lastSeen, silent>>
  BY <1>2 DEF Grow, GrowHeight, StaleAddsEnd, Crash, Recover, nodeVars
<1>3. ASSUME NEW p \in Peers, NEW s \in Slots,
             Push(p, s) \/ Lose(p, s) \/ (Handle(p, s) /\ ~ Receive(p, s))
      PROVE  UNCHANGED <<lastSeen, silent>>
  BY <1>3 DEF Push, Lose, Handle, StoreIndex, RejectSignature, PassSignature, AcceptHash,
              Consensus, peerVars, nodeVars
<1>4. ASSUME NEW p \in Peers, NEW s \in Slots, Receive(p, s)
      PROVE  lastSeen'[q] <= silent'[q]
  <2>1. /\ lastSeen'[q] = IF q = p THEN 0 ELSE lastSeen[q]
        /\ silent'[q] = IF q = p THEN Lesser(silent[q], req[p][s].age) ELSE silent[q]
    BY <1>4 DEF Receive, Arrive, TypeOK
  <2>2. req[p][s].age \in Nat
    BY <1>4, SlotType DEF Receive, Arrive
  <2> QED  BY <1>0, <2>1, <2>2 DEF Lesser
<1>5. CASE Tick
  <2>1. /\ silent'[q] = Lesser(Ttl + 1, silent[q] + 1)
        /\ lastSeen'[q] = IF lastSeen[q] = Never THEN Never
                          ELSE Lesser(Ttl + 1, lastSeen[q] + 1)
    BY <1>5 DEF Tick
  <2> QED  BY <1>0, <2>1 DEF Lesser, Never
<1>6. CASE Reboot
  <2>1. lastSeen'[q] = Never /\ silent' = silent
    BY <1>6 DEF Reboot
  <2> QED  BY <1>0, <2>1 DEF Never
<1>7. Sweep \/ UNCHANGED vars => UNCHANGED <<lastSeen, silent>>
  BY DEF Sweep, vars, peerVars, nodeVars
<1> QED  BY <1>1, <1>2, <1>3, <1>4, <1>5, <1>6, <1>7 DEF Next

\* However late handlers run, however they overlap and whichever pushes are
\* lost or turned down, a CTRL_OFFLINE alert is never false: no push of the
\* peer sent within the TTL had arrived.
THEOREM NoFalseOffline == Spec => OfflineMeansSilent
<1> DEFINE Accused == \A p \in offline' \ offline : silent[p] > Ttl
<1>1. Init => SeenIsFresh
  BY Limits DEF Init, SeenIsFresh, Never
<1>2. TypeOK /\ SeenIsFresh /\ [Next]_vars => SeenIsFresh'
  BY FreshStep
<1>3. ASSUME TypeOK, SeenIsFresh, [Next]_vars PROVE [Accused]_vars
  <2>1. CASE Sweep
    <3> SUFFICES ASSUME NEW p \in Peers, Expired(p)
                 PROVE  silent[p] > Ttl
      BY <2>1 DEF Sweep
    <3>1. lastSeen[p] \in Never .. Ttl + 1 /\ silent[p] \in 0 .. Ttl + 1
      BY <1>3 DEF TypeOK
    <3> QED  BY <1>3, <3>1, Limits DEF SeenIsFresh, Expired, Never
  <2>2. CASE Reboot
    BY <2>2 DEF Reboot
  <2>3. CASE ~ Sweep /\ ~ Reboot
    <3>1. offline' = offline \/ UNCHANGED vars
      BY <1>3, <2>3 DEF Next, Grow, GrowHeight, StaleAddsEnd, Crash, Recover, Push,
           Lose, Handle, Receive, Arrive, StoreIndex, RejectSignature, PassSignature,
           AcceptHash, Consensus, Tick, selfVars
    <3> QED  BY <3>1
  <2> QED  BY <2>1, <2>2, <2>3
<1> QED  BY <1>1, <1>2, <1>3, GossipTypeCorrect, PTL DEF Spec, OfflineMeansSilent

-----------------------------------------------------------------------------
(* Order, when a request ends before its sender's timeout: then one request *)
(* of a peer is handled at a time, and what it was checked against is what *)
(* it updates.                                                             *)

\* Between the check of the index and the last use of the request nothing else
\* moves the index on record.
RequestInv ==
  \A p \in Peers, s \in Slots :
    /\ req[p][s].at = "store" => lastIdx[p] <= req[p][s].idx
    /\ req[p][s].at \in {"verify", "accept"} => lastIdx[p] = req[p][s].idx

\* As long as the height of a peer has not gone back, every index of it that is on
\* the way or on record is one it has reached, in the order they were sent.
RisesOnly(p) ==
  /\ lastIdx[p] <= height[p]
  /\ \A s \in Slots : req[p][s].at # "free" =>
       lastIdx[p] <= req[p][s].idx /\ req[p][s].idx <= height[p]

HeightInv == \A p \in Peers : fell[p] \/ RisesOnly(p)

OrderInv == TypeOK /\ RequestInv /\ HeightInv

\* The steps of the peers.
LEMMA PeerOrder ==
  ASSUME OrderInv, NEW p \in Peers, Grow(p) \/ Crash(p) \/ Recover(p)
  PROVE  RequestInv' /\ HeightInv'
<1> USE Limits
<1>0. TypeOK /\ UNCHANGED <<req, lastIdx>>
  BY DEF OrderInv, Grow, GrowHeight, StaleAddsEnd, Crash, Recover, agentVars
<1>t. TypeOK'
  <2>1. [Next]_vars
    BY DEF Next
  <2> QED  BY <1>0, <2>1, NextType
<1>1. RequestInv'
  BY <1>0 DEF OrderInv, RequestInv
<1>2. SUFFICES ASSUME NEW q \in Peers PROVE (fell[q] \/ RisesOnly(q))'
  BY <1>1 DEF HeightInv
<1>3. fell[q] \/ RisesOnly(q)
  BY DEF OrderInv, HeightInv
<1>4. lastIdx[q] \in Int /\ height[q] \in Int
      /\ \A s \in Slots : req[q][s].at # "free" => req[q][s].idx \in Int
  BY <1>0, SlotType DEF TypeOK, Never
<1>5. CASE fell'[q] = fell[q] /\ height'[q] >= height[q]
  <2>1. height'[q] \in Int
    BY <1>t DEF TypeOK
  <2>2. RisesOnly(q) => RisesOnly(q)'
    BY <1>0, <1>4, <1>5, <2>1 DEF RisesOnly
  <2> QED  BY <1>3, <1>5, <2>2
<1>6. CASE fell'[q]
  BY <1>6
<1>7. CASE GrowHeight(p)
  <2>1. PICK v \in oldest[p] .. height[p] :
          /\ v < MaxIdx
          /\ height' = [height EXCEPT ![p] = v + 1]
          /\ fell' = [fell EXCEPT ![p] = @ \/ v + 1 < height[p]]
    BY <1>7 DEF GrowHeight
  <2>2. q # p => fell'[q] = fell[q] /\ height'[q] = height[q]
    BY <1>0, <2>1 DEF TypeOK
  <2>3. q = p => (fell'[q] <=> fell[q] \/ v + 1 < height[q]) /\ height'[q] = v + 1
    BY <1>0, <2>1 DEF TypeOK
  <2>4. v \in Int
    BY <1>0 DEF TypeOK
  <2>5. fell[q] \in BOOLEAN /\ fell'[q] \in BOOLEAN
    BY <1>0, <2>1 DEF TypeOK
  <2> QED  BY <1>4, <1>5, <1>6, <2>2, <2>3, <2>4, <2>5
<1>8. CASE Recover(p)
  <2>1. q # p => fell'[q] = fell[q] /\ height'[q] = height[q]
    BY <1>0, <1>8 DEF Recover, TypeOK
  <2>2. q = p => (fell'[q] <=> fell[q] \/ 1 < height[q]) /\ height'[q] = 1
    BY <1>0, <1>8 DEF Recover, TypeOK
  <2>3. fell[q] \in BOOLEAN /\ fell'[q] \in BOOLEAN
    BY <1>0, <1>8 DEF Recover, TypeOK
  <2> QED  BY <1>4, <1>5, <1>6, <2>1, <2>2, <2>3
<1>9. CASE StaleAddsEnd(p) \/ Crash(p)
  <2>1. UNCHANGED <<fell, height>>
    BY <1>9 DEF StaleAddsEnd, Crash
  <2> QED  BY <1>4, <1>5, <2>1
<1> QED  BY <1>7, <1>8, <1>9 DEF Grow

\* The other steps outside the handlers.
LEMMA OtherOrder ==
  ASSUME OrderInv, [Next]_vars,
         ~ \E p \in Peers, s \in Slots : Handle(p, s),
         ~ \E p \in Peers : Grow(p) \/ Crash(p) \/ Recover(p)
  PROVE  RequestInv' /\ HeightInv'
<1> USE Limits
<1>0. TypeOK
  BY DEF OrderInv
<1>h. \A q \in Peers : fell[q] \/ RisesOnly(q)
  BY DEF OrderInv, HeightInv
<1>1. CASE UNCHANGED <<req, lastIdx, height, fell>>
  BY <1>1 DEF OrderInv, RequestInv, HeightInv, RisesOnly
<1>2. ASSUME NEW p \in Peers, NEW s \in Slots, Push(p, s)
      PROVE  RequestInv' /\ HeightInv'
  <2> DEFINE m == [at |-> "sent", gen |-> gen[p], idx |-> height[p], age |-> 0]
  <2>1. m.at = "sent" /\ m.idx = height[p]
    OBVIOUS
  <2>2. req' = [req EXCEPT ![p][s] = m] /\ UNCHANGED <<lastIdx, height, fell>>
    BY <1>2 DEF Push, agentVars, peerVars
  <2> HIDE DEF m
  <2>3. \A q \in Peers, r \in Slots :
          req'[q][r] = IF q = p /\ r = s THEN m ELSE req[q][r]
    BY <1>0, <2>2 DEF TypeOK
  <2>4. RequestInv'
    BY <2>1, <2>2, <2>3 DEF OrderInv, RequestInv
  <2>5. height[p] <= height[p]
    BY <1>0 DEF TypeOK
  <2>6. HeightInv'
    BY <1>h, <2>1, <2>2, <2>3, <2>5 DEF HeightInv, RisesOnly
  <2> QED  BY <2>4, <2>6
<1>3. ASSUME NEW p \in Peers, NEW s \in Slots, Lose(p, s)
      PROVE  RequestInv' /\ HeightInv'
  <2>1. \A q \in Peers, r \in Slots :
          req'[q][r] = IF q = p /\ r = s THEN Free ELSE req[q][r]
    BY <1>0, <1>3 DEF Lose, Answer, TypeOK
  <2>2. UNCHANGED <<lastIdx, height, fell>>
    BY <1>3 DEF Lose, agentVars, peerVars
  <2>3. RequestInv'
    BY <2>1, <2>2 DEF OrderInv, RequestInv, Free
  <2> QED  BY <1>h, <2>1, <2>2, <2>3 DEF HeightInv, RisesOnly, Free
<1>4. CASE Tick
  <2>1. UNCHANGED <<lastIdx, height, fell>>
    BY <1>4 DEF Tick, agentVars
  <2>2. ASSUME NEW q \in Peers, NEW r \in Slots
        PROVE  req'[q][r].at = req[q][r].at /\ req'[q][r].idx = req[q][r].idx
    <3>1. CASE req[q][r].at = "sent"
      <4>1. req'[q][r] = [req[q][r] EXCEPT !.age = Lesser(Window + 1, @ + 1)]
        BY <1>4, <3>1 DEF Tick
      <4>2. req[q][r] \in Requests
        BY <1>0, <3>1, SlotType
      <4> QED  BY <4>1, <4>2 DEF Requests
    <3>2. CASE req[q][r].at # "sent"
      BY <1>4, <3>2 DEF Tick
    <3> QED  BY <3>1, <3>2
  <2> QED  BY <1>h, <2>1, <2>2 DEF OrderInv, RequestInv, HeightInv, RisesOnly
<1>5. CASE Reboot
  <2>1. \A q \in Peers, r \in Slots : req'[q][r] = Free
    BY <1>5 DEF Reboot, NoRequests
  <2>2. \A q \in Peers : lastIdx'[q] <= height'[q]
    BY <1>0, <1>5 DEF Reboot, TypeOK, Never
  <2> QED  BY <2>1, <2>2 DEF RequestInv, HeightInv, RisesOnly, Free
<1>6. Sweep \/ UNCHANGED vars => UNCHANGED <<req, lastIdx, height, fell>>
  BY DEF Sweep, vars, agentVars, peerVars
<1> QED  BY <1>1, <1>2, <1>3, <1>4, <1>5, <1>6 DEF Next

\* The steps of the handlers.  With one slot, the request a handler moves is
\* the only one of its peer.
LEMMA HandleOrder ==
  ASSUME OrderInv, Prompt, NEW p \in Peers, NEW s \in Slots, Handle(p, s)
  PROVE  /\ RequestInv' /\ HeightInv'
         /\ \A q \in Peers : lastIdx'[q] >= lastIdx[q]
<1> USE Limits
<1> DEFINE m == req[p][s]
<1>t. TypeOK
  BY DEF OrderInv
<1>0. m.at # "free" /\ m.idx \in 1 .. MaxIdx /\ \A q \in Peers : lastIdx[q] \in Int
  <2>1. m.at # "free"
    BY <1>t, HandleMoves
  <2>2. m.idx \in 1 .. MaxIdx
    BY <1>t, <2>1, SlotType
  <2> QED  BY <1>t, <2>1, <2>2 DEF TypeOK, Never
<1>1. \A q \in Peers, r \in Slots : q # p => req'[q][r] = req[q][r]
  BY <1>t, HandleMoves
<1>2. \A r \in Slots : r = s
  BY GossipAssumption
<1>3. UNCHANGED <<height, fell>>
  BY DEF Handle, Receive, Arrive, StoreIndex, RejectSignature, PassSignature, AcceptHash,
     Consensus, peerVars
<1>4. \/ req'[p][s] = Free
      \/ /\ req'[p][s].idx = m.idx
         /\ req'[p][s].at = CASE m.at = "sent"   -> "store"
                              [] m.at = "store"  -> "verify"
                              [] m.at = "verify" -> "accept"
                              [] OTHER -> "vote"
  BY <1>t, HandleMoves
<1>5. ASSUME lastIdx'[p] >= lastIdx[p] /\ lastIdx'[p] \in {lastIdx[p], m.idx},
             \A q \in Peers : q # p => lastIdx'[q] = lastIdx[q],
             req'[p][s].at = "store" => lastIdx'[p] <= req'[p][s].idx,
             req'[p][s].at \in {"verify", "accept"} => lastIdx'[p] = req'[p][s].idx
      PROVE  /\ RequestInv' /\ HeightInv'
             /\ \A q \in Peers : lastIdx'[q] >= lastIdx[q]
  <2>1. RequestInv' /\ \A q \in Peers : lastIdx'[q] >= lastIdx[q]
    BY <1>0, <1>1, <1>2, <1>5 DEF OrderInv, RequestInv
  <2>2. ASSUME NEW q \in Peers, q # p PROVE (fell[q] \/ RisesOnly(q))'
    BY <1>1, <1>3, <1>5, <2>2 DEF OrderInv, HeightInv, RisesOnly
  <2>3. RisesOnly(p) => RisesOnly(p)'
    <3>1. RisesOnly(p) => m.idx <= height[p] /\ lastIdx[p] <= m.idx /\ lastIdx[p] <= height[p]
      BY <1>0 DEF RisesOnly
    <3> QED  BY <1>0, <1>2, <1>3, <1>4, <1>5, <3>1 DEF RisesOnly, Free
  <2>4. (fell[p] \/ RisesOnly(p))'
    BY <1>3, <2>3 DEF OrderInv, HeightInv
  <2> QED  BY <2>1, <2>2, <2>4 DEF HeightInv
<1>6. CASE Receive(p, s)
  <2>1. lastIdx' = lastIdx /\ m.at = "sent"
    BY <1>6 DEF Receive, Arrive, agentVars
  <2>2. req'[p][s] # Free => m.idx >= lastIdx[p]
    <3> SUFFICES ASSUME m.age > Window \/ m.idx < lastIdx[p] PROVE req'[p][s] = Free
      BY <1>0
    <3> QED  BY <1>t, <1>6 DEF Receive, Answer, TypeOK
  <2> QED  BY <1>0, <1>4, <1>5, <2>1, <2>2 DEF Free
<1>7. CASE StoreIndex(p, s)
  <2>1. lastIdx' = [lastIdx EXCEPT ![p] = m.idx] /\ m.at = "store"
    BY <1>7 DEF StoreIndex, Move
  <2>2. lastIdx'[p] = m.idx /\ \A q \in Peers : q # p => lastIdx'[q] = lastIdx[q]
    BY <1>t, <2>1 DEF TypeOK
  <2>3. m.idx >= lastIdx[p]
    BY <1>0, <2>1 DEF OrderInv, RequestInv
  <2> QED  BY <1>0, <1>4, <1>5, <2>1, <2>2, <2>3 DEF Free
<1>8. CASE RejectSignature(p, s) \/ PassSignature(p, s)
  <2>1. lastIdx' = lastIdx /\ m.at = "verify"
    BY <1>8 DEF RejectSignature, PassSignature, Move
  <2>2. m.idx = lastIdx[p]
    BY <2>1 DEF OrderInv, RequestInv
  <2> QED  BY <1>0, <1>4, <1>5, <2>1, <2>2 DEF Free
<1>9. CASE AcceptHash(p, s)
  <2>1. lastIdx' = lastIdx /\ m.at = "accept"
    BY <1>9 DEF AcceptHash, Move, agentVars
  <2> QED  BY <1>0, <1>4, <1>5, <2>1 DEF Free
<1>10. CASE Consensus(p, s)
  <2>1. lastIdx' = lastIdx /\ m.at = "vote"
    BY <1>10 DEF Consensus
  <2> QED  BY <1>0, <1>4, <1>5, <2>1 DEF Free
<1> QED  BY <1>6, <1>7, <1>8, <1>9, <1>10 DEF Handle

LEMMA OrderStep ==
  ASSUME OrderInv, Prompt, [Next]_vars
  PROVE  OrderInv'
<1>1. TypeOK'
  BY NextType DEF OrderInv
<1>2. CASE \E p \in Peers, s \in Slots : Handle(p, s)
  BY <1>1, <1>2, HandleOrder DEF OrderInv
<1>3. CASE \E p \in Peers : Grow(p) \/ Crash(p) \/ Recover(p)
  BY <1>1, <1>3, PeerOrder DEF OrderInv
<1> QED  BY <1>1, <1>2, <1>3, OtherOrder DEF OrderInv

LEMMA OrderCorrect ==
  ASSUME Prompt
  PROVE  Spec => []OrderInv
<1>1. Init => OrderInv
  <2> SUFFICES ASSUME Init PROVE OrderInv
    OBVIOUS
  <2>1. TypeOK
    BY Limits DEF Init, TypeOK, NoRequests, Never
  <2>2. RequestInv
    BY DEF Init, RequestInv, NoRequests, Free
  <2>3. HeightInv
    BY DEF Init, HeightInv, RisesOnly, NoRequests, Free, Never
  <2> QED  BY <2>1, <2>2, <2>3 DEF OrderInv
<1>2. OrderInv /\ [Next]_vars => OrderInv'
  BY OrderStep
<1> QED  BY <1>1, <1>2, PTL DEF Spec

\* The replay protection of verify_peer holds as long as handlers of one peer
\* do not overlap: the index on record never decreases.
THEOREM IndexNeverRollsBack ==
  ASSUME Prompt
  PROVE  Spec => NeverRollsBack
<1> DEFINE Kept == reboots' = reboots => \A p \in Peers : lastIdx'[p] >= lastIdx[p]
<1>1. ASSUME OrderInv, [Next]_vars PROVE [Kept]_vars
  <2>1. \A p \in Peers : lastIdx[p] \in Int
    BY <1>1, Limits DEF OrderInv, TypeOK, Never
  <2>2. CASE \E p \in Peers, s \in Slots : Handle(p, s)
    BY <1>1, <2>2, HandleOrder
  <2>3. CASE Reboot
    BY <1>1, <2>3, Limits DEF Reboot, OrderInv, TypeOK
  <2>4. CASE ~ Reboot /\ ~ \E p \in Peers, s \in Slots : Handle(p, s)
    <3>1. lastIdx' = lastIdx
      BY <1>1, <2>4 DEF Next, Grow, GrowHeight, StaleAddsEnd, Crash, Recover, Push,
         Lose, Sweep, Tick, vars, agentVars
    <3> QED  BY <2>1, <3>1
  <2> QED  BY <2>2, <2>3, <2>4
<1> QED  BY <1>1, OrderCorrect, PTL DEF Spec, NeverRollsBack

-----------------------------------------------------------------------------
(* A peer that stays up.                                                   *)

\* The receiver is restarted only so often.
LEMMA RebootsEnd ==
  Spec /\ Settles(MaxReboots - reboots, vars) => <>[][~ Reboot]_vars
<1> DEFINE m == MaxReboots - reboots
<1>1. TypeOK => m \in Nat
  BY Limits DEF TypeOK
<1>2. TypeOK /\ [Next]_vars => [m' <= m]_vars
  BY Limits DEF TypeOK, Next, Grow, GrowHeight, StaleAddsEnd, Crash, Recover, Push,
     Lose, Handle, Receive, Arrive, StoreIndex, RejectSignature, PassSignature, AcceptHash,
     Consensus, Sweep, Tick, Reboot, selfVars, vars
<1>3. TypeOK /\ [m' = m]_vars => [~ Reboot]_vars
  BY Limits DEF TypeOK, Reboot
<1> HIDE DEF m
<1>4. Spec /\ Settles(m, vars) => <>[][~ Reboot]_vars
  BY <1>1, <1>2, <1>3, GossipTypeCorrect, PTL DEF Spec, Settles
<1> QED  BY <1>4 DEF m

\* How far the adds of p may still lag behind.
ToGrow(p) == MaxIdx - oldest[p]

\* The chain of p is as high as the model lets it grow, and no add is under way
\* that could set its height back.
Grown(p) == up[p] /\ height[p] = MaxIdx /\ oldest[p] = MaxIdx

\* What the process of p is, and how high its chain, only its own steps change.
LEMMA PeerSteps ==
  ASSUME [Next]_vars, TypeOK, NEW p \in Peers, up[p]
  PROVE  \/ Grow(p) \/ Crash(p)
         \/ UNCHANGED <<up[p], gen[p], height[p], oldest[p]>>
<1>t. up \in [Peers -> BOOLEAN] /\ oldest \in [Peers -> 1 .. MaxIdx]
      /\ height \in [Peers -> 1 .. MaxIdx] /\ gen \in [Peers -> 0 .. MaxGen]
  BY DEF TypeOK
<1>1. ASSUME NEW q \in Peers, Grow(q) \/ Crash(q) \/ Recover(q), q # p
      PROVE  UNCHANGED <<up[p], gen[p], height[p], oldest[p]>>
  BY <1>1, <1>t DEF Grow, GrowHeight, StaleAddsEnd, Crash, Recover
<1>2. ~ Recover(p)
  BY DEF Recover
<1>3. ASSUME NEW q \in Peers, NEW r \in Slots, Push(q, r) \/ Lose(q, r) \/ Handle(q, r)
      PROVE  UNCHANGED <<up[p], gen[p], height[p], oldest[p]>>
  BY <1>3 DEF Push, Lose, Handle, Receive, Arrive, StoreIndex, RejectSignature, PassSignature,
     AcceptHash, Consensus, peerVars
<1>4. Sweep \/ Tick \/ Reboot \/ UNCHANGED vars
      => UNCHANGED <<up[p], gen[p], height[p], oldest[p]>>
  BY DEF Sweep, Tick, Reboot, vars, peerVars
<1> QED  BY <1>1, <1>2, <1>3, <1>4 DEF Next

\* The steps of a peer that stays up: the oldest height under way never falls, and
\* as long as it stays the height, once above it, stays above it.
LEMMA GrowSteps ==
  ASSUME TypeOK, [Next]_vars, NEW p \in Peers, up[p], up'[p]
  PROVE  /\ gen'[p] = gen[p]
         /\ ToGrow(p)' <= ToGrow(p)
         /\ StaleAddsEnd(p) => ToGrow(p)' # ToGrow(p)
         /\ GrowHeight(p) => ToGrow(p)' = ToGrow(p) /\ oldest'[p] < height'[p]
         /\ ToGrow(p)' = ToGrow(p) /\ oldest[p] < height[p] => oldest'[p] < height'[p]
         /\ Grown(p) => Grown(p)'
<1> USE Limits
<1>t. /\ up \in [Peers -> BOOLEAN] /\ gen \in [Peers -> 0 .. MaxGen]
      /\ oldest \in [Peers -> 1 .. MaxIdx] /\ height \in [Peers -> 1 .. MaxIdx]
      /\ oldest[p] <= height[p]
  BY DEF TypeOK
<1>1. ~ Crash(p)
  BY <1>t DEF Crash
<1>2. CASE UNCHANGED <<up[p], gen[p], height[p], oldest[p]>>
            /\ ~ StaleAddsEnd(p) /\ ~ GrowHeight(p)
  BY <1>t, <1>2 DEF ToGrow, Grown
<1>3. ASSUME GrowHeight(p)
      PROVE  /\ oldest' = oldest /\ gen' = gen
             /\ \E v \in oldest[p] .. height[p] : v < MaxIdx /\ height'[p] = v + 1
  BY <1>t, <1>3 DEF GrowHeight
<1>4. ASSUME StaleAddsEnd(p)
      PROVE  /\ oldest'[p] = oldest[p] + 1 /\ gen' = gen /\ height' = height
             /\ oldest[p] < height[p]
  BY <1>t, <1>4 DEF StaleAddsEnd
<1>5. CASE GrowHeight(p)
  BY <1>t, <1>3, <1>4, <1>5 DEF ToGrow, Grown
<1>6. CASE StaleAddsEnd(p) /\ ~ GrowHeight(p)
  BY <1>t, <1>4, <1>6 DEF ToGrow, Grown
<1> QED  BY <1>1, <1>2, <1>5, <1>6, PeerSteps DEF Grow

\* A peer that stays up grows as high as it can, and stays there.
LEMMA PeersGrow ==
  ASSUME NEW p \in Peers, NEW s \in Slots
  PROVE  Spec /\ PeerRuns(p) /\ []CanGoOn(p, s) /\ <>[](up[p])
         /\ Settles(ToGrow(p), vars) => <>[]Grown(p)
<1> DEFINE m == ToGrow(p)
           U == up[p]
           D == Grown(p)
           L == oldest[p] < height[p]
           EG == ENABLED <<GrowHeight(p)>>_vars
           ES == ENABLED <<StaleAddsEnd(p)>>_vars
<1>1. TypeOK => m \in Nat
  BY Limits DEF TypeOK, ToGrow
<1>2. TypeOK /\ U /\ U' /\ [Next]_vars => [m' <= m]_vars /\ (D => D')
  BY GrowSteps
<1>3. TypeOK /\ U /\ U' /\ [Next]_vars /\ [m' = m]_vars =>
        /\ ~ <<StaleAddsEnd(p)>>_vars
        /\ <<GrowHeight(p)>>_vars => L'
        /\ L => L'
  <2> SUFFICES ASSUME TypeOK, U, U', [Next]_vars, [m' = m]_vars
               PROVE  /\ ~ <<StaleAddsEnd(p)>>_vars
                      /\ <<GrowHeight(p)>>_vars => L'
                      /\ L => L'
    OBVIOUS
  <2>1. CASE m' = m
    BY <2>1, GrowSteps
  <2>2. CASE UNCHANGED vars
    BY <2>2 DEF vars, peerVars
  <2> QED  BY <2>1, <2>2
<1>4. TypeOK /\ U /\ CanGoOn(p, s) => (L => ES) /\ (~ L => EG \/ D)
  <2>1. CanGoOn(p, s) => /\ up[p] /\ height[p] < MaxIdx => EG
                         /\ up[p] /\ oldest[p] < height[p] => ES
    BY Zenon DEF CanGoOn
  <2>2. TypeOK /\ U /\ ~ L => height[p] < MaxIdx \/ D
    <3>1. TypeOK => height[p] \in 1 .. MaxIdx /\ oldest[p] \in 1 .. MaxIdx
                    /\ oldest[p] <= height[p]
      BY DEF TypeOK
    <3>2. ASSUME height[p] \in 1 .. MaxIdx, oldest[p] \in 1 .. MaxIdx,
                 oldest[p] <= height[p], ~ (oldest[p] < height[p]), ~ (height[p] < MaxIdx)
          PROVE  height[p] = MaxIdx /\ oldest[p] = MaxIdx
      BY <3>2, Limits
    <3> QED  BY <3>1, <3>2 DEF Grown
  <2> QED  BY <2>1, <2>2, PTL
<1> HIDE DEF m, U, D, L
<1>5. Spec /\ PeerRuns(p) /\ []CanGoOn(p, s) /\ <>[]U /\ Settles(m, vars) => <>[]D
  BY <1>1, <1>2, <1>3, <1>4, GossipTypeCorrect, PTL DEF Spec, Settles, PeerRuns
<1> QED  BY <1>5, PTL DEF m, U, D

LEMMA GrownStays ==
  ASSUME TypeOK, [Next]_vars, NEW p \in Peers, Grown(p), up'[p]
  PROVE  Grown(p)' /\ gen'[p] = gen[p]
BY GrowSteps DEF Grown

\* Where the request s of peer p stands.
At(p, s, place) == req[p][s].at = place

LEMMA PlaceType ==
  ASSUME TypeOK, NEW p \in Peers, NEW s \in Slots
  PROVE  /\ At(p, s, "free") <=> req[p][s] = Free
         /\ \/ At(p, s, "free") \/ At(p, s, "sent") \/ At(p, s, "store")
            \/ At(p, s, "verify") \/ At(p, s, "accept") \/ At(p, s, "vote")
<1>1. req[p][s] \in Frames
  BY DEF TypeOK, Frames
<1> QED  BY <1>1 DEF Frames, Requests, Places, Free, At

\* A request changes in its own steps; no time passes while one is under way.
LEMMA SlotSteps ==
  ASSUME Prompt, TypeOK, [Next]_vars, NEW p \in Peers, NEW s \in Slots
  PROVE  \/ req'[p][s] = req[p][s]
         \/ Push(p, s) \/ Lose(p, s) \/ Handle(p, s)
         \/ Reboot /\ req'[p][s] = Free
<1>1. ASSUME NEW q \in Peers, Grow(q) \/ Crash(q) \/ Recover(q)
      PROVE  req' = req
  BY <1>1 DEF Grow, GrowHeight, StaleAddsEnd, Crash, Recover
<1>2. ASSUME NEW q \in Peers, NEW r \in Slots, Push(q, r) \/ Lose(q, r) \/ Handle(q, r),
             q # p \/ r # s
      PROVE  req'[p][s] = req[p][s]
  <2>1. CASE Push(q, r)
    BY <1>2, <2>1, OtherSlot DEF Push
  <2>2. CASE Lose(q, r)
    BY <1>2, <2>2, OtherSlot DEF Lose, Answer
  <2>3. CASE Handle(q, r)
    BY <1>2, <2>3, HandleMoves
  <2> QED  BY <1>2, <2>1, <2>2, <2>3
<1>3. CASE Tick
  <2>1. req[p][s] = Free
    BY <1>3 DEF Tick
  <2> QED  BY <1>3, <2>1 DEF Tick, Free
<1>4. CASE Reboot
  BY <1>4 DEF Reboot, NoRequests
<1>5. Sweep \/ UNCHANGED vars => req' = req
  BY DEF Sweep, vars
<1> QED  BY <1>1, <1>2, <1>3, <1>4, <1>5 DEF Next

LEMMA PushFills ==
  ASSUME TypeOK, NEW p \in Peers, NEW s \in Slots, Push(p, s)
  PROVE  /\ req[p][s].at = "free" /\ req'[p][s].at = "sent"
         /\ req'[p][s].gen = gen[p] /\ req'[p][s].idx = height[p] /\ req'[p][s].age = 0
<1> DEFINE m == [at |-> "sent", gen |-> gen[p], idx |-> height[p], age |-> 0]
<1>1. req' = [req EXCEPT ![p][s] = m]
  BY DEF Push
<1>2. m.at = "sent" /\ m.gen = gen[p] /\ m.idx = height[p] /\ m.age = 0
  OBVIOUS
<1> HIDE DEF m
<1>3. req'[p][s] = m
  BY <1>1 DEF TypeOK
<1> QED  BY <1>2, <1>3 DEF Push, Free

LEMMA LoseFrees ==
  ASSUME TypeOK, NEW p \in Peers, NEW s \in Slots, Lose(p, s)
  PROVE  req[p][s].at = "sent" /\ req'[p][s] = Free
<1>1. req'[p][s] = Free
  BY DEF Lose, Answer, TypeOK
<1> QED  BY <1>1 DEF Lose

\* A request is handled in the tick it was sent in.
InTime == \A p \in Peers, s \in Slots : req[p][s].age = 0

LEMMA RequestsAreInTime ==
  ASSUME Prompt
  PROVE  Spec => [](TypeOK /\ InTime)
<1>1. Init => InTime
  BY DEF Init, NoRequests, Free, InTime
<1>2. ASSUME TypeOK, InTime, [Next]_vars PROVE InTime'
  <2> SUFFICES ASSUME NEW p \in Peers, NEW s \in Slots PROVE req'[p][s].age = 0
    BY DEF InTime
  <2>1. req[p][s].age = 0
    BY <1>2 DEF InTime
  <2>2. CASE Push(p, s)
    BY <1>2, <2>2, PushFills
  <2>3. CASE Lose(p, s)
    BY <1>2, <2>3, LoseFrees DEF Free
  <2>4. CASE Handle(p, s)
    BY <1>2, <2>1, <2>4, HandleMoves DEF Free
  <2> QED  BY <1>2, <2>1, <2>2, <2>3, <2>4, SlotSteps DEF Free
<1> QED  BY <1>1, <1>2, GossipTypeCorrect, PTL DEF Spec

LEMMA MoveArrives ==
  ASSUME TypeOK, NEW p \in Peers, NEW s \in Slots,
         NEW from \in Places, NEW to \in Places, Move(p, s, from, to)
  PROVE  req[p][s].at = from /\ req'[p][s].at = to
<1>1. req \in [Peers -> [Slots -> Frames]]
  BY DEF TypeOK, Frames
<1> QED  BY <1>1, SlotType DEF Move, Requests, Places

\* From place to place, in the order of receive.
LEMMA HandleSteps ==
  ASSUME TypeOK, NEW p \in Peers, NEW s \in Slots, Handle(p, s)
  PROVE  /\ ~ At(p, s, "free")
         /\ At(p, s, "sent") => At(p, s, "store")' \/ At(p, s, "free")'
         /\ At(p, s, "store") => At(p, s, "verify")'
         /\ At(p, s, "verify") => At(p, s, "accept")' \/ At(p, s, "free")'
         /\ At(p, s, "accept") => At(p, s, "vote")' /\ AcceptHash(p, s)
         /\ At(p, s, "vote") => At(p, s, "free")'
<1>0. Answer(p, s) => At(p, s, "free")'
  BY DEF Answer, TypeOK, At, Free
<1>1. CASE Receive(p, s)
  BY <1>0, <1>1, MoveArrives DEF Receive, Arrive, At, Places
<1>2. CASE StoreIndex(p, s)
  BY <1>2, MoveArrives DEF StoreIndex, At, Places
<1>3. CASE RejectSignature(p, s)
  BY <1>0, <1>3 DEF RejectSignature, At
<1>4. CASE PassSignature(p, s)
  BY <1>4, MoveArrives DEF PassSignature, At, Places
<1>5. CASE AcceptHash(p, s)
  BY <1>5, MoveArrives DEF AcceptHash, At, Places
<1>6. CASE Consensus(p, s)
  BY <1>0, <1>6 DEF Consensus, At
<1> QED  BY <1>1, <1>2, <1>3, <1>4, <1>5, <1>6 DEF Handle

LEMMA SlotMoves ==
  ASSUME Prompt, TypeOK, [Next]_vars, [~ Reboot]_vars, NEW p \in Peers, NEW s \in Slots
  PROVE  /\ At(p, s, "free") => At(p, s, "free")' \/ At(p, s, "sent")'
         /\ At(p, s, "sent") => At(p, s, "sent")' \/ At(p, s, "store")' \/ At(p, s, "free")'
         /\ At(p, s, "store") => At(p, s, "store")' \/ At(p, s, "verify")'
         /\ At(p, s, "verify") => At(p, s, "verify")' \/ At(p, s, "accept")' \/ At(p, s, "free")'
         /\ At(p, s, "accept") => At(p, s, "accept")' \/ (At(p, s, "vote")' /\ AcceptHash(p, s))
         /\ At(p, s, "vote") => At(p, s, "vote")' \/ At(p, s, "free")'
<1>1. CASE Push(p, s)
  BY <1>1, PushFills DEF At
<1>2. CASE Lose(p, s)
  BY <1>2, LoseFrees DEF Free, At
<1>3. CASE Handle(p, s)
  BY <1>3, HandleSteps
<1>4. CASE UNCHANGED vars
  BY <1>4 DEF vars, At
<1> QED  BY <1>1, <1>2, <1>3, <1>4, SlotSteps DEF At

\* The request, if there is one, is of the process that runs now and counts all
\* of its blocks: no index on record is higher.
Good(p, s) ==
  At(p, s, "free") \/ (req[p][s].gen = gen[p] /\ req[p][s].idx = MaxIdx)

Accepted(p) == peerHash[p] = gen[p]

LEMMA GoodStays ==
  ASSUME Prompt, TypeOK, [Next]_vars, NEW p \in Peers, NEW s \in Slots,
         Grown(p), up'[p], Good(p, s)
  PROVE  Good(p, s)'
<1>1. gen'[p] = gen[p] /\ height[p] = MaxIdx
  BY GrownStays DEF Grown
<1>2. CASE Push(p, s)
  BY <1>1, <1>2, PushFills DEF Good
<1>3. CASE Lose(p, s)
  BY <1>3, LoseFrees DEF Good, At, Free
<1>4. CASE Handle(p, s)
  <2>1. \/ req'[p][s] = Free
        \/ req'[p][s].gen = req[p][s].gen /\ req'[p][s].idx = req[p][s].idx
    BY <1>4, HandleMoves
  <2>2. req[p][s].at # "free"
    BY <1>4, HandleMoves
  <2>3. req'[p][s].at = "free" \/ (req'[p][s].gen = gen'[p] /\ req'[p][s].idx = MaxIdx)
    BY <1>1, <2>1, <2>2 DEF Good, At, Free
  <2> QED  BY <2>3 DEF Good, At
<1> QED  BY <1>1, <1>2, <1>3, <1>4, SlotSteps DEF Good, At, Free

\* What the three steps lead to that fairness is about.
LEMMA FairSteps ==
  ASSUME TypeOK, InTime, NEW p \in Peers, NEW s \in Slots, Good(p, s)
  PROVE  /\ Push(p, s) => At(p, s, "sent")'
         /\ Receive(p, s) => At(p, s, "store")'
         /\ PassSignature(p, s) => At(p, s, "accept")'
<1> USE Limits
<1>3. ASSUME Receive(p, s) PROVE At(p, s, "store")'
  <2>1. /\ req[p][s].age = 0 /\ req[p][s].at = "sent" /\ req[p][s].idx = MaxIdx
    BY <1>3 DEF Receive, Arrive, Good, At, InTime
  <2>2. lastIdx[p] \in Int /\ lastIdx[p] <= MaxIdx
    BY DEF TypeOK, Never
  <2>3. Move(p, s, "sent", "store")
    <3>1. ~ (0 > Window \/ MaxIdx < lastIdx[p])
      BY <2>2
    <3> QED  BY <1>3, <2>1, <3>1 DEF Receive
  <2> QED  BY <2>3, MoveArrives DEF At, Places
<1>4. PassSignature(p, s) => At(p, s, "accept")'
  BY MoveArrives DEF PassSignature, At, Places
<1> QED  BY <1>3, <1>4, PushFills DEF At

\* The hash on record changes when a request's own is accepted.
LEMMA HashSteps ==
  ASSUME Prompt, TypeOK, [Next]_vars, [~ Reboot]_vars, NEW p \in Peers, NEW s \in Slots
  PROVE  AcceptHash(p, s) \/ peerHash'[p] = peerHash[p]
<1>t. peerHash \in [Peers -> {Never} \cup 0 .. MaxGen]
  BY DEF TypeOK
<1>1. ASSUME NEW q \in Peers, Grow(q) \/ Crash(q) \/ Recover(q)
      PROVE  peerHash' = peerHash
  BY <1>1 DEF Grow, GrowHeight, StaleAddsEnd, Crash, Recover, nodeVars
<1>2. ASSUME NEW q \in Peers, NEW r \in Slots, AcceptHash(q, r)
      PROVE  AcceptHash(p, s) \/ peerHash'[p] = peerHash[p]
  <2>1. r = s
    BY GossipAssumption
  <2> QED  BY <1>2, <1>t, <2>1 DEF AcceptHash
<1>3. ASSUME NEW q \in Peers, NEW r \in Slots,
             Push(q, r) \/ Lose(q, r) \/ (Handle(q, r) /\ ~ AcceptHash(q, r))
      PROVE  peerHash' = peerHash
  BY <1>3 DEF Push, Lose, Handle, Receive, Arrive, StoreIndex, RejectSignature, PassSignature,
     Consensus, nodeVars
<1>4. Sweep \/ Tick \/ UNCHANGED vars => peerHash' = peerHash
  BY DEF Sweep, Tick, vars, nodeVars
<1> QED  BY <1>1, <1>2, <1>3, <1>4 DEF Next

LEMMA AcceptedSteps ==
  ASSUME Prompt, TypeOK, [Next]_vars, [~ Reboot]_vars, NEW p \in Peers, NEW s \in Slots,
         Grown(p), up'[p], Good(p, s)
  PROVE  /\ AcceptHash(p, s) => Accepted(p)'
         /\ Accepted(p) => Accepted(p)'
         /\ At(p, s, "accept") => At(p, s, "accept")' \/ Accepted(p)'
<1>g. gen'[p] = gen[p]
  BY GrownStays
<1>1. ASSUME AcceptHash(p, s) PROVE Accepted(p)'
  <2>1. req[p][s].at = "accept" /\ req[p][s].gen = gen[p]
    BY <1>1 DEF AcceptHash, Move, Good, At
  <2>2. peerHash'[p] = gen[p]
    BY <1>1, <2>1 DEF AcceptHash, TypeOK
  <2> QED  BY <1>g, <2>2 DEF Accepted
<1>2. peerHash'[p] = peerHash[p] => (Accepted(p) => Accepted(p)')
  BY <1>g DEF Accepted
<1>3. At(p, s, "accept") => At(p, s, "accept")' \/ AcceptHash(p, s)
  BY SlotMoves
<1> QED  BY <1>1, <1>2, <1>3, HashSteps

\* Handlers come to their end, again and again.
LEMMA HandlersEnd ==
  ASSUME Prompt, NEW p \in Peers, NEW s \in Slots
  PROVE  Spec /\ []CanGoOn(p, s) /\ WF_vars(Handle(p, s)) /\ <>[][~ Reboot]_vars
         => []<>At(p, s, "free") /\ ([]<>At(p, s, "store") => []<>At(p, s, "verify"))
<1> DEFINE Fr == At(p, s, "free")
           Se == At(p, s, "sent")
           St == At(p, s, "store")
           Ve == At(p, s, "verify")
           Ac == At(p, s, "accept")
           Vo == At(p, s, "vote")
           C == CanGoOn(p, s)
           E == ENABLED <<Handle(p, s)>>_vars
<1>1. TypeOK /\ [Next]_vars /\ [~ Reboot]_vars =>
        /\ Fr => Fr' \/ Se'
        /\ Se => Se' \/ St' \/ Fr'
        /\ St => St' \/ Ve'
        /\ Ve => Ve' \/ Ac' \/ Fr'
        /\ Ac => Ac' \/ Vo'
        /\ Vo => Vo' \/ Fr'
  BY SlotMoves
<1>2. TypeOK => Fr \/ Se \/ St \/ Ve \/ Ac \/ Vo
  BY PlaceType
<1>3. TypeOK /\ Handle(p, s) =>
        /\ Se => St' \/ Fr'
        /\ St => Ve'
        /\ Ve => Ac' \/ Fr'
        /\ Ac => Vo'
        /\ Vo => Fr'
  BY HandleSteps
<1>4. C /\ TypeOK => Fr \/ E
  <2>1. C => (~ (req[p][s] = Free) => E)
    BY Zenon DEF CanGoOn
  <2>2. TypeOK => (Fr <=> req[p][s] = Free)
    BY PlaceType
  <2> QED  BY <2>1, <2>2, PTL
<1>5. /\ Fr => ~ (Se \/ St \/ Ve \/ Ac \/ Vo)
      /\ Se => ~ (St \/ Ve \/ Ac \/ Vo)
      /\ St => ~ (Ve \/ Ac \/ Vo)
      /\ Ve => ~ (Ac \/ Vo) /\ (Ac => ~ Vo)
  BY DEF At
<1> HIDE DEF Fr, Se, St, Ve, Ac, Vo, C
<1>6. Spec /\ []C /\ WF_vars(Handle(p, s)) /\ <>[][~ Reboot]_vars
        => []<>Fr /\ ([]<>St => []<>Ve)
  BY <1>1, <1>2, <1>3, <1>4, <1>5, GossipTypeCorrect, PTL DEF Spec
<1> QED  BY <1>6, PTL DEF Fr, St, Ve, C

\* From some time on only good requests are under way ...
LEMMA RequestsGetGood ==
  ASSUME Prompt, NEW p \in Peers, NEW s \in Slots
  PROVE  Spec /\ <>[]Grown(p) /\ []<>At(p, s, "free") => <>[](Grown(p) /\ Good(p, s))
<1> DEFINE D == Grown(p)
           G == Good(p, s)
           Fr == At(p, s, "free")
<1>1. TypeOK /\ D /\ D' /\ G /\ [Next]_vars => G'
  BY GoodStays DEF Grown
<1>2. Fr => G
  BY DEF Good
<1> HIDE DEF D, G, Fr
<1>3. Spec /\ <>[]D /\ []<>Fr => <>[](D /\ G)
  BY <1>1, <1>2, GossipTypeCorrect, PTL DEF Spec
<1> QED  BY <1>3, PTL DEF D, G, Fr

\* ... pushes are sent again and again ...
LEMMA PushesGoOn ==
  ASSUME Prompt, NEW p \in Peers, NEW s \in Slots
  PROVE  Spec /\ []CanGoOn(p, s) /\ WF_vars(Push(p, s))
         /\ <>[][~ Reboot]_vars /\ <>[](Grown(p) /\ Good(p, s)) /\ []<>At(p, s, "free")
         => []<>At(p, s, "sent")
<1> DEFINE G == Grown(p) /\ Good(p, s)
           Fr == At(p, s, "free")
           Se == At(p, s, "sent")
           C == CanGoOn(p, s)
           T == TypeOK /\ InTime
           EP == ENABLED <<Push(p, s)>>_vars
<1>1. T /\ C /\ G => (Fr => EP)
  <2>1. C => (up[p] /\ req[p][s] = Free => EP)
    BY Zenon DEF CanGoOn
  <2>2. T /\ G => up[p] /\ (Fr => req[p][s] = Free)
    BY PlaceType DEF Grown
  <2> HIDE DEF C, G, Fr
  <2> QED  BY <2>1, <2>2, PTL
<1>2. T /\ G /\ Push(p, s) => Se'
  BY FairSteps
<1>3. T /\ [Next]_vars /\ [~ Reboot]_vars => (Fr => Fr' \/ Se')
  BY SlotMoves
<1> HIDE DEF G, Fr, Se, C, T
<1>4. []T /\ [][Next]_vars /\ []C /\ WF_vars(Push(p, s))
      /\ <>[][~ Reboot]_vars /\ <>[]G /\ []<>Fr => []<>Se
  BY <1>1, <1>2, <1>3, PTL
<1>5. Spec => []T /\ [][Next]_vars
  BY RequestsAreInTime, PTL DEF Spec, T
<1> QED  BY <1>4, <1>5, PTL DEF G, Fr, Se, C

\* ... one of them arrives, passes both checks and is accepted.
LEMMA PushesAreAccepted ==
  ASSUME Prompt, NEW p \in Peers, NEW s \in Slots
  PROVE  Spec /\ []CanGoOn(p, s) /\ WF_vars(Handle(p, s))
         /\ SF_vars(Receive(p, s)) /\ SF_vars(PassSignature(p, s))
         /\ <>[][~ Reboot]_vars /\ <>[](Grown(p) /\ Good(p, s))
         /\ []<>At(p, s, "free") /\ []<>At(p, s, "sent")
         /\ ([]<>At(p, s, "store") => []<>At(p, s, "verify"))
         => <>[]Accepted(p)
<1> DEFINE G == Grown(p) /\ Good(p, s)
           Fr == At(p, s, "free")
           Se == At(p, s, "sent")
           St == At(p, s, "store")
           Ve == At(p, s, "verify")
           Ac == At(p, s, "accept")
           A == Accepted(p)
           C == CanGoOn(p, s)
           T == TypeOK /\ InTime
           ER == ENABLED <<Receive(p, s)>>_vars
           EP == ENABLED <<PassSignature(p, s)>>_vars
<1>1. C => (Se => ER) /\ (Ve => EP)
  BY Zenon DEF CanGoOn, At
<1>2. T /\ G /\ Receive(p, s) => St'
  BY FairSteps
<1>3. T /\ G /\ PassSignature(p, s) => Ac'
  BY FairSteps
<1>4. T /\ G /\ G' /\ [Next]_vars /\ [~ Reboot]_vars => (A => A') /\ (Ac => Ac' \/ A')
  BY AcceptedSteps DEF Grown
<1>5. Ac => ~ Fr
  BY DEF At
<1> HIDE DEF Fr, Se, St, Ve, Ac, A, G, C, T
<1>6. []T /\ [][Next]_vars /\ []C
      /\ SF_vars(Receive(p, s)) /\ SF_vars(PassSignature(p, s))
      /\ <>[][~ Reboot]_vars /\ <>[]G /\ []<>Fr /\ []<>Se /\ ([]<>St => []<>Ve)
      => <>[]A
  BY <1>1, <1>2, <1>3, <1>4, <1>5, PTL
<1>7. Spec => []T /\ [][Next]_vars
  BY RequestsAreInTime, PTL DEF Spec, T
<1> QED  BY <1>6, <1>7, PTL DEF Fr, Se, St, Ve, A, G, C

\* A peer that stays up has, from some time on, a hash of the run that is up on
\* record, however often it was restarted before, however far its old chain had
\* got and however often overlapping adds set its height back (agent.py:158-161,
\* 305-316, chain.py:27).  Assumed are the fairness of the threads, that none of
\* them waits for another, and that two numbers, the restarts left to the receiver
\* and the lag of the peer's adds, come to rest: the old index is reached by the
\* new chain, the requests under way are replaced by ones that carry it, and of
\* those one arrives and is found valid.
THEOREM RestartedPeersAreAccepted ==
  ASSUME Prompt, Slots # {}
  PROVE  FairSpec /\ []NeverWaits /\ Settles(MaxReboots - reboots, vars)
         /\ (\A p \in Peers : Settles(ToGrow(p), vars))
         => RestartedPeerAccepted
<1>1. PICK s : s \in Slots
  OBVIOUS
<1>2. ASSUME NEW p \in Peers
      PROVE  FairSpec /\ []NeverWaits /\ Settles(MaxReboots - reboots, vars)
             /\ Settles(ToGrow(p), vars) /\ <>[](up[p]) => <>[]Accepted(p)
  <2>1. FairSpec => Spec /\ PeerRuns(p) /\ RequestRuns(p, s)
    BY <1>1 DEF FairSpec, Fairness
  <2>2. NeverWaits => CanGoOn(p, s)
    BY <1>1, Zenon DEF NeverWaits
  <2>3. Spec /\ Settles(MaxReboots - reboots, vars) => <>[][~ Reboot]_vars
    BY RebootsEnd
  <2>4. Spec /\ PeerRuns(p) /\ []CanGoOn(p, s) /\ <>[](up[p])
        /\ Settles(ToGrow(p), vars) => <>[]Grown(p)
    BY <1>1, PeersGrow, PTL
  <2>5. Spec /\ []CanGoOn(p, s) /\ WF_vars(Handle(p, s)) /\ <>[][~ Reboot]_vars
        => []<>At(p, s, "free") /\ ([]<>At(p, s, "store") => []<>At(p, s, "verify"))
    BY <1>1, HandlersEnd, PTL
  <2>6. Spec /\ <>[]Grown(p) /\ []<>At(p, s, "free") => <>[](Grown(p) /\ Good(p, s))
    BY <1>1, RequestsGetGood, PTL
  <2>7. Spec /\ []CanGoOn(p, s) /\ WF_vars(Push(p, s))
        /\ <>[][~ Reboot]_vars /\ <>[](Grown(p) /\ Good(p, s)) /\ []<>At(p, s, "free")
        => []<>At(p, s, "sent")
    BY <1>1, PushesGoOn, PTL
  <2>8. Spec /\ []CanGoOn(p, s) /\ WF_vars(Handle(p, s))
        /\ SF_vars(Receive(p, s)) /\ SF_vars(PassSignature(p, s))
        /\ <>[][~ Reboot]_vars /\ <>[](Grown(p) /\ Good(p, s))
        /\ []<>At(p, s, "free") /\ []<>At(p, s, "sent")
        /\ ([]<>At(p, s, "store") => []<>At(p, s, "verify"))
        => <>[]Accepted(p)
    BY <1>1, PushesAreAccepted, PTL
  <2> QED  BY <2>1, <2>2, <2>3, <2>4, <2>5, <2>6, <2>7, <2>8,
            PTL DEF RequestRuns
<1> QED  BY <1>2 DEF RestartedPeerAccepted, Accepted

\* With prompt requests a peer is called a replayer only if its height did go back,
\* whatever else is lost, restarted or turned down.
THEOREM ReplayersFell ==
  ASSUME Prompt
  PROVE  Spec => ReplayMeansFell
<1> DEFINE Just == \A p \in Peers, s \in Slots :
                     Receive(p, s) /\ req'[p][s] = Free => fell[p]
<1>1. ASSUME OrderInv, InTime PROVE [Just]_vars
  <2> SUFFICES ASSUME NEW p \in Peers, NEW s \in Slots,
                      Receive(p, s), req'[p][s] = Free, ~ fell[p]
               PROVE  FALSE
    OBVIOUS
  <2>1. req[p][s].at = "sent" /\ req[p][s].age = 0 /\ TypeOK
    BY <1>1 DEF Receive, Arrive, InTime, OrderInv
  <2>2. lastIdx[p] <= req[p][s].idx
    BY <1>1, <2>1 DEF OrderInv, HeightInv, RisesOnly
  <2>3. lastIdx[p] \in Int /\ req[p][s].idx \in Int
    BY <2>1, SlotType, Limits DEF TypeOK, Never
  <2>4. ~ (req[p][s].age > Window \/ req[p][s].idx < lastIdx[p])
    BY <2>1, <2>2, <2>3, Limits
  <2>5. Move(p, s, "sent", "store")
    BY <2>4 DEF Receive
  <2> QED  BY <2>1, <2>5, MoveArrives DEF Places, Free
<1>2. Spec => [](OrderInv /\ InTime)
  BY OrderCorrect, RequestsAreInTime, PTL
<1> QED  BY <1>1, <1>2, PTL DEF Spec, ReplayMeansFell

-----------------------------------------------------------------------------
(* A peer that dies for good.                                              *)

\* No push of the peer is on the way to the receiver.
Quiet(p) == \A s \in Slots : req[p][s].at # "sent"

LEMMA DeadSendsNothing ==
  ASSUME TypeOK, [Next]_vars, NEW p \in Peers, NEW s \in Slots,
         ~ up[p], ~ At(p, s, "sent")
  PROVE  ~ At(p, s, "sent")'
<1>0. req[p][s].at # "sent"
  BY DEF At
<1>1. ASSUME NEW q \in Peers, Grow(q) \/ Crash(q) \/ Recover(q)
      PROVE  req' = req
  BY <1>1 DEF Grow, GrowHeight, StaleAddsEnd, Crash, Recover
<1>2. ASSUME NEW q \in Peers, NEW r \in Slots, Push(q, r)
      PROVE  req'[p][s] = req[p][s]
  BY <1>0, <1>2, OtherSlot DEF Push
<1>3. ASSUME NEW q \in Peers, NEW r \in Slots, Lose(q, r)
      PROVE  req'[p][s] = req[p][s]
  BY <1>0, <1>3, OtherSlot DEF Lose, Answer
<1>4. ASSUME NEW q \in Peers, NEW r \in Slots, Handle(q, r)
      PROVE  ~ At(p, s, "sent")'
  <2>1. CASE q = p /\ r = s
    BY <1>4, <2>1, HandleSteps, PlaceType DEF At
  <2>2. CASE q # p \/ r # s
    BY <1>0, <1>4, <2>2, HandleMoves DEF At
  <2> QED  BY <2>1, <2>2
<1>5. CASE Tick
  <2>1. req'[p][s] = req[p][s]
    BY <1>0, <1>5 DEF Tick
  <2> QED  BY <1>0, <2>1 DEF At
<1>6. CASE Reboot
  BY <1>6 DEF Reboot, NoRequests, Free, At
<1>7. Sweep \/ UNCHANGED vars => req' = req
  BY DEF Sweep, vars
<1> QED  BY <1>0, <1>1, <1>2, <1>3, <1>4, <1>5, <1>6, <1>7 DEF Next, At

\* The pushes of p that are on the way to the receiver.
OnTheWay(p) == {s \in Slots : At(p, s, "sent")}

LEMMA FewerOnTheWay ==
  ASSUME IsFiniteSet(Slots), TypeOK, [Next]_vars, NEW p \in Peers, ~ up[p]
  PROVE  /\ Cardinality(OnTheWay(p)) \in Nat
         /\ Cardinality(OnTheWay(p))' <= Cardinality(OnTheWay(p))
         /\ \A s \in Slots : Handle(p, s) /\ At(p, s, "sent") =>
              Cardinality(OnTheWay(p))' # Cardinality(OnTheWay(p))
<1> DEFINE S == OnTheWay(p)
           R == OnTheWay(p)'
<1>1. IsFiniteSet(S) /\ Cardinality(S) \in Nat
  BY FS_Subset, FS_CardinalityType DEF OnTheWay
<1>2. R \subseteq S
  BY DeadSendsNothing DEF OnTheWay
<1>3. Cardinality(R) <= Cardinality(S) /\ (Cardinality(R) = Cardinality(S) => R = S)
  BY <1>1, <1>2, FS_Subset
<1>4. ASSUME NEW s \in Slots, Handle(p, s), At(p, s, "sent")
      PROVE  s \in S /\ s \notin R
  BY <1>4, HandleSteps DEF OnTheWay, At
<1> QED  BY <1>1, <1>3, <1>4

\* Nothing of p arrives any more, or is lost.
Hushed(p) == [](~ up[p]) /\ [][Cardinality(OnTheWay(p))' = Cardinality(OnTheWay(p))]_vars

Going == []TypeOK /\ [][Next]_vars /\ []NeverWaits

LEMMA SlotGetsQuiet ==
  ASSUME IsFiniteSet(Slots), NEW p \in Peers, NEW s \in Slots
  PROVE  Going /\ Hushed(p) /\ RequestRuns(p, s) => []~ At(p, s, "sent")
<1> DEFINE T == TypeOK
           D == ~ up[p]
           Se == At(p, s, "sent")
           m == Cardinality(OnTheWay(p))
           E == ENABLED <<Handle(p, s)>>_vars
<1>1. T /\ D /\ [Next]_vars /\ [m' = m]_vars => (Se => ~ <<Handle(p, s)>>_vars)
  BY FewerOnTheWay
<1>2. T /\ D /\ D' /\ [Next]_vars /\ [m' = m]_vars => (Se => Se')
  <2> SUFFICES ASSUME T, D, [Next]_vars, [m' = m]_vars, Se PROVE Se'
    OBVIOUS
  <2> DEFINE R == OnTheWay(p)'
  <2>1. IsFiniteSet(OnTheWay(p)) /\ R \subseteq OnTheWay(p)
    BY DeadSendsNothing, FS_Subset DEF OnTheWay
  <2>2. Cardinality(R) = Cardinality(OnTheWay(p))
    BY DEF vars, OnTheWay, At
  <2>3. R = OnTheWay(p)
    BY <2>1, <2>2, FS_Subset
  <2>4. s \in OnTheWay(p)
    BY DEF OnTheWay
  <2>5. s \in OnTheWay(p)'
    BY <2>3, <2>4
  <2> QED  BY <2>5 DEF OnTheWay
<1>3. NeverWaits => (Se => E)
  <2>1. NeverWaits => (~ (req[p][s] = Free) => E)
    BY Zenon DEF NeverWaits, CanGoOn
  <2>2. Se => ~ (req[p][s] = Free)
    BY DEF At, Free
  <2> QED  BY <2>1, <2>2, PTL
<1> HIDE DEF T, D, Se, m
<1>4. []T /\ [][Next]_vars /\ []NeverWaits /\ []D /\ [][m' = m]_vars /\ WF_vars(Handle(p, s))
      => []~ Se
  BY <1>1, <1>2, <1>3, PTL
<1> QED  BY <1>4, PTL DEF Going, Hushed, RequestRuns, T, D, Se, m

\* The threads that handle the requests of p.
PeerHandled(p) == \A s \in Slots : RequestRuns(p, s)

LEMMA PeerGetsQuiet ==
  ASSUME IsFiniteSet(Slots), NEW p \in Peers
  PROVE  Going /\ PeerHandled(p) /\ <>[](~ up[p]) /\ Settles(Cardinality(OnTheWay(p)), vars)
         => <>[]Quiet(p)
<1> DEFINE m == Cardinality(OnTheWay(p))
           D == ~ up[p]
           Q == Quiet(p)
           T == TypeOK
           Still(s) == []~ At(p, s, "sent")
           Always(s) == []RequestRuns(p, s)
<1>1. ASSUME NEW s \in Slots
      PROVE  Going /\ Hushed(p) /\ RequestRuns(p, s) => Still(s)
  BY <1>1, SlotGetsQuiet, PTL
<1>2. Going /\ Hushed(p) /\ PeerHandled(p) => \A s \in Slots : Still(s)
  <2> HIDE DEF Still
  <2> QED  BY <1>1 DEF PeerHandled
<1>3. (\A s \in Slots : Still(s)) => [](\A s \in Slots : ~ At(p, s, "sent"))
  OBVIOUS
<1>4. (\A s \in Slots : ~ At(p, s, "sent")) => Q
  BY DEF Quiet, At
<1>5. PeerHandled(p) => []PeerHandled(p)
  <2>1. ASSUME NEW s \in Slots PROVE RequestRuns(p, s) => Always(s)
    BY PTL DEF RequestRuns
  <2>2. PeerHandled(p) => \A s \in Slots : Always(s)
    <3> HIDE DEF Always
    <3> QED  BY <2>1 DEF PeerHandled
  <2>3. (\A s \in Slots : Always(s)) => [](\A s \in Slots : RequestRuns(p, s))
    OBVIOUS
  <2> QED  BY <2>2, <2>3, PTL DEF PeerHandled
<1>6. T /\ D /\ [Next]_vars => m \in Nat /\ [m' <= m]_vars
  BY FewerOnTheWay
<1> HIDE DEF m, D, Q, T
<1>7. Going /\ Hushed(p) /\ PeerHandled(p) => []Q
  BY <1>2, <1>3, <1>4, PTL DEF Still
<1>8. []T /\ [][Next]_vars /\ <>[]D /\ Settles(m, vars) => <>([]D /\ [][m' = m]_vars)
  BY <1>6, PTL DEF Settles
<1> QED  BY <1>5, <1>7, <1>8, PTL DEF Going, Hushed, m, D, Q, T

\* The peer has no entry, or one beyond the TTL.
Old(p) == Expired(p) \/ lastSeen[p] = Never

\* Without arrivals what is old stays old, and what was reported is reported again.
LEMMA OldStaysOld ==
  ASSUME TypeOK, [Next]_vars, NEW p \in Peers, Quiet(p), Old(p)
  PROVE  /\ Old(p)'
         /\ p \in offline \/ lastSeen[p] = Never => p \in offline' \/ lastSeen'[p] = Never
<1> USE Limits DEF Never
<1>t. lastSeen \in [Peers -> Never .. Ttl + 1]
  BY DEF TypeOK
<1>1. ASSUME NEW q \in Peers, NEW s \in Slots, Receive(q, s)
      PROVE  q # p /\ lastSeen'[p] = lastSeen[p] /\ offline' = offline
  BY <1>1, <1>t DEF Receive, Arrive, Quiet, selfVars
<1>2. CASE Tick
  BY <1>2, <1>t DEF Tick, Old, Expired, Lesser
<1>3. CASE Reboot
  BY <1>3 DEF Reboot, Old
<1>4. CASE Sweep
  BY <1>4 DEF Sweep, nodeVars, Old, Expired
<1>5. ASSUME NEW q \in Peers, Grow(q) \/ Crash(q) \/ Recover(q)
      PROVE  UNCHANGED <<lastSeen, offline>>
  BY <1>5 DEF Grow, GrowHeight, StaleAddsEnd, Crash, Recover, nodeVars, selfVars
<1>6. ASSUME NEW q \in Peers, NEW s \in Slots,
             Push(q, s) \/ Lose(q, s) \/ (Handle(q, s) /\ ~ Receive(q, s))
      PROVE  UNCHANGED <<lastSeen, offline>>
  BY <1>6 DEF Push, Lose, Handle, StoreIndex, RejectSignature, PassSignature,
     AcceptHash, Consensus, nodeVars, selfVars
<1>7. UNCHANGED vars => UNCHANGED <<lastSeen, offline>>
  BY DEF vars, nodeVars, selfVars
<1>8. CASE UNCHANGED <<lastSeen, offline>> /\ ~ Sweep
  BY <1>8 DEF Old, Expired
<1>9. CASE \E q \in Peers, s \in Slots : Receive(q, s)
  BY <1>1, <1>9 DEF Old, Expired, Sweep, nodeVars
<1> QED  BY <1>2, <1>3, <1>4, <1>5, <1>6, <1>7, <1>8, <1>9 DEF Next

\* How long p still counts as seen, and how long the grace period still lasts.
SeenFor(p) == IF lastSeen[p] = Never THEN 0 ELSE Ttl + 1 - lastSeen[p]
GraceLeft == Grace - age

LEMMA TimeRunsOut ==
  ASSUME TypeOK, [Next]_vars, NEW p \in Peers
  PROVE  /\ SeenFor(p) \in Nat /\ GraceLeft \in Nat
         /\ Quiet(p) => SeenFor(p)' <= SeenFor(p)
         /\ [~ Reboot]_vars => GraceLeft' <= GraceLeft /\ (~ (age < Grace) => ~ (age' < Grace))
         /\ Tick /\ ~ Old(p) => SeenFor(p)' # SeenFor(p)
         /\ Tick /\ age < Grace => GraceLeft' # GraceLeft
<1> USE Limits DEF Never
<1>t. lastSeen \in [Peers -> Never .. Ttl + 1] /\ age \in 0 .. Grace
  BY DEF TypeOK
<1>1. SeenFor(p) \in Nat /\ GraceLeft \in Nat
  BY <1>t DEF SeenFor, GraceLeft
<1>2. ASSUME NEW q \in Peers, NEW s \in Slots, Receive(q, s)
      PROVE  age' = age /\ (Quiet(p) => lastSeen'[p] = lastSeen[p])
  BY <1>2, <1>t DEF Receive, Arrive, Quiet, selfVars
<1>3. ASSUME Tick
      PROVE  /\ ~ (age < Grace) => ~ (age' < Grace)
             /\ GraceLeft' <= GraceLeft /\ (age < Grace => GraceLeft' # GraceLeft)
             /\ SeenFor(p)' <= SeenFor(p) /\ (~ Old(p) => SeenFor(p)' # SeenFor(p))
  <2>1. age' = Lesser(Grace, age + 1)
    BY <1>3 DEF Tick
  <2>2. lastSeen'[p] = IF lastSeen[p] = Never THEN Never ELSE Lesser(Ttl + 1, lastSeen[p] + 1)
    BY <1>3 DEF Tick
  <2>3. lastSeen[p] \in Int /\ lastSeen[p] <= Ttl + 1 /\ age \in Int /\ age <= Grace
    BY <1>t
  <2>4. GraceLeft' <= GraceLeft /\ (age < Grace => GraceLeft' # GraceLeft)
    BY <2>1, <2>3 DEF GraceLeft, Lesser
  <2>5. SeenFor(p)' <= SeenFor(p) /\ (~ Old(p) => SeenFor(p)' # SeenFor(p))
    BY <2>2, <2>3 DEF SeenFor, Lesser, Old, Expired
  <2>6. ~ (age < Grace) => ~ (age' < Grace)
    BY <2>1, <2>3 DEF Lesser
  <2> QED  BY <2>4, <2>5, <2>6
<1>4. ASSUME Reboot, ~ UNCHANGED vars
      PROVE  SeenFor(p)' <= SeenFor(p) /\ ~ [~ Reboot]_vars
  <2>1. lastSeen'[p] = Never
    BY <1>4 DEF Reboot
  <2>2. SeenFor(p)' = 0
    BY <2>1 DEF SeenFor
  <2> QED  BY <1>1, <1>4, <2>2
<1>5. ASSUME NEW q \in Peers, Grow(q) \/ Crash(q) \/ Recover(q)
      PROVE  UNCHANGED <<lastSeen, age>>
  BY <1>5 DEF Grow, GrowHeight, StaleAddsEnd, Crash, Recover, nodeVars, selfVars
<1>6. ASSUME NEW q \in Peers, NEW s \in Slots,
             Push(q, s) \/ Lose(q, s) \/ (Handle(q, s) /\ ~ Receive(q, s))
      PROVE  UNCHANGED <<lastSeen, age>>
  BY <1>6 DEF Push, Lose, Handle, StoreIndex, RejectSignature, PassSignature,
     AcceptHash, Consensus, nodeVars, selfVars
<1>7. Sweep \/ UNCHANGED vars => UNCHANGED <<lastSeen, age>>
  BY DEF Sweep, vars, nodeVars, selfVars
<1>8. ASSUME age' = age, Quiet(p) => lastSeen'[p] = lastSeen[p], ~ Tick
      PROVE  /\ Quiet(p) => SeenFor(p)' <= SeenFor(p)
             /\ GraceLeft' <= GraceLeft
  BY <1>1, <1>8 DEF SeenFor, GraceLeft
<1>9. CASE Tick
  BY <1>1, <1>3, <1>9
<1>10. CASE ~ Tick /\ Reboot /\ ~ UNCHANGED vars
  BY <1>1, <1>4, <1>10
<1>11. CASE ~ Tick /\ ~ (Reboot /\ ~ UNCHANGED vars)
  <2>1. age' = age /\ (Quiet(p) => lastSeen'[p] = lastSeen[p])
    BY <1>2, <1>5, <1>6, <1>7, <1>11 DEF Next
  <2> QED  BY <1>1, <1>8, <1>11, <2>1
<1> QED  BY <1>9, <1>10, <1>11

LEMMA OneIsDetected ==
  ASSUME NEW p \in Peers
  PROVE  Going /\ WF_vars(Sweep) /\ <>[]Quiet(p) /\ TimePasses(p) /\ <>[][~ Reboot]_vars
         /\ Settles(SeenFor(p), vars) /\ Settles(GraceLeft, vars)
         => <>[](p \in offline \/ lastSeen[p] = Never)
<1> DEFINE T == TypeOK
           Q == Quiet(p)
           O == Expired(p) \/ lastSeen[p] = Never
           Y == age < Grace
           L == lastSeen[p] \in 0 .. Ttl
           E == offline = {q \in Peers : Expired(q)}
           R == p \in offline \/ lastSeen[p] = Never
           m == SeenFor(p)
           n == GraceLeft
           ES == ENABLED <<Sweep>>_vars
<1>1. T /\ [Next]_vars => m \in Nat /\ n \in Nat
  BY TimeRunsOut
<1>2. T /\ Q /\ [Next]_vars => [m' <= m]_vars
  BY TimeRunsOut
<1>3. T /\ [Next]_vars /\ [~ Reboot]_vars => [n' <= n]_vars
  BY TimeRunsOut
<1>4. T /\ [Next]_vars /\ [m' = m]_vars => (~ O => ~ <<Tick>>_vars)
  BY TimeRunsOut DEF Old
<1>5. T /\ [Next]_vars /\ [n' = n]_vars => (Y => ~ <<Tick>>_vars)
  BY TimeRunsOut
<1>6. T /\ [Next]_vars /\ [~ Reboot]_vars => (~ Y => ~ Y')
  BY TimeRunsOut
<1>7. T /\ Q /\ O /\ [Next]_vars => O' /\ (R => R')
  BY OldStaysOld DEF Old
<1>8. O /\ E => R
  OBVIOUS
<1>9. Sweep => E'
  BY DEF Sweep, nodeVars, Expired
<1>10. T /\ NeverWaits => Y \/ E \/ ES
  <2>1. NeverWaits => (age >= Grace /\ ~ E => ES)
    BY Zenon DEF NeverWaits
  <2>2. T => (~ Y => age >= Grace)
    BY Limits DEF TypeOK
  <2> QED  BY <2>1, <2>2, PTL
<1>11. T => (~ O <=> L)
  <2>1. T => lastSeen[p] \in Never .. Ttl + 1
    BY DEF TypeOK
  <2> QED  BY <2>1, Limits DEF Expired, Never
<1> HIDE DEF T, Q, O, Y, L, E, R, m, n
<1>12. []T /\ [][Next]_vars /\ []NeverWaits /\ WF_vars(Sweep) /\ <>[]Q
       /\ (<>[](Y \/ L) => []<><<Tick>>_vars) /\ <>[][~ Reboot]_vars
       /\ Settles(m, vars) /\ Settles(n, vars) => <>[]R
  BY <1>1, <1>2, <1>3, <1>4, <1>5, <1>6, <1>7, <1>8, <1>9, <1>10, <1>11,
     PTL DEF Settles
<1> QED  BY <1>12, PTL DEF Going, TimePasses, T, Q, Y, L, R, m, n

\* Every peer that was heard of and dies for good is reported from some time on,
\* however late its last pushes are handled, for any number of peers and requests
\* under way (node.py:42-43, 67-79).  Assumed are the fairness of the threads,
\* that none of them waits, that time passes, and that what the model counts down
\* - restarts, pushes on the way, the TTL and the grace period - comes to rest.
THEOREM DeadPeersAreReported ==
  ASSUME IsFiniteSet(Slots)
  PROVE  FairSpec /\ []NeverWaits /\ Settles(MaxReboots - reboots, vars)
         /\ Settles(GraceLeft, vars)
         /\ (\A p \in Peers : <>[](~ up[p]) => TimePasses(p))
         /\ (\A p \in Peers : Settles(Cardinality(OnTheWay(p)), vars))
         /\ (\A p \in Peers : Settles(SeenFor(p), vars))
         => OfflineDetected
<1>1. ASSUME NEW p \in Peers
      PROVE  FairSpec /\ []NeverWaits /\ Settles(MaxReboots - reboots, vars)
             /\ Settles(GraceLeft, vars) /\ TimePasses(p)
             /\ Settles(Cardinality(OnTheWay(p)), vars) /\ Settles(SeenFor(p), vars)
             /\ <>[](~ up[p]) => <>[](p \in offline \/ lastSeen[p] = Never)
  <2>1. FairSpec => Spec /\ ClockRuns /\ PeerHandled(p)
    BY DEF FairSpec, Fairness, PeerHandled
  <2>2. Spec /\ []NeverWaits => Going
    BY GossipTypeCorrect, PTL DEF Going, Spec
  <2>3. Spec /\ Settles(MaxReboots - reboots, vars) => <>[][~ Reboot]_vars
    BY RebootsEnd
  <2>4. Going /\ PeerHandled(p) /\ <>[](~ up[p]) /\ Settles(Cardinality(OnTheWay(p)), vars)
        => <>[]Quiet(p)
    BY PeerGetsQuiet, PTL
  <2>5. Going /\ WF_vars(Sweep) /\ <>[]Quiet(p) /\ TimePasses(p) /\ <>[][~ Reboot]_vars
        /\ Settles(SeenFor(p), vars) /\ Settles(GraceLeft, vars)
        => <>[](p \in offline \/ lastSeen[p] = Never)
    BY OneIsDetected, PTL
  <2> QED  BY <2>1, <2>2, <2>3, <2>4, <2>5, PTL DEF ClockRuns
<1> QED  BY <1>1 DEF OfflineDetected
=============================================================================
