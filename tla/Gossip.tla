------------------------------- MODULE Gossip -------------------------------
(***************************************************************************)
(* gossip/node.py and the receiving half of integrity/agent.py: what one   *)
(* controller, the receiver, learns about its peers.  Replies to gossip    *)
(* are ignored by the sender and receiving changes nothing a peer is sent  *)
(* except the receiver's own chain, so a cluster is as many independent    *)
(* copies of this module as it has controllers.                            *)
(*                                                                         *)
(* Every request runs in a thread of its own and receive takes no lock:    *)
(* the read of _peer_last_idx, its update, the trust update and the update *)
(* of peer_hashes are separate steps.  Time advances in ticks of one       *)
(* gossip interval; an age beyond every limit it is compared with stays.   *)
(*                                                                         *)
(* A peer's blocks are added by its Ryu, heartbeat and request threads     *)
(* without a lock, and chain.height is loaded and stored apart, so a store *)
(* may set it back.  A hash is known by the run of the peer it is of: the  *)
(* receiver only asks whether it has one.                                  *)
(***************************************************************************)
EXTENDS Integers, FiniteSets

CONSTANTS Peers,              \* the other controllers (get_peers)
          Slots,              \* requests of one peer that may be under way
          Prompt,             \* requests end before the sender's 3 s timeout
          Ttl, Window, Grace, \* 30, 60 and 75 s in the code, in ticks
          TrustMax, Gain, SigPenalty,  \* 1.0, 0.02 and 0.3 in the code
          MaxIdx,             \* bound of the model: a peer's chain height
          MaxGen,             \* bound of the model: restarts of a peer
          MaxReboots          \* bound of the model: restarts of the receiver

ASSUME GossipAssumption ==
  /\ Prompt \in BOOLEAN
  /\ Prompt => \A s, r \in Slots : s = r
  /\ {Ttl, Window, Grace, TrustMax, Gain, SigPenalty, MaxGen, MaxReboots} \subseteq Nat
  /\ MaxIdx \in Nat \ {0}

VARIABLES
  up, gen,                    \* of a peer: runs, incarnation
  height, oldest,             \* of a peer: chain.height, and the least height
                              \* an add under way may have loaded
  fell,                       \* of a peer: its height went back since the receiver
                              \* started
  silent,                     \* ticks since the latest push that arrived was sent
  req,                        \* the requests under way
  lastSeen, lastIdx, peerHash, trust,      \* last_seen as an age, the others
  age, reboots,               \* of the receiver: ticks since start, restarts
  offline                     \* the peers the last sweep reported

peerVars  == <<up, gen, height, oldest, fell, silent>>
agentVars == <<lastIdx, trust>>
nodeVars  == <<lastSeen, peerHash>>
selfVars  == <<age, reboots, offline>>
vars == <<peerVars, req, agentVars, nodeVars, selfVars>>

Never == -1                   \* no entry in last_seen, _peer_last_idx, peer_hashes
Free  == [at |-> "free", gen |-> 0, idx |-> 0, age |-> 0]

\* A request: where its handler stands, and the fields receive reads.
Places   == {"sent", "store", "verify", "accept", "vote"}
Requests == [at : Places, gen : 0 .. MaxGen, idx : 1 .. MaxIdx, age : 0 .. Window + 1]

Lesser(a, b)  == IF a < b THEN a ELSE b
Greater(a, b) == IF a > b THEN a ELSE b

NoRequests == [p \in Peers |-> [s \in Slots |-> Free]]

Init ==
  /\ up = [p \in Peers |-> TRUE]
  /\ gen = [p \in Peers |-> 0]
  /\ height = [p \in Peers |-> 1] /\ oldest = [p \in Peers |-> 1]
  /\ fell = [p \in Peers |-> FALSE]
  /\ silent = [p \in Peers |-> 0]
  /\ req = NoRequests
  /\ lastSeen = [p \in Peers |-> Never]
  /\ lastIdx = [p \in Peers |-> Never]
  /\ peerHash = [p \in Peers |-> Never]
  /\ trust = [p \in Peers |-> TrustMax]
  /\ age = 0 /\ reboots = 0
  /\ offline = {}

-----------------------------------------------------------------------------
(* The peers.                                                              *)

\* One of the peer's threads counts its block, the heartbeat one every 5 s at
\* least: it stores one more than the height v it had loaded, which may be stale.
GrowHeight(p) ==
  /\ up[p]
  /\ \E v \in oldest[p] .. height[p] :
       /\ v < MaxIdx
       /\ height' = [height EXCEPT ![p] = v + 1]
       /\ fell' = [fell EXCEPT ![p] = @ \/ v + 1 < height[p]]
  /\ UNCHANGED <<up, gen, oldest, silent, req, agentVars, nodeVars, selfVars>>

\* The last add that had loaded the oldest height has stored its own.
StaleAddsEnd(p) ==
  /\ up[p]
  /\ oldest[p] < height[p]
  /\ oldest' = [oldest EXCEPT ![p] = @ + 1]
  /\ UNCHANGED <<up, gen, height, fell, silent, req, agentVars, nodeVars, selfVars>>

\* get_signed_state reads and signs chain.head, then reads chain.height and the
\* time; _push posts them.  The previous request to this receiver was answered,
\* or its sender gave up.
Push(p, s) ==
  /\ up[p]
  /\ req[p][s] = Free
  /\ req' = [req EXCEPT ![p][s] =
       [at |-> "sent", gen |-> gen[p], idx |-> height[p], age |-> 0]]
  /\ UNCHANGED <<peerVars, agentVars, nodeVars, selfVars>>

\* The peer's process dies.  What it has sent arrives all the same.
Crash(p) ==
  /\ up[p]
  /\ up' = [up EXCEPT ![p] = FALSE]
  /\ UNCHANGED <<gen, height, oldest, fell, silent, req, agentVars, nodeVars, selfVars>>

\* It is started again with an empty chain and the block of its boot flush.
Recover(p) ==
  /\ ~ up[p]
  /\ gen[p] < MaxGen
  /\ up' = [up EXCEPT ![p] = TRUE]
  /\ gen' = [gen EXCEPT ![p] = @ + 1]
  /\ height' = [height EXCEPT ![p] = 1] /\ oldest' = [oldest EXCEPT ![p] = 1]
  /\ fell' = [fell EXCEPT ![p] = @ \/ 1 < height[p]]
  /\ UNCHANGED <<silent, req, agentVars, nodeVars, selfVars>>

-----------------------------------------------------------------------------
(* The handler of a request: GossipNode.receive.                           *)

Answer(p, s) == req' = [req EXCEPT ![p][s] = Free]

\* A push that never arrives; _push logs the error and goes on.
Lose(p, s) ==
  /\ req[p][s].at = "sent"
  /\ Answer(p, s)
  /\ UNCHANGED <<peerVars, agentVars, nodeVars, selfVars>>

Move(p, s, from, to) ==
  /\ req[p][s].at = from
  /\ req' = [req EXCEPT ![p][s].at = to]

\* The push arrives: what the peer showed of itself, whatever becomes of it.
Arrive(p, s) ==
  /\ req[p][s].at = "sent"
  /\ silent' = [silent EXCEPT ![p] = Lesser(@, req[p][s].age)]
  /\ UNCHANGED <<up, gen, height, oldest, fell, agentVars, peerHash, selfVars>>

\* Mutated forms of Receive: last_seen noted only for a request that passes, no
\* index check, and an index check that turns down an equal index too.
ReceiveSeenLate(p, s) ==
  LET m == req[p][s] IN
  /\ Arrive(p, s)
  /\ IF m.age > Window \/ m.idx < lastIdx[p]
     THEN Answer(p, s) /\ UNCHANGED lastSeen
     ELSE Move(p, s, "sent", "store") /\ lastSeen' = [lastSeen EXCEPT ![p] = 0]
ReceiveAnyIndex(p, s) ==
  /\ Arrive(p, s)
  /\ lastSeen' = [lastSeen EXCEPT ![p] = 0]
  /\ IF req[p][s].age > Window THEN Answer(p, s) ELSE Move(p, s, "sent", "store")

ReceiveNewOnly(p, s) ==
  LET m == req[p][s] IN
  /\ Arrive(p, s)
  /\ lastSeen' = [lastSeen EXCEPT ![p] = 0]
  /\ IF m.age > Window \/ m.idx <= lastIdx[p] THEN Answer(p, s) ELSE Move(p, s, "sent", "store")

\* Notes the peer as seen, then verify_peer's first two checks.
Receive(p, s) ==
  LET m == req[p][s] IN
  /\ Arrive(p, s)
  /\ lastSeen' = [lastSeen EXCEPT ![p] = 0]
  /\ IF m.age > Window \/ m.idx < lastIdx[p]
     THEN Answer(p, s)        \* a REPLAY alert, and {"ok": False}
     ELSE Move(p, s, "sent", "store")

\* self._peer_last_idx[pid] = idx
StoreIndex(p, s) ==
  /\ Move(p, s, "store", "verify")
  /\ lastIdx' = [lastIdx EXCEPT ![p] = req[p][s].idx]
  /\ UNCHANGED <<peerVars, nodeVars, trust, selfVars>>

\* verify(...) returns False: a loss of trust and a SIG_INVALID alert.
RejectSignature(p, s) ==
  /\ req[p][s].at = "verify"
  /\ trust' = [trust EXCEPT ![p] = Greater(0, @ - SigPenalty)]
  /\ Answer(p, s)
  /\ UNCHANGED <<peerVars, nodeVars, lastIdx, selfVars>>

\* A mutated form of PassSignature: the gain of trust without its ceiling.
PassUnbounded(p, s) ==
  /\ Move(p, s, "verify", "accept")
  /\ trust' = [trust EXCEPT ![p] = @ + Gain]
  /\ UNCHANGED <<peerVars, nodeVars, lastIdx, selfVars>>

\* verify(...) returns True: a gain of trust.
PassSignature(p, s) ==
  /\ Move(p, s, "verify", "accept")
  /\ trust' = [trust EXCEPT ![p] = Lesser(TrustMax, @ + Gain)]
  /\ UNCHANGED <<peerVars, nodeVars, lastIdx, selfVars>>

\* A mutated form of AcceptHash: setdefault in place of the assignment.
AcceptFirstHash(p, s) ==
  /\ Move(p, s, "accept", "vote")
  /\ peerHash' = [peerHash EXCEPT ![p] = IF @ = Never THEN req[p][s].gen ELSE @]
  /\ UNCHANGED <<peerVars, agentVars, lastSeen, selfVars>>

\* self.peer_hashes[pid] = phash
AcceptHash(p, s) ==
  /\ Move(p, s, "accept", "vote")
  /\ peerHash' = [peerHash EXCEPT ![p] = req[p][s].gen]
  /\ UNCHANGED <<peerVars, agentVars, lastSeen, selfVars>>

Known == {p \in Peers : peerHash[p] # Never}

\* run_consensus: no entry of peer_hashes is ever empty, so every peer ever
\* accepted is healthy and gains trust.  The verdict is discarded by receive,
\* and the alerts change nothing here.
Consensus(p, s) ==
  /\ req[p][s].at = "vote"
  /\ trust' = [q \in Peers |->
       IF q \in Known THEN Lesser(TrustMax, trust[q] + Gain) ELSE trust[q]]
  /\ Answer(p, s)
  /\ UNCHANGED <<peerVars, nodeVars, lastIdx, selfVars>>

-----------------------------------------------------------------------------
(* The receiver's TTL loop, time, and restarts.                            *)

\* A mutated form of Expired: only peers whose hash is not on record.
ExpiredUnknown(p) == lastSeen[p] # Never /\ lastSeen[p] > Ttl /\ p \notin Known

Expired(p) == lastSeen[p] # Never /\ lastSeen[p] > Ttl

\* One round of _hb_loop after its grace period: a CTRL_OFFLINE alert each.
Sweep ==
  /\ age >= Grace
  /\ offline' = {p \in Peers : Expired(p)}
  /\ UNCHANGED <<peerVars, req, agentVars, nodeVars, age, reboots>>

Tick ==
  /\ Prompt => \A p \in Peers, s \in Slots : req[p][s] = Free
  /\ age' = Lesser(Grace, age + 1)
  /\ silent' = [p \in Peers |-> Lesser(Ttl + 1, silent[p] + 1)]
  /\ lastSeen' = [p \in Peers |-> IF lastSeen[p] = Never THEN Never
                                  ELSE Lesser(Ttl + 1, lastSeen[p] + 1)]
  /\ req' = [p \in Peers |-> [s \in Slots |->
       IF req[p][s].at = "sent"
       THEN [req[p][s] EXCEPT !.age = Lesser(Window + 1, @ + 1)] ELSE req[p][s]]]
  /\ UNCHANGED <<up, gen, height, oldest, fell, agentVars, peerHash, reboots, offline>>

\* The receiver's process is replaced: nothing of this state is on disk.
Reboot ==
  /\ reboots < MaxReboots
  /\ reboots' = reboots + 1
  /\ req' = NoRequests
  /\ lastSeen' = [p \in Peers |-> Never]
  /\ lastIdx' = [p \in Peers |-> Never]
  /\ peerHash' = [p \in Peers |-> Never]
  /\ trust' = [p \in Peers |-> TrustMax]
  /\ age' = 0
  /\ offline' = {}
  /\ fell' = [p \in Peers |-> FALSE]
  /\ UNCHANGED <<up, gen, height, oldest, silent>>

Handle(p, s) ==
  \/ Receive(p, s) \/ StoreIndex(p, s) \/ RejectSignature(p, s)
  \/ PassSignature(p, s) \/ AcceptHash(p, s) \/ Consensus(p, s)

Grow(p) == GrowHeight(p) \/ StaleAddsEnd(p)

Next ==
  \/ \E p \in Peers : Grow(p) \/ Crash(p) \/ Recover(p)
  \/ \E p \in Peers, s \in Slots : Push(p, s) \/ Lose(p, s) \/ Handle(p, s)
  \/ Sweep \/ Tick \/ Reboot

Spec == Init /\ [][Next]_vars

\* Threads that can run do, time passes, peers that run keep adding blocks, end the
\* adds they began and push, of the pushes sent again and again one arrives, and of
\* those that are verified again and again one is found valid; nobody is obliged to
\* start a dead process again.
PeerRuns(p) == WF_vars(GrowHeight(p)) /\ WF_vars(StaleAddsEnd(p))

RequestRuns(p, s) ==
  /\ WF_vars(Push(p, s)) /\ WF_vars(Handle(p, s))
  /\ SF_vars(Receive(p, s)) /\ SF_vars(PassSignature(p, s))

ClockRuns == WF_vars(Tick) /\ WF_vars(Sweep)

Fairness ==
  /\ ClockRuns
  /\ \A p \in Peers : PeerRuns(p) /\ \A s \in Slots : RequestRuns(p, s)

FairSpec == Spec /\ Fairness

-----------------------------------------------------------------------------
TypeOK ==
  /\ up \in [Peers -> BOOLEAN]
  /\ gen \in [Peers -> 0 .. MaxGen]
  /\ height \in [Peers -> 1 .. MaxIdx] /\ oldest \in [Peers -> 1 .. MaxIdx]
  /\ \A p \in Peers : oldest[p] <= height[p]
  /\ fell \in [Peers -> BOOLEAN]
  /\ silent \in [Peers -> 0 .. Ttl + 1]
  /\ req \in [Peers -> [Slots -> Requests \cup {Free}]]
  /\ lastSeen \in [Peers -> Never .. Ttl + 1]
  /\ lastIdx \in [Peers -> {Never} \cup 1 .. MaxIdx]
  /\ peerHash \in [Peers -> {Never} \cup 0 .. MaxGen]
  /\ trust \in [Peers -> 0 .. TrustMax]
  /\ age \in 0 .. Grace
  /\ reboots \in 0 .. MaxReboots
  /\ offline \subseteq Peers

\* "Block index regression ... rejected" (README.md:262): the index on record
\* for a peer never decreases while the receiver runs, across restarts of the
\* peer too.  The check and the update are separate steps (agent.py:158-163).
NeverRollsBack ==
  [][reboots' = reboots => \A p \in Peers : lastIdx'[p] >= lastIdx[p]]_vars

\* A push is turned down as a replay only if the height of its peer did go back
\* since the receiver started, by a restart of the peer or by two of its adds that
\* overlapped: a peer that shows the same height again, as an idle one does
\* between two blocks, is believed (agent.py:153-161, chain.py:27).
ReplayMeansFell ==
  [][\A p \in Peers, s \in Slots :
       Receive(p, s) /\ req'[p][s] = Free => fell[p]]_vars

\* A peer is reported offline only when every push of it that arrived was sent
\* longer than the TTL ago: a push that verify_peer then turned down is a sign of
\* life too (node.py:42-43, 76).
OfflineMeansSilent == [][\A p \in offline' \ offline : silent[p] > Ttl]_vars

\* Whoever has something to do can do it, whatever the others are doing: the
\* receiver takes no lock, and no thread of a peer waits for another.
CanGoOn(p, s) ==
  /\ up[p] /\ height[p] < MaxIdx => ENABLED <<GrowHeight(p)>>_vars
  /\ up[p] /\ oldest[p] < height[p] => ENABLED <<StaleAddsEnd(p)>>_vars
  /\ up[p] /\ req[p][s] = Free => ENABLED <<Push(p, s)>>_vars
  /\ req[p][s] # Free => ENABLED <<Handle(p, s)>>_vars
  /\ req[p][s].at = "sent" => ENABLED <<Receive(p, s)>>_vars
  /\ req[p][s].at = "verify" => ENABLED <<PassSignature(p, s)>>_vars

NeverWaits ==
  /\ age >= Grace /\ offline # {p \in Peers : Expired(p)} => ENABLED <<Sweep>>_vars
  /\ \A p \in Peers, s \in Slots : CanGoOn(p, s)

\* Time does not stand still while the grace period lasts or p may get old.
TimePasses(p) ==
  <>[](age < Grace \/ lastSeen[p] \in 0 .. Ttl) => []<><<Tick>>_vars

\* Time passes when a peer that was heard of dies for good, and the peer is
\* reported in every sweep from some time on, whatever it sent before and however
\* late that is handled (node.py:42-43, 67-79).
OfflineDetected ==
  \A p \in Peers :
    <>[](~ up[p]) => TimePasses(p) /\ <>[](p \in offline \/ lastSeen[p] = Never)

\* A peer that is restarted is not locked out for good: its pushes are turned
\* down until its new chain is as long as the old one was, which it becomes
\* however often overlapping adds set its height back, and then a hash of its new
\* run is accepted (agent.py:158-161, 305-316, chain.py:27).
RestartedPeerAccepted ==
  \A p \in Peers : <>[](up[p]) => <>[](peerHash[p] = gen[p])
=============================================================================
