--------------------------- MODULE IntegrityAgent ---------------------------
(***************************************************************************)
(* integrity/agent.py: one controller process and the threads that run in  *)
(* it.  The Ryu event thread calls the on_* hooks, _heartbeat_flush runs   *)
(* in a thread of its own, and the gossip server's request threads and the *)
(* gossip TTL loop call into verify_peer, run_consensus and _alert.        *)
(*                                                                         *)
(* The agent's lock guards the counters only.  _flush and HashChain.add    *)
(* run without it, so they are modelled one shared access at a time; a     *)
(* section under the lock is one step.  The interpreter may switch threads *)
(* between any two of these accesses (for the load and the store of        *)
(* "self.height += 1": CPython 3.8 and 3.9, which pyproject.toml admits).  *)
(***************************************************************************)
EXTENDS ChainOps, Integers, FiniteSets

CONSTANTS Ryu,                \* the thread that runs the Ryu event loop
          BeatThreads,        \* the _heartbeat_flush thread
          PeerThreads,        \* gossip request threads and the TTL loop
          PpsLimit,           \* FLOOD_PPS_LIMIT, 500 in the code
          FlowLimit,          \* flow rules per second, 50 in the code
          PktEvery,           \* a snapshot every 10 packets in the code
          MaxAdds             \* bound of the model: flushes per process

Threads == {Ryu} \cup BeatThreads \cup PeerThreads

ASSUME AgentAssumption ==
  /\ Ryu \notin BeatThreads \cup PeerThreads
  /\ PpsLimit \in Nat /\ FlowLimit \in Nat
  /\ PktEvery \in Nat \ {0}
  /\ MaxAdds \in Nat \ {0}
  /\ IsFiniteSet(Threads) /\ Cardinality(Threads) <= MaxBlocks

VARIABLES
  head, height, blocks,       \* self.chain
  nAlert,                     \* self.n_alert
  nPkt, pktWin, flowWin,      \* n_pkt modulo PktEvery, sizes of the windows
  phase,                      \* age of the process, see Phases
  published,                  \* "healthy" of this controller's entry in STATE_FILE
  todo,                       \* per thread: the calls it has still to make
  pc, frame,                  \* per thread: its position and locals in _flush
  adds,                       \* calls granted so far, for the bound MaxAdds
  calm                        \* no two adds of this process have overlapped so far

chain == <<head, height, blocks>>
load  == <<nPkt, pktWin, flowWin>>
vars  == <<chain, nAlert, load, phase, published, todo, pc, frame, adds, calm>>

-----------------------------------------------------------------------------
(* The calls a thread makes: _flush, or _alert(type, source, severity).    *)

Alert(type, own, sev) == [type |-> type, own |-> own, sev |-> sev]
Flush == Alert("flush", TRUE, "MEDIUM")

\* PEER stands for every alert whose source is a peer: REPLAY, SIG_INVALID,
\* CTRL_OFFLINE, CONSENSUS_FAIL and HASH_MISMATCH about a trust score.
AlertTypes == {"FLOOD", "FLOW_INJECT", "HASH_MISMATCH", "PEER"}

Calls == [type : AlertTypes \cup {"flush"}, own : BOOLEAN, sev : {"HIGH", "MEDIUM"}]

When(cond, call) == IF cond THEN <<call>> ELSE << >>

\* boot: the constructor runs its first _flush; warm: under 30 s old; grace:
\* under 90 s old (boot_grace_end); steady: later.
Phases == {"boot", "warm", "grace", "steady"}

\* Two snapshots never coincide (they carry ts), and no thread hashes the
\* same head twice, so the flushing thread names the snapshot it takes.
Snapshots == Threads

\* Where a thread is in _flush and HashChain.add: the access it does next.
AddPositions == {"block", "prev", "head", "load", "store", "append", "trim", "pop"}
Positions == AddPositions \cup {"idle", "health", "publish", "failed"}

NoFrame == [block |-> [idx |-> 0, state |-> Ryu, prev |-> GENESIS, hash |-> GENESIS],
            count |-> 0, healthy |-> TRUE]

Idle(t) == pc[t] = "idle" /\ todo[t] = << >>

Init ==
  /\ head = GENESIS /\ height = 0 /\ blocks = << >>
  /\ nAlert = 0 /\ nPkt = 0 /\ pktWin = 0 /\ flowWin = 0
  /\ phase = "boot"
  /\ published = FALSE                     \* no entry yet
  /\ todo = [t \in Threads |-> IF t = Ryu THEN <<Flush>> ELSE << >>]
  /\ pc = [t \in Threads |-> "idle"]
  /\ frame = [t \in Threads |-> NoFrame]
  /\ adds = 1
  /\ calm = TRUE

-----------------------------------------------------------------------------
(* Entry points.  Each runs its section under the lock and then owes the   *)
(* listed calls, in order.                                                 *)

Begin(t, calls) ==
  /\ phase # "boot"
  /\ Idle(t)
  /\ adds + Len(calls) <= MaxAdds
  /\ adds' = adds + Len(calls)
  /\ todo' = [todo EXCEPT ![t] = calls]
  /\ UNCHANGED <<chain, phase, published, pc, frame, calm>>

\* on_switch_up, on_switch_down: counters of the snapshot, then _flush.
SwitchEvent(t) ==
  /\ t = Ryu
  /\ Begin(t, <<Flush>>)
  /\ UNCHANGED <<nAlert, load>>

\* on_packet_in.  Time stamps leave the one-second window as time passes, so
\* the window holds this packet and any number of the earlier ones.
PacketIn(t) ==
  \E w \in 1 .. pktWin + 1, odd \in BOOLEAN :
    /\ t = Ryu
    /\ w <= PpsLimit + 1
    /\ odd => phase \in {"grace", "steady"}
    /\ pktWin' = w
    /\ nPkt' = (nPkt + 1) % PktEvery
    /\ Begin(t, When(w > PpsLimit, Alert("FLOOD", TRUE, "HIGH"))
             \o When(odd, Alert("FLOOD", TRUE, "MEDIUM"))
             \o When(nPkt' = 0, Flush))
    /\ UNCHANGED <<nAlert, flowWin>>

\* on_flow_add.
FlowAdd(t) ==
  \E w \in 1 .. flowWin + 1 :
    /\ t = Ryu
    /\ w <= FlowLimit + 1
    /\ flowWin' = w
    /\ Begin(t, When(w > FlowLimit, Alert("FLOW_INJECT", TRUE, "HIGH")) \o <<Flush>>)
    /\ UNCHANGED <<nAlert, nPkt, pktWin>>

\* One round of _heartbeat_flush.
Heartbeat(t) ==
  /\ t \in BeatThreads
  /\ Begin(t, <<Flush>>)
  /\ UNCHANGED <<nAlert, load>>

\* verify_peer, run_consensus or the TTL loop accuses a peer.
AccusePeer(t) ==
  /\ t \in PeerThreads
  /\ Begin(t, <<Alert("PEER", FALSE, "HIGH")>>)
  /\ UNCHANGED <<nAlert, load>>

\* The part of run_consensus about this controller: it re-verifies the chain.
CheckChain(t) ==
  /\ t \in PeerThreads
  /\ ~ VerifyAll(blocks)
  /\ Begin(t, <<Alert("HASH_MISMATCH", TRUE, "HIGH")>>)
  /\ UNCHANGED <<nAlert, load>>

\* reset_alerts, a public method no code under src/ calls.
ResetAlerts(t) ==
  /\ t \in PeerThreads
  /\ nAlert' = 0
  /\ Begin(t, <<Flush>>)
  /\ UNCHANGED load

-----------------------------------------------------------------------------
(* The steps of the calls.                                                 *)

Counts(call) ==
  /\ call.own
  /\ call.sev = "HIGH"
  /\ phase = "steady" \/ call.type = "FLOOD"

\* _alert: the locked section counts the alert, then the snapshot is flushed.
RaiseAlert(t) ==
  /\ pc[t] = "idle"
  /\ todo[t] # << >>
  /\ Head(todo[t]) # Flush
  /\ nAlert' = IF Counts(Head(todo[t])) THEN nAlert + 1 ELSE nAlert
  /\ todo' = [todo EXCEPT ![t] = <<Flush>> \o Tail(@)]
  /\ UNCHANGED <<chain, load, phase, published, pc, frame, adds, calm>>

Goto(t, from, to) == pc[t] = from /\ pc' = [pc EXCEPT ![t] = to]

\* add: new_hash = SHA3_256(canon + self.head)
ComputeHash(t) ==
  /\ todo[t] # << >> /\ Head(todo[t]) = Flush
  /\ Goto(t, "idle", "block")
  /\ frame' = [frame EXCEPT ![t].block.state = t, ![t].block.hash = Digest(t, head)]
  /\ calm' = (calm /\ \A u \in Threads : pc[u] \notin AddPositions)
  /\ UNCHANGED <<chain, nAlert, load, phase, published, todo, adds>>

\* A mutated form of BuildBlock: the index of the previous block.
BuildBlockShort(t) ==
  /\ Goto(t, "block", "prev")
  /\ frame' = [frame EXCEPT ![t].block.idx = height - 1]
  /\ UNCHANGED <<chain, nAlert, load, phase, published, todo, adds, calm>>

\* add: block = {"idx": self.height, "cid": self.cid, "state": state,
BuildBlock(t) ==
  /\ Goto(t, "block", "prev")
  /\ frame' = [frame EXCEPT ![t].block.idx = height]
  /\ UNCHANGED <<chain, nAlert, load, phase, published, todo, adds, calm>>

\* A mutated form of LinkBlock: the link taken from the oldest block in memory.
LinkBlockOldest(t) ==
  /\ Goto(t, "prev", "head")
  /\ frame' = [frame EXCEPT ![t].block.prev =
                  IF blocks = << >> THEN GENESIS ELSE blocks[1].hash]
  /\ UNCHANGED <<chain, nAlert, load, phase, published, todo, adds, calm>>

\* add: "prev": self.head, "hash": new_hash}
LinkBlock(t) ==
  /\ Goto(t, "prev", "head")
  /\ frame' = [frame EXCEPT ![t].block.prev = head]
  /\ UNCHANGED <<chain, nAlert, load, phase, published, todo, adds, calm>>

\* A mutated form of SetHead: the digest computed again on the current head.
SetHeadAgain(t) ==
  /\ Goto(t, "head", "load")
  /\ head' = Digest(t, head)
  /\ UNCHANGED <<height, blocks, nAlert, load, phase, published, todo, frame, adds, calm>>

\* add: self.head = new_hash
SetHead(t) ==
  /\ Goto(t, "head", "load")
  /\ head' = frame[t].block.hash
  /\ UNCHANGED <<height, blocks, nAlert, load, phase, published, todo, frame, adds, calm>>

\* add: self.height += 1, the load and the store
LoadHeight(t) ==
  /\ Goto(t, "load", "store")
  /\ frame' = [frame EXCEPT ![t].count = height]
  /\ UNCHANGED <<chain, nAlert, load, phase, published, todo, adds, calm>>

StoreHeight(t) ==
  /\ Goto(t, "store", "append")
  /\ height' = frame[t].count + 1
  /\ frame' = [frame EXCEPT ![t].count = 0]
  /\ UNCHANGED <<head, blocks, nAlert, load, phase, published, todo, adds, calm>>

\* A mutated form of AppendBlock: the height counted here, too.
AppendCounts(t) ==
  /\ Goto(t, "append", "trim")
  /\ blocks' = Append(blocks, frame[t].block)
  /\ height' = height + 1
  /\ frame' = [frame EXCEPT ![t] = NoFrame]
  /\ UNCHANGED <<head, nAlert, load, phase, published, todo, adds, calm>>

\* add: self.blocks.append(block); the thread's own reference to the block is read
\* for the payload only.
AppendBlock(t) ==
  /\ Goto(t, "append", "trim")
  /\ blocks' = Append(blocks, frame[t].block)
  /\ frame' = [frame EXCEPT ![t] = NoFrame]
  /\ UNCHANGED <<head, height, nAlert, load, phase, published, todo, adds, calm>>

\* Mutated forms of TestLength: the limit off by one, either way.
TestLengthLax(t) ==
  /\ Goto(t, "trim", IF Len(blocks) > MaxBlocks + 1 THEN "pop" ELSE "health")
  /\ UNCHANGED <<chain, nAlert, load, phase, published, todo, frame, adds, calm>>
TestLengthEarly(t) ==
  /\ Goto(t, "trim", IF Len(blocks) >= MaxBlocks THEN "pop" ELSE "health")
  /\ UNCHANGED <<chain, nAlert, load, phase, published, todo, frame, adds, calm>>

\* add: if len(self.blocks) > 1000:
TestLength(t) ==
  /\ Goto(t, "trim", IF Len(blocks) > MaxBlocks THEN "pop" ELSE "health")
  /\ UNCHANGED <<chain, nAlert, load, phase, published, todo, frame, adds, calm>>

\* A mutated form of PopOldest: pop() in place of pop(0).
PopNewest(t) ==
  /\ Goto(t, "pop", "health")
  /\ blocks' = SubSeq(blocks, 1, Len(blocks) - 1)
  /\ UNCHANGED <<head, height, nAlert, load, phase, published, todo, frame, adds, calm>>

\* add: self.blocks.pop(0)
PopOldest(t) ==
  /\ Goto(t, "pop", "health")
  /\ blocks' = Tail(blocks)
  /\ UNCHANGED <<head, height, nAlert, load, phase, published, todo, frame, adds, calm>>

\* A mutated form of JudgeHealth: the threshold off by one.
JudgeHealthLax(t) ==
  /\ Goto(t, "health", "publish")
  /\ frame' = [frame EXCEPT ![t].healthy = nAlert <= 2 /\ VerifyAll(blocks)]
  /\ UNCHANGED <<chain, nAlert, load, phase, published, todo, adds, calm>>

\* _flush: "healthy": self.n_alert < 2 and self.chain.verify_all()
JudgeHealth(t) ==
  /\ Goto(t, "health", "publish")
  /\ frame' = [frame EXCEPT ![t].healthy = nAlert < 2 /\ VerifyAll(blocks)]
  /\ UNCHANGED <<chain, nAlert, load, phase, published, todo, adds, calm>>

\* _flush: sign raises, since the key file cannot be read (signer.py:40-42).  The
\* block is in the chain, nothing is published, and the exception ends whatever
\* made the call with all it had still to do: the hook (Ryu reports it), the
\* request (its server does), the round of the heartbeat (agent.py:314 does).  In
\* the constructor it ends the process, which is Restart.
RaiseInSign(t) ==
  /\ phase # "boot"
  /\ Goto(t, "health", "failed")
  /\ todo' = [todo EXCEPT ![t] = <<Flush>>]
  /\ UNCHANGED <<chain, nAlert, load, phase, published, frame, adds, calm>>

\* The flush is over.
Return(t, from) ==
  /\ Goto(t, from, "idle")
  /\ frame' = [frame EXCEPT ![t] = NoFrame]
  /\ todo' = [todo EXCEPT ![t] = Tail(@)]
  /\ UNCHANGED <<chain, nAlert, load, phase, adds, calm>>

\* _flush: the entry is put into STATE_FILE; of the payload only the verdict counts
\* here.
Publish(t) == Return(t, "publish") /\ published' = frame[t].healthy

\* _flush: reading, writing or renaming the file raises and the old entry stays.
FailWrite(t) ==
  /\ Goto(t, "publish", "failed")
  /\ frame' = [frame EXCEPT ![t] = NoFrame]
  /\ UNCHANGED <<chain, nAlert, load, phase, published, todo, adds, calm>>

\* except Exception as e: log.warning(...), in _flush or around it
LogFailure(t) == Return(t, "failed") /\ published' = published

-----------------------------------------------------------------------------
(* The process.                                                            *)

\* The constructor returned, or 30 s or 90 s passed since it was entered.
Age ==
  /\ phase' = CASE phase = "boot"  -> "warm"
                [] phase = "warm"  -> "grace"
                [] phase = "grace" -> "steady"
                [] OTHER           -> phase
  /\ phase = "boot" => Idle(Ryu)
  /\ phase # "steady"
  /\ UNCHANGED <<chain, nAlert, load, published, todo, pc, frame, adds, calm>>

\* The process dies between any two steps and is started again; only the
\* entry in STATE_FILE outlives it.
Restart ==
  /\ head' = GENESIS /\ height' = 0 /\ blocks' = << >>
  /\ nAlert' = 0 /\ nPkt' = 0 /\ pktWin' = 0 /\ flowWin' = 0
  /\ phase' = "boot"
  /\ todo' = [t \in Threads |-> IF t = Ryu THEN <<Flush>> ELSE << >>]
  /\ pc' = [t \in Threads |-> "idle"]
  /\ frame' = [t \in Threads |-> NoFrame]
  /\ adds' = 1
  /\ calm' = TRUE
  /\ UNCHANGED published

\* _switch_up and _pkt_in of the controller call one hook after another in
\* the event thread.  Which of them is called depends on the packet and on
\* the MAC table, which are left out, so any may be next.
RyuHandler(t) == SwitchEvent(t) \/ PacketIn(t) \/ FlowAdd(t)

Operation(t) ==
  \/ RyuHandler(t) \/ Heartbeat(t) \/ AccusePeer(t) \/ CheckChain(t) \/ ResetAlerts(t)

Step(t) ==
  \/ RaiseAlert(t) \/ ComputeHash(t) \/ BuildBlock(t) \/ LinkBlock(t) \/ SetHead(t)
  \/ LoadHeight(t) \/ StoreHeight(t) \/ AppendBlock(t) \/ TestLength(t)
  \/ PopOldest(t) \/ RaiseInSign(t) \/ JudgeHealth(t)
  \/ Publish(t) \/ FailWrite(t) \/ LogFailure(t)

Next == Age \/ Restart \/ \E t \in Threads : Operation(t) \/ Step(t)

Spec == Init /\ [][Next]_vars

\* The operating system runs every thread that has a statement to run.
Runs(t) == WF_vars(Step(t))
FairSpec == Spec /\ \A t \in Threads : Runs(t)

-----------------------------------------------------------------------------
TypeOK ==
  /\ head \in Seq(Snapshots)
  /\ height \in Nat
  /\ blocks \in Seq(Block(Snapshots))
  /\ nAlert \in Nat
  /\ nPkt \in 0 .. PktEvery - 1
  /\ pktWin \in 0 .. PpsLimit + 1
  /\ flowWin \in 0 .. FlowLimit + 1
  /\ phase \in Phases
  /\ published \in BOOLEAN
  /\ todo \in [Threads -> Seq(Calls)]
  /\ pc \in [Threads -> Positions]
  /\ frame \in [Threads -> [block : Block(Snapshots), count : Nat, healthy : BOOLEAN]]
  /\ adds \in 0 .. MaxAdds
  /\ calm \in BOOLEAN

Trimming == {t \in Threads : pc[t] \in {"trim", "pop"}}
Popping  == {t \in Threads : pc[t] = "pop"}
Quiet    == \A t \in Threads : Idle(t)

\* The block list is bounded although several threads append to it without a
\* lock: it exceeds its limit only by blocks whose thread is still trimming
\* (chain.py:28-30, called from agent.py:234 by every thread).
BoundedMemory == Len(blocks) <= MaxBlocks + Cardinality(Trimming)

\* The test of the length and the pop are separate accesses, so threads may
\* pop more than the excess: by at most one block per other thread.  A pop
\* therefore never meets an empty list, which would raise out of _flush.
PopIsSafe ==
  \A t \in Popping : Len(blocks) + Cardinality(Threads) > MaxBlocks + Cardinality(Popping)

\* Both bounds of the block list under threads that trim it together.
TrimmingIsSafe == BoundedMemory /\ PopIsSafe

\* The hash get_signed_state offers to the peers (agent.py:135) is always
\* one this controller can account for: GENESIS, the hash of a block still in
\* memory, or of the block a thread is about to append.  (It needs a window of
\* at least 2n - 1 blocks for n threads; the code has 1000.)
HeadIsKnown ==
  \/ head = GENESIS
  \/ \E i \in 1 .. Len(blocks) : blocks[i].hash = head
  \/ \E t \in Threads : pc[t] \in {"load", "store", "append"} /\ frame[t].block.hash = head

\* The flushes that were called and have not counted their block yet, each by its
\* thread and its place among the calls of the thread, the last one first.
Owed(t) ==
  IF pc[t] \in {"append", "trim", "pop", "health", "publish", "failed"}
  THEN Len(todo[t]) - 1 ELSE Len(todo[t])
Uncounted == UNION {{t} \X (1 .. Owed(t)) : t \in Threads}

\* self.height += 1 is a load and a store without a lock: two adds may count once,
\* and a thread that stores late sets the height back.  It can only lose: no
\* flush counts twice, so the height peers are shown never runs ahead of the
\* flushes made, whatever is still under way (chain.py:27, agent.py:228).
NoFlushCountsTwice == height + Cardinality(Uncounted) <= adds

\* A thread with a statement left can execute it, whatever the others are in the
\* middle of: _flush and add hold no lock between two accesses (agent.py:223-273,
\* chain.py:20-31).  It holds by the form of the actions and is what the liveness
\* theorem takes from ENABLED, which the provers cannot evaluate.
NeverWaits == \A t \in Threads : Idle(t) \/ ENABLED <<Step(t)>>_vars

\* A thread that has still to judge the controller's health for a flush.
Unjudged(t) == todo[t] # << >> /\ pc[t] \notin {"publish", "failed"}

\* A controller that counted two HIGH alerts of its own is reported unhealthy
\* in the state file by every flush that has yet to judge it, the alert's own
\* and every later heartbeat's, unless the count is reset, the process dies, or
\* the signing or the write of that flush fails (agent.py:235-239, 283-284, 302).
\* A flush that judged before the second alert may still publish its stale
\* verdict last, until the next flush.
CompromiseIsPublished ==
  \A t \in Threads :
    (nAlert >= 2 /\ Unjudged(t))
      ~> (~ published \/ nAlert < 2 \/ pc[t] = "failed")

-----------------------------------------------------------------------------
(* As long as no two adds overlap, the statement-by-statement add is        *)
(* HashChain's add.  It takes effect at SetHead: from then on the chain is  *)
(* seen as completed.                                                       *)

AddsAt(places) == \E t \in Threads : pc[t] \in places
InFlight ==
  IF AddsAt({"load", "store", "append"})
  THEN <<frame[CHOOSE t \in Threads : pc[t] \in {"load", "store", "append"}].block>>
  ELSE << >>

AbsHeight == IF AddsAt({"load", "store"}) THEN height + 1 ELSE height
AbsBlocks == IF AddsAt({"pop"}) THEN Tail(blocks) ELSE Trim(blocks \o InFlight)

Chain == INSTANCE HashChain WITH
  height <- AbsHeight, blocks <- AbsBlocks, MaxHeight <- MaxAdds

\* Threads whose adds do not overlap implement the contract of the chain: every
\* statement of add is HashChain's add or changes nothing of the chain, whatever
\* the other threads alert, judge and publish meanwhile, whatever fails between
\* add and the state file, and across restarts.  Once two adds have overlapped
\* nothing is promised until the process is replaced (chain.py:20-31, called from
\* agent.py:234 without the lock).
ImplementsChain ==
  Chain!Init /\ [][calm' => [Chain!Next]_(Chain!chainVars)]_vars

\* So what the contract promises of memory is true of the threads' chain, too: it
\* holds the newest blocks, numbered without a gap and linked (chain.py:28-30).
WindowIsChain == calm => Chain!WindowIsChain

\* And a change of any block's state or link is noticed by verify_all, in
\* whichever statement of add the change falls (chain.py:4, test_chain.py:44-55).
TamperEvident == calm => Chain!TamperEvident

-----------------------------------------------------------------------------
(* What the documentation says, for several threads.                       *)

\* "assert self.chain.verify_all() is True" after nothing but adds
\* (tests/test_chain.py:39-42), and a verify_all that fails is the sign of
\* tampering (README.md:259): when no flush is under way and nothing was trimmed
\* yet, verify_all accepts.
ChainVerifies == Quiet /\ adds <= MaxBlocks => VerifyAll(blocks)
=============================================================================
