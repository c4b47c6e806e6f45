---------------------------- MODULE AgentProofs -----------------------------
(***************************************************************************)
(* Theorems about IntegrityAgent for every set of threads, every window    *)
(* size and every limit: the types of its variables, the bound on the      *)
(* block list, that no pop ever meets an empty list, that the head is      *)
(* always accounted for, that no flush counts twice, that adds which do    *)
(* not overlap implement HashChain's add and keep what it promises, and    *)
(* that a compromise is published.                                         *)
(***************************************************************************)
EXTENDS IntegrityAgent, SequenceTheorems, FiniteSetTheorems, TLAPS

-----------------------------------------------------------------------------
(* The calls.                                                              *)

LEMMA FlushIsCall == Flush \in Calls
BY DEF Flush, Alert, Calls

LEMMA SingleType ==
  ASSUME NEW call \in Calls
  PROVE  <<call>> \in Seq(Calls)
OBVIOUS

LEMMA WhenType ==
  ASSUME NEW cond, NEW call \in Calls
  PROVE  When(cond, call) \in Seq(Calls)
<1>1. CASE cond
  BY <1>1, SingleType DEF When
<1>2. CASE ~ cond
  BY <1>2 DEF When
<1> QED  BY <1>1, <1>2

LEMMA BeginType ==
  ASSUME TypeOK, NEW t \in Threads, NEW calls \in Seq(Calls), Begin(t, calls)
  PROVE  /\ todo' \in [Threads -> Seq(Calls)]
         /\ adds' \in 0 .. MaxAdds
         /\ UNCHANGED <<chain, phase, published, pc, frame, calm>>
<1>1. Len(calls) \in Nat
  BY LenProperties
<1> QED  BY <1>1, AgentAssumption DEF Begin, TypeOK

-----------------------------------------------------------------------------
(* Type correctness.                                                       *)

LEMMA OperationType ==
  ASSUME TypeOK, NEW t \in Threads, Operation(t)
  PROVE  TypeOK'
<1> USE AgentAssumption
<1>1. ASSUME NEW calls \in Seq(Calls), Begin(t, calls),
             nAlert' \in Nat, nPkt' \in 0 .. PktEvery - 1,
             pktWin' \in 0 .. PpsLimit + 1, flowWin' \in 0 .. FlowLimit + 1
      PROVE  TypeOK'
  <2>1. /\ todo' \in [Threads -> Seq(Calls)]
        /\ adds' \in 0 .. MaxAdds
        /\ UNCHANGED <<chain, phase, published, pc, frame, calm>>
    BY <1>1, BeginType
  <2> QED  BY <1>1, <2>1 DEF TypeOK, chain
<1>2. <<Flush>> \in Seq(Calls)
  BY FlushIsCall, SingleType
<1>3. CASE SwitchEvent(t)
  BY <1>1, <1>2, <1>3 DEF SwitchEvent, load, TypeOK
<1>4. CASE PacketIn(t)
  <2>1. PICK w \in 1 .. pktWin + 1, odd \in BOOLEAN :
          /\ w <= PpsLimit + 1
          /\ pktWin' = w
          /\ nPkt' = (nPkt + 1) % PktEvery
          /\ Begin(t, When(w > PpsLimit, Alert("FLOOD", TRUE, "HIGH"))
                   \o When(odd, Alert("FLOOD", TRUE, "MEDIUM"))
                   \o When(nPkt' = 0, Flush))
          /\ UNCHANGED <<nAlert, flowWin>>
    BY <1>4 DEF PacketIn
  <2>2. /\ Alert("FLOOD", TRUE, "HIGH") \in Calls
        /\ Alert("FLOOD", TRUE, "MEDIUM") \in Calls
    BY DEF Alert, Calls, AlertTypes
  <2> DEFINE a == When(w > PpsLimit, Alert("FLOOD", TRUE, "HIGH"))
             b == When(odd, Alert("FLOOD", TRUE, "MEDIUM"))
             c == When(nPkt' = 0, Flush)
             calls == a \o b \o c
  <2>3. a \in Seq(Calls) /\ b \in Seq(Calls) /\ c \in Seq(Calls)
    BY <2>2, FlushIsCall, WhenType
  <2>4. calls \in Seq(Calls) /\ Begin(t, calls)
    BY <2>1, <2>3, ConcatProperties
  <2>5. nPkt' \in 0 .. PktEvery - 1
    BY <2>1 DEF TypeOK
  <2>6. pktWin' \in 0 .. PpsLimit + 1
    BY <2>1 DEF TypeOK
  <2>7. nAlert' \in Nat /\ flowWin' \in 0 .. FlowLimit + 1
    BY <2>1 DEF TypeOK
  <2> HIDE DEF calls
  <2> QED  BY <1>1, <2>4, <2>5, <2>6, <2>7
<1>5. CASE FlowAdd(t)
  <2>1. PICK w \in 1 .. flowWin + 1 :
          /\ w <= FlowLimit + 1
          /\ flowWin' = w
          /\ Begin(t, When(w > FlowLimit, Alert("FLOW_INJECT", TRUE, "HIGH")) \o <<Flush>>)
          /\ UNCHANGED <<nAlert, nPkt, pktWin>>
    BY <1>5 DEF FlowAdd
  <2>2. Alert("FLOW_INJECT", TRUE, "HIGH") \in Calls
    BY DEF Alert, Calls, AlertTypes
  <2> DEFINE a == When(w > FlowLimit, Alert("FLOW_INJECT", TRUE, "HIGH"))
             calls == a \o <<Flush>>
  <2>3. a \in Seq(Calls)
    BY <2>2, WhenType
  <2>4. calls \in Seq(Calls) /\ Begin(t, calls)
    BY <1>2, <2>1, <2>3, ConcatProperties
  <2>5. flowWin' \in 0 .. FlowLimit + 1
    BY <2>1 DEF TypeOK
  <2>6. nAlert' \in Nat /\ nPkt' \in 0 .. PktEvery - 1 /\ pktWin' \in 0 .. PpsLimit + 1
    BY <2>1 DEF TypeOK
  <2> HIDE DEF calls
  <2> QED  BY <1>1, <2>4, <2>5, <2>6
<1>6. CASE Heartbeat(t)
  BY <1>1, <1>2, <1>6 DEF Heartbeat, load, TypeOK
<1>7. CASE AccusePeer(t)
  <2>1. <<Alert("PEER", FALSE, "HIGH")>> \in Seq(Calls)
    BY SingleType DEF Alert, Calls, AlertTypes
  <2> QED  BY <1>1, <1>7, <2>1 DEF AccusePeer, load, TypeOK
<1>8. CASE CheckChain(t)
  <2>1. <<Alert("HASH_MISMATCH", TRUE, "HIGH")>> \in Seq(Calls)
    BY SingleType DEF Alert, Calls, AlertTypes
  <2> QED  BY <1>1, <1>8, <2>1 DEF CheckChain, load, TypeOK
<1>9. CASE ResetAlerts(t)
  BY <1>1, <1>2, <1>9 DEF ResetAlerts, load, TypeOK
<1> QED  BY <1>3, <1>4, <1>5, <1>6, <1>7, <1>8, <1>9 DEF Operation, RyuHandler

LEMMA FrameType ==
  ASSUME TypeOK, NEW t \in Threads
  PROVE  /\ frame[t] \in [block : Block(Snapshots), count : Nat, healthy : BOOLEAN]
         /\ frame[t].block \in Block(Snapshots)
         /\ frame[t].block.hash \in Seq(Snapshots)
         /\ frame[t].block.idx \in Nat
BY DEF TypeOK, Block

LEMMA NoFrameType ==
  NoFrame \in [block : Block(Snapshots), count : Nat, healthy : BOOLEAN]
BY DEF NoFrame, Block, Snapshots, Threads, GENESIS

LEMMA GotoType ==
  ASSUME TypeOK, NEW t \in Threads, NEW from, NEW to \in Positions, Goto(t, from, to)
  PROVE  pc' \in [Threads -> Positions]
BY DEF Goto, TypeOK

\* A thread that is inside _flush has that flush first on its list.
OwesFlush == \A t \in Threads : pc[t] # "idle" => todo[t] # << >>

LEMMA SetFacts ==
  /\ IsFiniteSet(Threads) /\ Cardinality(Threads) \in Nat
  /\ IsFiniteSet(Popping) /\ Cardinality(Popping) \in Nat
  /\ Cardinality(Popping) <= Cardinality(Threads)
  /\ IsFiniteSet(Trimming) /\ Cardinality(Trimming) \in Nat
BY AgentAssumption, FS_Subset, FS_CardinalityType DEF Popping, Trimming

\* A thread about to pop finds a block to pop.
LEMMA PopMeetsBlock ==
  ASSUME TypeOK, PopIsSafe, NEW t \in Threads, pc[t] = "pop"
  PROVE  blocks # << >>
<1>1. t \in Popping /\ Cardinality(Popping) # 0
  BY SetFacts, FS_EmptySet DEF Popping
<1>2. Len(blocks) + Cardinality(Threads) > MaxBlocks + Cardinality(Popping)
  BY <1>1 DEF PopIsSafe
<1>3. Len(blocks) > 0
  BY <1>1, <1>2, SetFacts, AgentAssumption, MaxBlocksAssumption, LenProperties DEF TypeOK
<1> QED  BY <1>3

LEMMA StepType ==
  ASSUME TypeOK, OwesFlush, PopIsSafe, NEW t \in Threads, Step(t)
  PROVE  TypeOK'
<1> DEFINE Frames == [block : Block(Snapshots), count : Nat, healthy : BOOLEAN]
<1>0. frame[t] \in Frames /\ frame \in [Threads -> Frames]
  BY FrameType DEF TypeOK
<1>1. CASE RaiseAlert(t)
  <2>1. todo[t] \in Seq(Calls) /\ todo[t] # << >>
    BY <1>1 DEF RaiseAlert, TypeOK
  <2>2. Tail(todo[t]) \in Seq(Calls) /\ <<Flush>> \in Seq(Calls)
    BY <2>1, HeadTailProperties, SingleType, FlushIsCall
  <2>3. <<Flush>> \o Tail(todo[t]) \in Seq(Calls)
    BY <2>2, ConcatProperties
  <2>4. todo' \in [Threads -> Seq(Calls)] /\ nAlert' \in Nat
    BY <1>1, <2>3 DEF RaiseAlert, TypeOK
  <2> QED  BY <1>1, <2>4 DEF RaiseAlert, TypeOK, chain, load
<1>2. CASE ComputeHash(t)
  <2>1. Digest(t, head) \in Seq(Snapshots) /\ t \in Snapshots
    BY AppendProperties DEF Digest, Snapshots, TypeOK
  <2>2. frame' \in [Threads -> Frames]
    BY <1>0, <1>2, <2>1 DEF ComputeHash, Block
  <2>3. pc' \in [Threads -> Positions]
    BY <1>2, GotoType DEF ComputeHash, Positions, AddPositions
  <2>4. calm' \in BOOLEAN
    BY <1>2 DEF ComputeHash
  <2> QED  BY <1>2, <2>2, <2>3, <2>4 DEF ComputeHash, TypeOK, chain, load
<1>3. CASE BuildBlock(t)
  <2>1. frame' \in [Threads -> Frames]
    BY <1>0, <1>3 DEF BuildBlock, Block, TypeOK
  <2>2. pc' \in [Threads -> Positions]
    BY <1>3, GotoType DEF BuildBlock, Positions, AddPositions
  <2> QED  BY <1>3, <2>1, <2>2 DEF BuildBlock, TypeOK, chain, load
<1>12. CASE LinkBlock(t)
  <2>1. frame' \in [Threads -> Frames]
    BY <1>0, <1>12 DEF LinkBlock, Block, TypeOK
  <2>2. pc' \in [Threads -> Positions]
    BY <1>12, GotoType DEF LinkBlock, Positions, AddPositions
  <2> QED  BY <1>12, <2>1, <2>2 DEF LinkBlock, TypeOK, chain, load
<1>4. CASE SetHead(t)
  <2>1. head' \in Seq(Snapshots)
    BY <1>4, FrameType DEF SetHead
  <2>2. pc' \in [Threads -> Positions]
    BY <1>4, GotoType DEF SetHead, Positions, AddPositions
  <2> QED  BY <1>4, <2>1, <2>2 DEF SetHead, TypeOK, load
<1>5. CASE LoadHeight(t)
  <2>1. frame' \in [Threads -> Frames]
    BY <1>0, <1>5 DEF LoadHeight, TypeOK
  <2>2. pc' \in [Threads -> Positions]
    BY <1>5, GotoType DEF LoadHeight, Positions, AddPositions
  <2> QED  BY <1>5, <2>1, <2>2 DEF LoadHeight, TypeOK, chain, load
<1>6. CASE StoreHeight(t)
  <2>0. frame[t].count \in Nat
    BY <1>0
  <2>1. frame' \in [Threads -> Frames] /\ height' \in Nat
    <3>1. frame' = [frame EXCEPT ![t] = [@ EXCEPT !.count = 0]]
      BY <1>6 DEF StoreHeight
    <3>2. [frame[t] EXCEPT !.count = 0] \in Frames
      BY <1>0
    <3> QED  BY <1>0, <1>6, <2>0, <3>1, <3>2 DEF StoreHeight
  <2>2. pc' \in [Threads -> Positions]
    BY <1>6, GotoType DEF StoreHeight, Positions, AddPositions
  <2> QED  BY <1>6, <2>1, <2>2 DEF StoreHeight, TypeOK, load
<1>7. CASE AppendBlock(t)
  <2>1. blocks' \in Seq(Block(Snapshots))
    BY <1>7, FrameType, AppendProperties DEF AppendBlock, TypeOK
  <2>2. pc' \in [Threads -> Positions]
    BY <1>7, GotoType DEF AppendBlock, Positions, AddPositions
  <2>3. frame' \in [Threads -> Frames]
    BY <1>0, <1>7, NoFrameType DEF AppendBlock
  <2> QED  BY <1>7, <2>1, <2>2, <2>3 DEF AppendBlock, TypeOK, load
<1>8. CASE TestLength(t)
  <2>1. pc' \in [Threads -> Positions]
    BY <1>8, GotoType DEF TestLength, Positions, AddPositions
  <2> QED  BY <1>8, <2>1 DEF TestLength, TypeOK, chain, load
<1>9. CASE JudgeHealth(t)
  <2>1. (nAlert < 2 /\ VerifyAll(blocks)) \in BOOLEAN
    OBVIOUS
  <2>2. frame' \in [Threads -> Frames]
    BY <1>0, <1>9, <2>1 DEF JudgeHealth
  <2>3. pc' \in [Threads -> Positions]
    BY <1>9, GotoType DEF JudgeHealth, Positions
  <2> QED  BY <1>9, <2>2, <2>3 DEF JudgeHealth, TypeOK, chain, load
<1>10. ASSUME NEW from \in Positions \ {"idle"}, Return(t, from), published' \in BOOLEAN
       PROVE  TypeOK'
  <2>1. todo[t] \in Seq(Calls) /\ todo[t] # << >>
    BY <1>10 DEF Return, Goto, TypeOK, OwesFlush
  <2>2. todo' \in [Threads -> Seq(Calls)]
    BY <1>10, <2>1, HeadTailProperties DEF Return, TypeOK
  <2>3. frame' \in [Threads -> Frames]
    BY <1>0, <1>10, NoFrameType DEF Return
  <2>4. pc' \in [Threads -> Positions]
    BY <1>10, GotoType DEF Return, Positions
  <2> QED  BY <1>10, <2>2, <2>3, <2>4 DEF Return, TypeOK, chain, load
<1>13. CASE Publish(t)
  BY <1>0, <1>10, <1>13 DEF Publish, Positions
<1>14. CASE LogFailure(t)
  BY <1>10, <1>14 DEF LogFailure, Positions, TypeOK
<1>15. CASE FailWrite(t)
  <2>1. frame' \in [Threads -> Frames]
    BY <1>0, <1>15, NoFrameType DEF FailWrite
  <2>2. pc' \in [Threads -> Positions]
    BY <1>15, GotoType DEF FailWrite, Positions
  <2> QED  BY <1>15, <2>1, <2>2 DEF FailWrite, TypeOK, chain, load
<1>16. CASE RaiseInSign(t)
  <2>1. <<Flush>> \in Seq(Calls)
    BY SingleType, FlushIsCall
  <2>2. todo' \in [Threads -> Seq(Calls)]
    BY <1>16, <2>1 DEF RaiseInSign, TypeOK
  <2>3. pc' \in [Threads -> Positions]
    BY <1>16, GotoType DEF RaiseInSign, Positions
  <2> QED  BY <1>16, <2>2, <2>3 DEF RaiseInSign, TypeOK, chain, load
<1>11. CASE PopOldest(t)
  <2>1. blocks # << >>
    BY <1>11, PopMeetsBlock DEF PopOldest, Goto
  <2>2. blocks' \in Seq(Block(Snapshots))
    BY <1>11, <2>1, HeadTailProperties DEF PopOldest, TypeOK
  <2>3. pc' \in [Threads -> Positions]
    BY <1>11, GotoType DEF PopOldest, Positions, AddPositions
  <2> QED  BY <1>11, <2>2, <2>3 DEF PopOldest, TypeOK, load
<1> QED  BY <1>1, <1>2, <1>3, <1>4, <1>5, <1>6, <1>7, <1>8, <1>9, <1>11, <1>12, <1>13, <1>14,
            <1>15, <1>16 DEF Step

LEMMA NextType ==
  ASSUME TypeOK, OwesFlush, PopIsSafe, [Next]_vars
  PROVE  TypeOK'
<1>1. CASE Age
  BY <1>1 DEF Age, TypeOK, Phases, chain, load
<1>2. CASE Restart
  <2>1. <<Flush>> \in Seq(Calls) /\ << >> \in Seq(Calls) /\ << >> \in Seq(Block(Snapshots))
    BY FlushIsCall, SingleType
  <2>2. todo' \in [Threads -> Seq(Calls)] /\ pc' \in [Threads -> Positions]
    BY <1>2, <2>1 DEF Restart, Positions
  <2> QED  BY <1>2, <2>1, <2>2, NoFrameType, AgentAssumption
           DEF Restart, TypeOK, GENESIS, Phases
<1>3. CASE UNCHANGED vars
  BY <1>3 DEF vars, TypeOK, chain, load
<1> QED  BY <1>1, <1>2, <1>3, OperationType, StepType DEF Next

-----------------------------------------------------------------------------
(* Every position but "idle" belongs to a flush that is still on the list. *)

LEMMA NextOwesFlush ==
  ASSUME TypeOK, OwesFlush, [Next]_vars
  PROVE  OwesFlush'
<1>1. ASSUME NEW t \in Threads, Operation(t) PROVE OwesFlush'
  <2>1. PICK calls : Begin(t, calls)
    BY <1>1 DEF Operation, RyuHandler, SwitchEvent, PacketIn, FlowAdd, Heartbeat, AccusePeer,
                CheckChain, ResetAlerts
  <2> QED  BY <2>1 DEF Begin, Idle, OwesFlush, TypeOK
<1>2. ASSUME NEW t \in Threads, Step(t) PROVE OwesFlush'
  <2>1. CASE RaiseAlert(t)
    BY <2>1 DEF RaiseAlert, OwesFlush, TypeOK
  <2>2. CASE ComputeHash(t)
    BY <2>2 DEF ComputeHash, Goto, OwesFlush, TypeOK
  <2>3. CASE Publish(t) \/ LogFailure(t)
    BY <2>3 DEF Publish, LogFailure, Return, Goto, OwesFlush, TypeOK
  <2>7. CASE RaiseInSign(t)
    BY <2>7 DEF RaiseInSign, Goto, OwesFlush, TypeOK
  <2>4. ASSUME NEW from \in Positions \ {"idle"}, NEW to, Goto(t, from, to), UNCHANGED todo
        PROVE  OwesFlush'
    BY <2>4 DEF Goto, OwesFlush, TypeOK
  <2>5. CASE \/ BuildBlock(t) \/ LinkBlock(t) \/ SetHead(t) \/ LoadHeight(t)
             \/ StoreHeight(t) \/ AppendBlock(t)
    BY <2>4, <2>5 DEF BuildBlock, LinkBlock, SetHead, LoadHeight, StoreHeight, AppendBlock,
                      Positions, AddPositions
  <2>6. CASE TestLength(t) \/ PopOldest(t) \/ JudgeHealth(t) \/ FailWrite(t)
    BY <2>4, <2>6 DEF TestLength, PopOldest, JudgeHealth, FailWrite, Positions, AddPositions
  <2> QED  BY <1>2, <2>1, <2>2, <2>3, <2>5, <2>6, <2>7 DEF Step
<1>3. CASE Age
  BY <1>3 DEF Age, OwesFlush
<1>4. CASE Restart
  BY <1>4 DEF Restart, OwesFlush
<1>5. CASE UNCHANGED vars
  BY <1>5 DEF vars, OwesFlush
<1> QED  BY <1>1, <1>2, <1>3, <1>4, <1>5 DEF Next

-----------------------------------------------------------------------------
(* The length of the block list.                                           *)

LEMMA NextBounded ==
  ASSUME TypeOK, OwesFlush, BoundedMemory, PopIsSafe, [Next]_vars
  PROVE  BoundedMemory' /\ PopIsSafe'
<1> DEFINE N == Cardinality(Threads)
<1>0. /\ N \in Nat /\ N <= MaxBlocks /\ MaxBlocks \in Nat /\ Len(blocks) \in Nat
      /\ IsFiniteSet(Trimming) /\ Cardinality(Trimming) \in Nat
      /\ IsFiniteSet(Popping) /\ Cardinality(Popping) \in Nat
      /\ Cardinality(Popping') \in Nat /\ Cardinality(Popping') <= N
      /\ Cardinality(Trimming') \in Nat
  <2>1. /\ Cardinality(Popping') \in Nat /\ Cardinality(Popping') <= N
        /\ Cardinality(Trimming') \in Nat
    BY AgentAssumption, FS_Subset, FS_CardinalityType DEF Popping, Trimming
  <2> QED  BY <2>1, SetFacts, AgentAssumption, MaxBlocksAssumption, LenProperties DEF TypeOK
<1> HIDE DEF N
<1>1. ASSUME UNCHANGED blocks, Trimming' = Trimming, Popping' = Popping
      PROVE  BoundedMemory' /\ PopIsSafe'
  BY <1>1 DEF BoundedMemory, PopIsSafe
<1>2. ASSUME NEW t \in Threads, Operation(t) PROVE BoundedMemory' /\ PopIsSafe'
  <2>1. UNCHANGED <<blocks, pc>>
    BY <1>2 DEF Operation, RyuHandler, SwitchEvent, PacketIn, FlowAdd, Heartbeat, AccusePeer,
                CheckChain, ResetAlerts, Begin, chain
  <2> QED  BY <1>1, <2>1 DEF Trimming, Popping
<1>3. ASSUME NEW t \in Threads, Step(t) PROVE BoundedMemory' /\ PopIsSafe'
  <2>1. CASE RaiseAlert(t)
    BY <1>1, <2>1 DEF RaiseAlert, chain, Trimming, Popping
  <2>2. ASSUME NEW from \in Positions \ {"trim", "pop"}, NEW to \in Positions \ {"trim", "pop"},
               Goto(t, from, to), UNCHANGED blocks
        PROVE  BoundedMemory' /\ PopIsSafe'
    BY <1>1, <2>2 DEF Goto, Trimming, Popping, TypeOK
  <2>3. CASE \/ ComputeHash(t) \/ BuildBlock(t) \/ LinkBlock(t) \/ SetHead(t)
             \/ LoadHeight(t) \/ StoreHeight(t)
    BY <2>2, <2>3 DEF ComputeHash, BuildBlock, LinkBlock, SetHead, LoadHeight, StoreHeight,
                      Positions, AddPositions, chain
  <2>8. CASE \/ RaiseInSign(t) \/ JudgeHealth(t) \/ Publish(t) \/ FailWrite(t)
             \/ LogFailure(t)
    BY <2>2, <2>8 DEF RaiseInSign, JudgeHealth, Publish, FailWrite, LogFailure, Return,
                      Positions, chain
  <2>4. CASE AppendBlock(t)
    <3>1. Len(blocks') = Len(blocks) + 1
      BY <2>4, FrameType, AppendProperties DEF AppendBlock, TypeOK
    <3>2. Trimming' = Trimming \cup {t} /\ t \notin Trimming /\ Popping' = Popping
      BY <2>4 DEF AppendBlock, Goto, Trimming, Popping, TypeOK
    <3>3. Cardinality(Trimming') = Cardinality(Trimming) + 1
      BY <1>0, <3>2, FS_AddElement
    <3> QED  BY <1>0, <3>1, <3>2, <3>3 DEF BoundedMemory, PopIsSafe, N
  <2>5. CASE TestLength(t) /\ Len(blocks) > MaxBlocks
    <3>1. UNCHANGED blocks /\ Trimming' = Trimming
      BY <2>5 DEF TestLength, Goto, chain, Trimming, TypeOK
    <3> QED  BY <1>0, <2>5, <3>1 DEF BoundedMemory, PopIsSafe, N
  <2>6. CASE TestLength(t) /\ ~ (Len(blocks) > MaxBlocks)
    <3>1. UNCHANGED blocks /\ Popping' = Popping
      BY <2>6 DEF TestLength, Goto, chain, Popping, TypeOK
    <3> QED  BY <1>0, <2>6, <3>1 DEF BoundedMemory, PopIsSafe
  <2>7. CASE PopOldest(t)
    <3>1. blocks # << >>
      BY <2>7, PopMeetsBlock DEF PopOldest, Goto
    <3>2. Len(blocks') = Len(blocks) - 1
      BY <2>7, <3>1, HeadTailProperties DEF PopOldest, TypeOK
    <3>3. /\ Trimming' = Trimming \ {t} /\ t \in Trimming
          /\ Popping' = Popping \ {t} /\ t \in Popping
      BY <2>7 DEF PopOldest, Goto, Trimming, Popping, TypeOK
    <3>4. /\ Cardinality(Trimming') = Cardinality(Trimming) - 1
          /\ Cardinality(Popping') = Cardinality(Popping) - 1
      BY <1>0, <3>3, FS_RemoveElement
    <3> QED  BY <1>0, <3>2, <3>3, <3>4 DEF BoundedMemory, PopIsSafe, N
  <2> QED  BY <1>3, <2>1, <2>3, <2>4, <2>5, <2>6, <2>7, <2>8 DEF Step
<1>4. CASE Age
  BY <1>1, <1>4 DEF Age, chain, Trimming, Popping
<1>5. CASE Restart
  <2>1. blocks' = << >> /\ Trimming' = {} /\ Popping' = {}
    BY <1>5 DEF Restart, Trimming, Popping
  <2> QED  BY <1>0, <2>1 DEF BoundedMemory, PopIsSafe
<1>6. CASE UNCHANGED vars
  BY <1>1, <1>6 DEF vars, chain, Trimming, Popping
<1> QED  BY <1>2, <1>3, <1>4, <1>5, <1>6 DEF Next

-----------------------------------------------------------------------------
(* The theorems.  The four facts are inductive together: a pop keeps the   *)
(* type of the list because the list is not empty, and a flush that ends   *)
(* leaves the list of calls because it is on it.                           *)

AgentInv == TypeOK /\ OwesFlush /\ BoundedMemory /\ PopIsSafe

LEMMA InitInv == Init => AgentInv
<1> SUFFICES ASSUME Init PROVE AgentInv
  OBVIOUS
<1>1. TypeOK
  <2>1. <<Flush>> \in Seq(Calls) /\ << >> \in Seq(Calls)
    BY FlushIsCall, SingleType
  <2>2. todo \in [Threads -> Seq(Calls)] /\ pc \in [Threads -> Positions]
    BY <2>1 DEF Init, Positions
  <2>3. frame \in [Threads -> [block : Block(Snapshots), count : Nat, healthy : BOOLEAN]]
    BY NoFrameType DEF Init
  <2>4. head \in Seq(Snapshots) /\ blocks \in Seq(Block(Snapshots))
    BY DEF Init, GENESIS
  <2>7. published \in BOOLEAN /\ calm \in BOOLEAN
    BY DEF Init
  <2>5. /\ PktEvery \in Nat /\ PktEvery # 0 /\ MaxAdds \in Nat /\ MaxAdds # 0
        /\ PpsLimit \in Nat /\ FlowLimit \in Nat
    BY AgentAssumption
  <2>6. /\ nPkt \in 0 .. PktEvery - 1 /\ adds \in 0 .. MaxAdds
        /\ pktWin \in 0 .. PpsLimit + 1 /\ flowWin \in 0 .. FlowLimit + 1
        /\ nAlert \in Nat /\ height \in Nat /\ phase \in Phases
    BY <2>5 DEF Init, Phases
  <2> QED  BY <2>2, <2>3, <2>4, <2>6, <2>7 DEF TypeOK
<1>2. OwesFlush
  BY DEF Init, OwesFlush
<1>3. Trimming = {} /\ Popping = {} /\ Len(blocks) = 0
  BY DEF Init, Trimming, Popping
<1>4. BoundedMemory /\ PopIsSafe
  BY <1>3, FS_EmptySet, MaxBlocksAssumption DEF BoundedMemory, PopIsSafe
<1> QED  BY <1>1, <1>2, <1>4 DEF AgentInv

LEMMA NextInv == AgentInv /\ [Next]_vars => AgentInv'
BY NextType, NextOwesFlush, NextBounded DEF AgentInv

\* Every attribute and every local of the threads keeps its type.
THEOREM AgentTypeCorrect == Spec => []TypeOK
<1>1. AgentInv => TypeOK
  BY DEF AgentInv
<1> QED  BY <1>1, InitInv, NextInv, PTL DEF Spec

\* However many threads append to the block list without a lock, it holds at
\* most MaxBlocks blocks more than there are threads still trimming
\* (integrity/chain.py:28-30).
THEOREM MemoryIsBounded == Spec => []BoundedMemory
<1>1. AgentInv => BoundedMemory
  BY DEF AgentInv
<1> QED  BY <1>1, InitInv, NextInv, PTL DEF Spec

\* No pop meets an empty list as long as there are no more threads than
\* blocks in a full window (integrity/chain.py:29-30).
THEOREM PopsAreSafe == Spec => []PopIsSafe
<1>1. AgentInv => PopIsSafe
  BY DEF AgentInv
<1> QED  BY <1>1, InitInv, NextInv, PTL DEF Spec

\* Both bounds hold together, for any number of threads up to the window's size
\* (integrity/chain.py:28-30).
THEOREM TrimmingIsAlwaysSafe == Spec => []TrimmingIsSafe
BY MemoryIsBounded, PopsAreSafe, PTL DEF TrimmingIsSafe

-----------------------------------------------------------------------------
(* The head.  A block that has the head's hash is followed only by blocks  *)
(* of threads that set their head before its own thread did, one of each:  *)
(* a thread that enters add later takes the head over.                     *)

InAdd == {t \in Threads : pc[t] \in {"load", "store", "append"}}

HeadKept ==
  \/ head = GENESIS
  \/ \E t \in InAdd : frame[t].block.hash = head
  \/ \E i \in 1 .. Len(blocks) :
       /\ blocks[i].hash = head
       /\ Len(blocks) - i + Cardinality(InAdd) <= Cardinality(Threads) - 1

\* The window holds every thread's block and one block of each of the others.
WideWindow == 2 * Cardinality(Threads) - 1 <= MaxBlocks

LEMMA InAddFacts ==
  /\ IsFiniteSet(InAdd) /\ Cardinality(InAdd) \in Nat
  /\ Cardinality(InAdd) <= Cardinality(Threads) /\ Cardinality(Threads) \in Nat
BY AgentAssumption, FS_Subset, FS_CardinalityType DEF InAdd

LEMMA HeadSame ==
  ASSUME HeadKept, UNCHANGED <<head, blocks>>, InAdd' = InAdd,
         \A t \in InAdd : frame'[t].block.hash = frame[t].block.hash
  PROVE  HeadKept'
BY DEF HeadKept

LEMMA HeadAppend ==
  ASSUME TypeOK, HeadKept, NEW t \in Threads, AppendBlock(t)
  PROVE  HeadKept'
<1> DEFINE n == Len(blocks)
           k == Cardinality(InAdd)
<1>1. /\ head' = head
      /\ \A u \in Threads \ {t} : frame'[u] = frame[u]
      /\ blocks' = Append(blocks, frame[t].block)
  BY DEF AppendBlock, TypeOK
<1>2. /\ n \in Nat /\ Len(blocks') = n + 1
      /\ \A i \in 1 .. n : blocks'[i] = blocks[i]
      /\ blocks'[n + 1] = frame[t].block
  BY <1>1, FrameType, AppendProperties, LenProperties DEF TypeOK
<1>3. t \in InAdd /\ InAdd' = InAdd \ {t}
  BY DEF AppendBlock, Goto, InAdd, TypeOK
<1>4. k \in Nat /\ Cardinality(InAdd') = k - 1 /\ k <= Cardinality(Threads)
      /\ Cardinality(Threads) \in Nat
  BY <1>3, InAddFacts, FS_RemoveElement
<1> HIDE DEF n, k
<1>5. CASE head = GENESIS
  BY <1>1, <1>5 DEF HeadKept
<1>6. CASE \E u \in InAdd : frame[u].block.hash = head
  <2>1. PICK u \in InAdd : frame[u].block.hash = head
    BY <1>6
  <2>2. CASE u = t
    <3>1. /\ n + 1 \in 1 .. Len(blocks') /\ blocks'[n + 1].hash = head'
          /\ Len(blocks') - (n + 1) + Cardinality(InAdd') <= Cardinality(Threads) - 1
      BY <1>1, <1>2, <1>4, <2>1, <2>2
    <3> QED  BY <3>1 DEF HeadKept
  <2>3. CASE u # t
    <3>1. u \in Threads \ {t} /\ u \in InAdd'
      BY <1>3, <2>1, <2>3 DEF InAdd
    <3> QED  BY <1>1, <2>1, <3>1 DEF HeadKept
  <2> QED  BY <2>2, <2>3
<1>7. CASE \E i \in 1 .. n : blocks[i].hash = head /\ n - i + k <= Cardinality(Threads) - 1
  <2>1. PICK i \in 1 .. n : blocks[i].hash = head /\ n - i + k <= Cardinality(Threads) - 1
    BY <1>7
  <2>2. /\ i \in 1 .. Len(blocks') /\ blocks'[i].hash = head'
        /\ Len(blocks') - i + Cardinality(InAdd') <= Cardinality(Threads) - 1
    BY <1>1, <1>2, <1>4, <2>1
  <2> QED  BY <2>2 DEF HeadKept
<1> QED  BY <1>5, <1>6, <1>7 DEF HeadKept, n, k

\* A pop takes a block that the head's block is well behind.
LEMMA HeadPop ==
  ASSUME TypeOK, PopIsSafe, HeadKept, WideWindow, NEW t \in Threads, PopOldest(t)
  PROVE  HeadKept'
<1> DEFINE n == Len(blocks)
           k == Cardinality(InAdd)
<1>0. pc[t] = "pop" /\ blocks # << >>
  BY PopMeetsBlock DEF PopOldest, Goto
<1>1. head' = head /\ frame' = frame /\ blocks' = Tail(blocks)
  BY DEF PopOldest
<1>2. /\ n \in Nat /\ Len(blocks') = n - 1
      /\ \A i \in 1 .. n - 1 : blocks'[i] = blocks[i + 1]
  BY <1>0, <1>1, HeadTailProperties, LenProperties DEF TypeOK
<1>3. InAdd' = InAdd
  BY DEF PopOldest, Goto, InAdd, TypeOK
<1>4. n + Cardinality(Threads) > MaxBlocks + 1
  <2>1. t \in Popping /\ Cardinality(Popping) # 0 /\ Cardinality(Popping) \in Nat
    BY <1>0, SetFacts, FS_EmptySet DEF Popping
  <2>2. n + Cardinality(Threads) > MaxBlocks + Cardinality(Popping)
    BY <2>1 DEF PopIsSafe
  <2> QED  BY <1>2, <2>1, <2>2, InAddFacts, MaxBlocksAssumption
<1>5. k \in Nat /\ Cardinality(Threads) \in Nat /\ 2 * Cardinality(Threads) - 1 <= MaxBlocks
      /\ MaxBlocks \in Nat
  BY InAddFacts, MaxBlocksAssumption DEF WideWindow
<1> HIDE DEF n, k
<1>6. CASE head = GENESIS \/ \E u \in InAdd : frame[u].block.hash = head
  BY <1>1, <1>3, <1>6 DEF HeadKept
<1>7. CASE \E i \in 1 .. n : blocks[i].hash = head /\ n - i + k <= Cardinality(Threads) - 1
  <2>1. PICK i \in 1 .. n : blocks[i].hash = head /\ n - i + k <= Cardinality(Threads) - 1
    BY <1>7
  <2>2. i >= 2
    BY <1>2, <1>4, <1>5, <2>1
  <2>3. i - 1 \in 1 .. n - 1 /\ (i - 1) + 1 = i
    BY <1>2, <2>1, <2>2
  <2>4. blocks'[i - 1] = blocks[i]
    BY <1>2, <2>3
  <2>5. /\ i - 1 \in 1 .. Len(blocks') /\ blocks'[i - 1].hash = head'
        /\ Len(blocks') - (i - 1) + Cardinality(InAdd') <= Cardinality(Threads) - 1
    BY <1>1, <1>2, <1>3, <2>1, <2>3, <2>4 DEF k
  <2> QED  BY <2>5 DEF HeadKept
<1> QED  BY <1>6, <1>7 DEF HeadKept, n, k

LEMMA NextHead ==
  ASSUME AgentInv, HeadKept, WideWindow, [Next]_vars
  PROVE  HeadKept'
<1>0. TypeOK /\ PopIsSafe
  BY DEF AgentInv
<1>1. ASSUME NEW t \in Threads, Operation(t) PROVE HeadKept'
  <2>1. UNCHANGED <<head, blocks, pc, frame>>
    BY <1>1 DEF Operation, RyuHandler, SwitchEvent, PacketIn, FlowAdd, Heartbeat, AccusePeer,
                CheckChain, ResetAlerts, Begin, chain
  <2> QED  BY <2>1, HeadSame DEF InAdd
<1>2. ASSUME NEW t \in Threads, Step(t) PROVE HeadKept'
  <2>0. \A u \in InAdd : u \in Threads
    BY DEF InAdd
  <2>1. CASE RaiseAlert(t)
    BY <2>1, HeadSame DEF RaiseAlert, chain, InAdd
  <2>2. CASE TestLength(t) \/ RaiseInSign(t)
    <3>1. InAdd' = InAdd /\ UNCHANGED <<head, blocks, frame>>
      BY <1>0, <2>2 DEF TestLength, RaiseInSign, Goto, InAdd, TypeOK, chain
    <3> QED  BY <3>1, HeadSame
  <2>3. CASE \/ ComputeHash(t) \/ BuildBlock(t) \/ LinkBlock(t) \/ JudgeHealth(t)
             \/ Publish(t) \/ FailWrite(t) \/ LogFailure(t)
    <3>1. InAdd' = InAdd /\ t \notin InAdd /\ UNCHANGED <<head, blocks>>
      BY <1>0, <2>3 DEF ComputeHash, BuildBlock, LinkBlock, JudgeHealth, Publish, FailWrite,
                        LogFailure, Return, Goto, InAdd, TypeOK, chain
    <3>2. \A u \in InAdd : frame'[u] = frame[u]
      BY <1>0, <2>0, <2>3, <3>1 DEF ComputeHash, BuildBlock, LinkBlock, JudgeHealth, Publish,
                                    FailWrite, LogFailure, Return, TypeOK
    <3> QED  BY <3>1, <3>2, HeadSame
  <2>4. CASE SetHead(t)
    <3>1. t \in InAdd' /\ frame'[t].block.hash = head'
      BY <1>0, <2>4 DEF SetHead, Goto, InAdd, TypeOK
    <3> QED  BY <3>1 DEF HeadKept
  <2>5. CASE LoadHeight(t) \/ StoreHeight(t)
    <3>1. InAdd' = InAdd /\ UNCHANGED <<head, blocks>>
      BY <1>0, <2>5 DEF LoadHeight, StoreHeight, Goto, InAdd, TypeOK, chain
    <3>2. \A u \in InAdd : frame'[u].block.hash = frame[u].block.hash
      <4>1. PICK c : frame' = [frame EXCEPT ![t].count = c]
        BY <2>5 DEF LoadHeight, StoreHeight
      <4>2. frame \in [Threads -> [block : Block(Snapshots), count : Nat, healthy : BOOLEAN]]
        BY <1>0 DEF TypeOK
      <4>3. frame'[t].block = frame[t].block /\ \A u \in Threads : u # t => frame'[u] = frame[u]
        BY <4>1, <4>2
      <4> QED  BY <2>0, <4>3
    <3> QED  BY <3>1, <3>2, HeadSame
  <2>6. CASE AppendBlock(t)
    BY <1>0, <2>6, HeadAppend
  <2>7. CASE PopOldest(t)
    BY <1>0, <2>7, HeadPop
  <2> QED  BY <1>2, <2>1, <2>2, <2>3, <2>4, <2>5, <2>6, <2>7 DEF Step
<1>3. CASE Age
  BY <1>3, HeadSame DEF Age, chain, InAdd
<1>4. CASE Restart
  BY <1>4 DEF Restart, HeadKept
<1>5. CASE UNCHANGED vars
  BY <1>5, HeadSame DEF vars, chain, InAdd
<1> QED  BY <1>1, <1>2, <1>3, <1>4, <1>5 DEF Next

\* In a window of at least 2n - 1 blocks for n threads (1000 in the code), the
\* hash a peer is offered is always one the controller can account for
\* (integrity/agent.py:135, integrity/chain.py:26-30).
THEOREM HeadIsAlwaysKnown == WideWindow => (Spec => []HeadIsKnown)
<1> SUFFICES ASSUME WideWindow PROVE Spec => []HeadIsKnown
  OBVIOUS
<1>1. Init => AgentInv /\ HeadKept
  BY InitInv DEF Init, HeadKept
<1>2. AgentInv /\ HeadKept /\ [Next]_vars => AgentInv' /\ HeadKept'
  BY NextInv, NextHead
<1>3. HeadKept => HeadIsKnown
  BY DEF HeadKept, HeadIsKnown, InAdd
<1> QED  BY <1>1, <1>2, <1>3, PTL DEF Spec

-----------------------------------------------------------------------------
(* What the height counts.                                                 *)

Slots(t, n) == {t} \X (1 .. n)

\* The count a thread is about to store is the height at some earlier moment.
CountInv ==
  /\ IsFiniteSet(Uncounted)
  /\ NoFlushCountsTwice
  /\ \A t \in Threads : pc[t] = "store" => frame[t].count + Cardinality(Uncounted) <= adds

LEMMA SlotFacts ==
  ASSUME NEW t, NEW n \in Int, n >= 0
  PROVE  IsFiniteSet(Slots(t, n)) /\ Cardinality(Slots(t, n)) = n
<1> DEFINE A == {t}
           B == 1 .. n
<1>1. IsFiniteSet(A) /\ Cardinality(A) = 1
  BY FS_Singleton
<1>2. IsFiniteSet(B) /\ Cardinality(B) = n
  BY FS_Interval
<1> HIDE DEF A, B
<1>3. \A S, T : IsFiniteSet(S) /\ IsFiniteSet(T) =>
        IsFiniteSet(S \X T) /\ Cardinality(S \X T) = Cardinality(S) * Cardinality(T)
  BY FS_Product
<1>4. IsFiniteSet(A \X B) /\ Cardinality(A \X B) = 1 * n
  BY <1>1, <1>2, <1>3
<1> QED  BY <1>4 DEF Slots, A, B

LEMMA OwedFacts ==
  ASSUME AgentInv, NEW t \in Threads
  PROVE  /\ Owed(t) \in Int /\ Owed(t) >= 0
         /\ \A x : x \in Uncounted <=> \E u \in Threads : x \in Slots(u, Owed(u))
         /\ \A u \in Threads : \A x : u # t /\ x \in Slots(u, Owed(u)) => x \notin Slots(t, Owed(t))
<1>1. Len(todo[t]) \in Nat
  BY LenProperties DEF AgentInv, TypeOK
<1>2. pc[t] # "idle" => Len(todo[t]) > 0
  BY <1>1, EmptySeq, LenProperties DEF AgentInv, TypeOK, OwesFlush
<1> QED  BY <1>1, <1>2 DEF Owed, Uncounted, Slots

\* Nothing is counted and nothing owed.
LEMMA CountSame ==
  ASSUME AgentInv, CountInv, \A u \in Threads : Owed(u)' = Owed(u),
         UNCHANGED <<height, adds>>,
         \A u \in Threads : pc'[u] = "store" =>
           frame'[u].count = height \/ (pc[u] = "store" /\ frame'[u].count = frame[u].count)
  PROVE  CountInv'
<1>1. Uncounted' = Uncounted
  BY DEF Uncounted
<1>2. height + Cardinality(Uncounted) <= adds
  BY DEF CountInv, NoFlushCountsTwice
<1>3. ASSUME NEW u \in Threads, pc'[u] = "store"
      PROVE  frame'[u].count + Cardinality(Uncounted) <= adds
  BY <1>2, <1>3 DEF CountInv
<1> QED  BY <1>1, <1>2, <1>3 DEF CountInv, NoFlushCountsTwice

LEMMA CountStep ==
  ASSUME AgentInv, AgentInv', CountInv, NEW t \in Threads, Step(t)
  PROVE  CountInv'
<1>t. /\ pc \in [Threads -> Positions] /\ todo \in [Threads -> Seq(Calls)]
      /\ frame \in [Threads -> [block : Block(Snapshots), count : Nat, healthy : BOOLEAN]]
      /\ height \in Nat /\ adds \in Nat
  BY AgentAssumption DEF AgentInv, TypeOK
<1>1. CASE RaiseAlert(t)
  <2>1. /\ todo[t] # << >> /\ todo' = [todo EXCEPT ![t] = <<Flush>> \o Tail(@)]
        /\ UNCHANGED <<pc, frame, height, adds>>
    BY <1>1 DEF RaiseAlert, chain
  <2>2. Len(<<Flush>> \o Tail(todo[t])) = Len(todo[t])
    <3>1. todo[t] \in Seq(Calls) /\ Tail(todo[t]) \in Seq(Calls)
          /\ Len(Tail(todo[t])) = Len(todo[t]) - 1
      BY <1>t, <2>1, HeadTailProperties
    <3>2. <<Flush>> \in Seq(Calls) /\ Len(<<Flush>>) = 1
      BY FlushIsCall, SingleType
    <3> QED  BY <3>1, <3>2, ConcatProperties, LenProperties
  <2>3. \A u \in Threads : Owed(u)' = Owed(u)
    BY <1>t, <2>1, <2>2 DEF Owed
  <2> QED  BY <2>1, <2>3, CountSame
<1>2. CASE \/ ComputeHash(t) \/ BuildBlock(t) \/ LinkBlock(t) \/ SetHead(t) \/ AppendBlock(t)
           \/ TestLength(t) \/ PopOldest(t) \/ JudgeHealth(t) \/ FailWrite(t)
  <2>1. /\ UNCHANGED <<todo, height, adds>>
        /\ \A u \in Threads \ {t} : pc'[u] = pc[u] /\ frame'[u] = frame[u]
        /\ pc'[t] # "store" /\ pc[t] # "store"
        /\ pc[t] \in {"append", "trim", "pop", "health", "publish", "failed"}
             <=> pc'[t] \in {"append", "trim", "pop", "health", "publish", "failed"}
    BY <1>t, <1>2 DEF ComputeHash, BuildBlock, LinkBlock, SetHead, AppendBlock, TestLength,
                      PopOldest, JudgeHealth, FailWrite, Goto, chain
  <2>2. \A u \in Threads : Owed(u)' = Owed(u)
    BY <2>1 DEF Owed
  <2> QED  BY <2>1, <2>2, CountSame
<1>3. CASE LoadHeight(t)
  <2>1. /\ UNCHANGED <<todo, height, adds>>
        /\ \A u \in Threads \ {t} : pc'[u] = pc[u] /\ frame'[u] = frame[u]
        /\ pc[t] = "load" /\ pc'[t] = "store" /\ frame'[t].count = height
    BY <1>t, <1>3 DEF LoadHeight, Goto, chain
  <2>2. \A u \in Threads : Owed(u)' = Owed(u)
    BY <2>1 DEF Owed
  <2> QED  BY <2>1, <2>2, CountSame
<1>4. CASE StoreHeight(t)
  <2>1. /\ UNCHANGED <<todo, adds>> /\ height' = frame[t].count + 1
        /\ \A u \in Threads \ {t} : pc'[u] = pc[u] /\ frame'[u] = frame[u]
        /\ pc[t] = "store" /\ pc'[t] = "append"
    BY <1>t, <1>4 DEF StoreHeight, Goto
  <2>2. /\ Owed(t) = Len(todo[t]) /\ Owed(t)' = Owed(t) - 1
        /\ \A u \in Threads \ {t} : Owed(u)' = Owed(u)
    BY <2>1 DEF Owed
  <2>3. /\ Owed(t) \in Int /\ Owed(t) > 0
    <3>1. todo[t] # << >> /\ todo[t] \in Seq(Calls)
      BY <1>t, <2>1 DEF AgentInv, OwesFlush
    <3> QED  BY <2>2, <3>1, EmptySeq, LenProperties
  <2>4. <<t, Owed(t)>> \in Uncounted
    BY <2>3, OwedFacts DEF Slots
  <2>5. Uncounted' = Uncounted \ {<<t, Owed(t)>>}
    BY <2>2, <2>3 DEF Uncounted
  <2>6. /\ IsFiniteSet(Uncounted) /\ Cardinality(Uncounted) \in Nat
        /\ Cardinality(Uncounted') = Cardinality(Uncounted) - 1 /\ IsFiniteSet(Uncounted')
    BY <2>4, <2>5, FS_RemoveElement, FS_CardinalityType DEF CountInv
  <2>7. frame[t].count \in Nat /\ \A u \in Threads : frame[u].count \in Nat
    BY <1>t
  <2>8. frame[t].count + Cardinality(Uncounted) <= adds
    BY <2>1 DEF CountInv
  <2>9. height' + Cardinality(Uncounted') <= adds
    BY <1>t, <2>1, <2>6, <2>7, <2>8
  <2>10. ASSUME NEW u \in Threads, pc'[u] = "store"
         PROVE  frame'[u].count + Cardinality(Uncounted') <= adds
    <3>1. u # t /\ pc[u] = "store" /\ frame'[u] = frame[u]
      BY <2>1, <2>10
    <3>2. frame[u].count + Cardinality(Uncounted) <= adds
      BY <3>1 DEF CountInv
    <3> QED  BY <1>t, <2>6, <2>7, <3>1, <3>2
  <2> QED  BY <2>1, <2>6, <2>9, <2>10 DEF CountInv, NoFlushCountsTwice
<1>5. CASE Publish(t) \/ LogFailure(t)
  <2>1. /\ UNCHANGED <<height, adds>> /\ pc[t] \in {"publish", "failed"} /\ pc'[t] = "idle"
        /\ \A u \in Threads \ {t} : pc'[u] = pc[u] /\ frame'[u] = frame[u] /\ todo'[u] = todo[u]
        /\ todo'[t] = Tail(todo[t])
    BY <1>t, <1>5 DEF Publish, LogFailure, Return, Goto, chain
  <2>2. Len(Tail(todo[t])) = Len(todo[t]) - 1
    BY <1>t, <2>1, HeadTailProperties DEF AgentInv, OwesFlush
  <2>3. \A u \in Threads : Owed(u)' = Owed(u)
    BY <2>1, <2>2 DEF Owed
  <2> QED  BY <2>1, <2>3, CountSame
<1>6. CASE RaiseInSign(t)
  <2>1. /\ UNCHANGED <<height, adds, frame>> /\ pc[t] = "health" /\ pc'[t] = "failed"
        /\ \A u \in Threads \ {t} : pc'[u] = pc[u] /\ todo'[u] = todo[u]
        /\ todo'[t] = <<Flush>>
    BY <1>t, <1>6 DEF RaiseInSign, Goto, chain
  <2>2. \A u \in Threads \ {t} : Owed(u)' = Owed(u)
    BY <2>1 DEF Owed
  <2>3. Owed(t)' = 0
    BY <2>1 DEF Owed
  <2>4. Uncounted' \subseteq Uncounted
    BY <2>2, <2>3 DEF Uncounted
  <2>5. /\ IsFiniteSet(Uncounted) /\ IsFiniteSet(Uncounted')
        /\ Cardinality(Uncounted) \in Nat /\ Cardinality(Uncounted') \in Nat
        /\ Cardinality(Uncounted') <= Cardinality(Uncounted)
    BY <2>4, FS_Subset, FS_CardinalityType DEF CountInv
  <2>6. height + Cardinality(Uncounted) <= adds
        /\ \A u \in Threads : pc[u] = "store" => frame[u].count + Cardinality(Uncounted) <= adds
    BY DEF CountInv, NoFlushCountsTwice
  <2>7. \A u \in Threads : frame[u].count \in Nat
    BY <1>t
  <2>8. \A u \in Threads : pc'[u] = "store" => pc[u] = "store"
    BY <2>1
  <2> QED  BY <1>t, <2>1, <2>5, <2>6, <2>7, <2>8 DEF CountInv, NoFlushCountsTwice
<1> QED  BY <1>1, <1>2, <1>3, <1>4, <1>5, <1>6 DEF Step

LEMMA CountOperation ==
  ASSUME AgentInv, AgentInv', CountInv, NEW t \in Threads, Operation(t)
  PROVE  CountInv'
<1>1. PICK calls : Begin(t, calls)
  BY DEF Operation, RyuHandler, SwitchEvent, PacketIn, FlowAdd, Heartbeat,
         AccusePeer, CheckChain, ResetAlerts
<1>t. /\ todo \in [Threads -> Seq(Calls)] /\ todo' \in [Threads -> Seq(Calls)]
      /\ height \in Nat /\ adds \in Nat
  BY AgentAssumption DEF AgentInv, TypeOK
<1>2. /\ pc[t] = "idle" /\ todo[t] = << >> /\ todo'[t] = calls /\ adds' = adds + Len(calls)
      /\ \A u \in Threads \ {t} : todo'[u] = todo[u]
      /\ UNCHANGED <<height, pc, frame>>
  BY <1>1, <1>t DEF Begin, Idle, chain
<1>3. Len(calls) \in Nat /\ Len(todo[t]) = 0
  BY <1>t, <1>2, LenProperties
<1>4. /\ Owed(t) = 0 /\ Owed(t)' = Len(calls)
      /\ \A u \in Threads \ {t} : Owed(u)' = Owed(u)
  BY <1>2, <1>3 DEF Owed
<1>5. Uncounted' = Uncounted \cup Slots(t, Len(calls)) /\ Uncounted \cap Slots(t, Len(calls)) = {}
  BY <1>3, <1>4 DEF Uncounted, Slots
<1>6. IsFiniteSet(Slots(t, Len(calls))) /\ Cardinality(Slots(t, Len(calls))) = Len(calls)
  BY <1>3, SlotFacts
<1>7. /\ IsFiniteSet(Uncounted') /\ Cardinality(Uncounted) \in Nat
      /\ Cardinality(Uncounted') = Cardinality(Uncounted) + Len(calls)
  <2>1. \A S, T : IsFiniteSet(S) /\ IsFiniteSet(T) =>
          /\ IsFiniteSet(S \cup T) /\ Cardinality(S) \in Nat
          /\ Cardinality(S \cup T) = Cardinality(S) + Cardinality(T) - Cardinality(S \cap T)
    BY FS_Union, FS_CardinalityType
  <2> DEFINE U == Uncounted
             N == Slots(t, Len(calls))
  <2>2. /\ Uncounted' = U \cup N /\ Cardinality(U \cap N) = 0
        /\ IsFiniteSet(U) /\ IsFiniteSet(N) /\ Cardinality(N) = Len(calls)
    BY <1>5, <1>6, FS_EmptySet DEF CountInv
  <2> HIDE DEF U, N
  <2>3. /\ IsFiniteSet(U \cup N) /\ Cardinality(U) \in Nat
        /\ Cardinality(U \cup N) = Cardinality(U) + Cardinality(N) - Cardinality(U \cap N)
    BY <2>1, <2>2
  <2>4. /\ IsFiniteSet(Uncounted') /\ Cardinality(U) \in Nat
        /\ Cardinality(Uncounted') = Cardinality(U) + Len(calls)
    BY <1>3, <2>2, <2>3
  <2> QED  BY <2>4 DEF U
<1>8. \A u \in Threads : frame[u].count \in Nat
  BY DEF AgentInv, TypeOK
<1>9. height + Cardinality(Uncounted) <= adds
      /\ \A u \in Threads : pc[u] = "store" => frame[u].count + Cardinality(Uncounted) <= adds
  BY DEF CountInv, NoFlushCountsTwice
<1> QED  BY <1>t, <1>2, <1>3, <1>7, <1>8, <1>9 DEF CountInv, NoFlushCountsTwice

\* At the start of the process the constructor owes one flush.
LEMMA CountFresh ==
  ASSUME height = 0, adds = 1, pc = [t \in Threads |-> "idle"],
         todo = [t \in Threads |-> IF t = Ryu THEN <<Flush>> ELSE << >>]
  PROVE  CountInv
<1>1. \A t \in Threads : Owed(t) = IF t = Ryu THEN 1 ELSE 0
  BY DEF Owed
<1>2. Uncounted = {<<Ryu, 1>>}
  BY <1>1 DEF Uncounted, Threads
<1>3. IsFiniteSet(Uncounted) /\ Cardinality(Uncounted) = 1
  BY <1>2, FS_Singleton
<1> QED  BY <1>3 DEF CountInv, NoFlushCountsTwice

LEMMA CountNext ==
  ASSUME AgentInv, AgentInv', CountInv, [Next]_vars
  PROVE  CountInv'
<1>1. CASE Age \/ UNCHANGED vars
  <2>1. UNCHANGED <<height, todo, pc, frame, adds>>
    BY <1>1 DEF Age, vars, chain
  <2>2. \A u \in Threads : Owed(u)' = Owed(u)
    BY <2>1 DEF Owed
  <2> QED  BY <2>1, <2>2, CountSame
<1>2. CASE Restart
  <2>1. /\ height' = 0 /\ adds' = 1 /\ pc' = [t \in Threads |-> "idle"]
        /\ todo' = [t \in Threads |-> IF t = Ryu THEN <<Flush>> ELSE << >>]
    BY <1>2 DEF Restart
  <2>2. \A t \in Threads : Owed(t)' = IF t = Ryu THEN 1 ELSE 0
    BY <2>1 DEF Owed
  <2>3. Uncounted' = {<<Ryu, 1>>}
    BY <2>2 DEF Uncounted, Threads
  <2>4. IsFiniteSet(Uncounted') /\ Cardinality(Uncounted') = 1
    BY <2>3, FS_Singleton
  <2> QED  BY <2>1, <2>4 DEF CountInv, NoFlushCountsTwice
<1> QED  BY <1>1, <1>2, CountStep, CountOperation DEF Next

\* Adds of several threads may lose counts to each other but never gain one: the
\* height is at most the flushes that have got past counting, for any number of
\* threads, alerts and restarts (integrity/chain.py:27).
THEOREM HeightIsEarned == Spec => []NoFlushCountsTwice
<1>1. Init => CountInv
  BY CountFresh DEF Init
<1>2. CountInv => NoFlushCountsTwice
  BY DEF CountInv
<1> QED  BY <1>1, <1>2, InitInv, NextInv, CountNext, PTL DEF Spec
-----------------------------------------------------------------------------
(* While no two adds have overlapped, the statements of add are HashChain's *)
(* add.                                                                     *)

\* No thread but t is inside add.
Alone(t) == \A u \in Threads \ {t} : pc[u] \notin AddPositions

\* What a thread inside add has established at each of its positions, as long as
\* no other was inside with it.
Established(t) ==
  /\ pc[t] \in AddPositions => Alone(t)
  /\ pc[t] \in {"block", "prev", "head"} =>
       /\ frame[t].block.state = t
       /\ frame[t].block.hash = Digest(t, head)
  /\ pc[t] \in {"prev", "head"} => frame[t].block.idx = height
  /\ pc[t] = "head" => frame[t].block.prev = head
  /\ pc[t] = "store" => frame[t].count = height
  /\ pc[t] = "pop" => Len(blocks) > MaxBlocks

CalmInv == calm => \A t \in Threads : Established(t)

\* The chain as HashChain sees it, when t is the only thread that may be inside add.
SeenFrom(t) ==
  /\ AbsHeight = IF pc[t] \in {"load", "store"} THEN height + 1 ELSE height
  /\ AbsBlocks = CASE pc[t] = "pop" -> Tail(blocks)
                   [] pc[t] \in {"load", "store", "append"} ->
                        Trim(Append(blocks, frame[t].block))
                   [] OTHER -> Trim(blocks)

AllSee == \A t \in Threads : AgentInv /\ Alone(t) => SeenFrom(t)

LEMMA AloneSees == AllSee
<1> SUFFICES ASSUME NEW t \in Threads, AgentInv, Alone(t) PROVE SeenFrom(t)
  BY DEF AllSee
<1>0. blocks \in Seq(Block(Snapshots)) /\ frame[t].block \in Block(Snapshots)
  BY FrameType DEF AgentInv, TypeOK
<1>1. ASSUME NEW places \in SUBSET AddPositions
      PROVE  AddsAt(places) <=> pc[t] \in places
  BY <1>1 DEF Alone, AddsAt
<1>2. /\ {"load", "store", "append"} \in SUBSET AddPositions
      /\ {"load", "store"} \in SUBSET AddPositions
      /\ {"pop"} \in SUBSET AddPositions
  BY DEF AddPositions
<1>3. /\ AddsAt({"load", "store", "append"}) <=> pc[t] \in {"load", "store", "append"}
      /\ AddsAt({"load", "store"}) <=> pc[t] \in {"load", "store"}
      /\ AddsAt({"pop"}) <=> pc[t] = "pop"
  BY <1>1, <1>2
<1>4. ASSUME pc[t] \in {"load", "store", "append"}
      PROVE  InFlight = <<frame[t].block>>
  <2>1. (CHOOSE u \in Threads : pc[u] \in {"load", "store", "append"}) = t
    BY <1>2, <1>4 DEF Alone
  <2> QED  BY <1>3, <1>4, <2>1 DEF InFlight
<1>5. ASSUME pc[t] \notin {"load", "store", "append"}
      PROVE  InFlight = << >>
  BY <1>3, <1>5 DEF InFlight
<1>6. blocks \o << >> = blocks /\ blocks \o <<frame[t].block>> = Append(blocks, frame[t].block)
  BY <1>0, ConcatEmptySeq, AppendIsConcat
<1> QED  BY <1>3, <1>4, <1>5, <1>6 DEF SeenFrom, AbsHeight, AbsBlocks

LEMMA AloneSeesNext == AllSee'
BY AloneSees, PTL

\* The block list of a thread alone in add.
LEMMA AloneTrims ==
  ASSUME AgentInv, NEW t \in Threads, Alone(t)
  PROVE  /\ Len(blocks) \in Nat /\ MaxBlocks \in Nat /\ Len(blocks) <= MaxBlocks + 1
         /\ pc[t] \notin {"trim", "pop"} => Len(blocks) <= MaxBlocks
<1>1. Len(blocks) \in Nat /\ MaxBlocks \in Nat
  BY LenProperties, MaxBlocksAssumption DEF AgentInv, TypeOK
<1>2. Cardinality({}) = 0 /\ Cardinality({t}) = 1
  BY FS_EmptySet, FS_Singleton
<1>3. Trimming = IF pc[t] \in {"trim", "pop"} THEN {t} ELSE {}
  BY DEF Trimming, Alone, AddPositions
<1>4. Len(blocks) <= MaxBlocks + Cardinality(Trimming)
  BY DEF AgentInv, BoundedMemory
<1> QED  BY <1>1, <1>2, <1>3, <1>4

\* A chain seen as it was before.
LEMMA ChainStutters ==
  ASSUME UNCHANGED <<head, AbsHeight, AbsBlocks>>
  PROVE  [Chain!Next]_(Chain!chainVars)
BY DEF Chain!chainVars

\* A step that changes neither the chain nor anything inside add.
LEMMA CalmSame ==
  ASSUME CalmInv, UNCHANGED <<head, height, blocks, calm>>,
         \A u \in Threads : \/ pc'[u] = pc[u] /\ frame'[u] = frame[u]
                            \/ pc[u] \notin AddPositions /\ pc'[u] \notin AddPositions
  PROVE  CalmInv'
<1> SUFFICES ASSUME calm', NEW u \in Threads PROVE Established(u)'
  BY DEF CalmInv
<1>1. calm /\ \A w \in Threads : Established(w)
  BY DEF CalmInv
<1>2. \A w \in Threads : pc[w] \notin AddPositions => pc'[w] \notin AddPositions
  OBVIOUS
<1>3. CASE pc'[u] = pc[u] /\ frame'[u] = frame[u]
  BY <1>1, <1>2, <1>3 DEF Established, Alone
<1>4. CASE pc'[u] \notin AddPositions
  BY <1>4 DEF Established, AddPositions
<1> QED  BY <1>3, <1>4

\* The same for a step of t inside add, which leaves what it has established.
LEMMA CalmMoves ==
  ASSUME CalmInv, NEW t \in Threads, Alone(t), Established(t)',
         \A u \in Threads \ {t} : pc'[u] = pc[u]
  PROVE  CalmInv'
<1> SUFFICES ASSUME NEW u \in Threads, u # t PROVE Established(u)'
  BY DEF CalmInv
<1>1. pc'[u] \notin AddPositions
  BY DEF Alone
<1> QED  BY <1>1 DEF Established, AddPositions

\* The step at which add takes effect.
LEMMA SetHeadAdds ==
  ASSUME AgentInv, AgentInv', CountInv, NEW t \in Threads, Established(t), SetHead(t)
  PROVE  Established(t)' /\ Alone(t)' /\ Chain!Next
<1> DEFINE b == frame[t].block
<1>1. /\ pc[t] = "head" /\ pc'[t] = "load"
      /\ head' = b.hash /\ height' = height /\ blocks' = blocks /\ frame' = frame
      /\ \A u \in Threads \ {t} : pc'[u] = pc[u]
  BY DEF SetHead, Goto, AgentInv, TypeOK
<1>2. Alone(t) /\ Alone(t)'
  BY <1>1 DEF Established, Alone, AddPositions
<1>3. SeenFrom(t)
  BY <1>2, AloneSees DEF AllSee
<1>4. SeenFrom(t)'
  BY <1>2, AloneSeesNext DEF AllSee
<1>5. Len(blocks) <= MaxBlocks /\ Len(blocks) \in Nat /\ MaxBlocks \in Nat
  BY <1>1, <1>2, AloneTrims
<1>6. AbsHeight = height /\ AbsBlocks = blocks
  BY <1>1, <1>3, <1>5 DEF SeenFrom, Trim
<1>7. AbsHeight' = height + 1 /\ AbsBlocks' = Trim(Append(blocks, b))
  BY <1>1, <1>4 DEF SeenFrom, Trim
<1>8. /\ height \in Nat /\ b \in Block(Snapshots) /\ t \in Snapshots
      /\ b.state = t /\ b.hash = Digest(t, head) /\ b.idx = height /\ b.prev = head
  BY <1>1, FrameType DEF Established, AgentInv, TypeOK, Snapshots
<1>9. b = Chain!NewBlock(t)
  BY <1>6, <1>8 DEF Chain!NewBlock, Chain!Digest, Digest, Block
<1>10. height < MaxAdds
  <2>1. Owed(t) = Len(todo[t]) /\ Len(todo[t]) \in Nat /\ todo[t] # << >>
    BY <1>1, LenProperties DEF Owed, AgentInv, TypeOK, OwesFlush
  <2>2. Len(todo[t]) > 0
    BY <2>1, EmptySeq, LenProperties DEF AgentInv, TypeOK
  <2>3. <<t, 1>> \in Uncounted
    BY <2>1, <2>2 DEF Uncounted
  <2>4. Cardinality(Uncounted) \in Nat /\ Cardinality(Uncounted) # 0
    BY <2>3, FS_CardinalityType, FS_EmptySet DEF CountInv
  <2>5. height + Cardinality(Uncounted) <= adds /\ adds <= MaxAdds /\ adds \in Nat
        /\ MaxAdds \in Nat
    BY AgentAssumption DEF CountInv, NoFlushCountsTwice, AgentInv, TypeOK
  <2> QED  BY <1>8, <2>4, <2>5
<1>11. Chain!Add(t)
  BY <1>1, <1>6, <1>7, <1>8, <1>9, <1>10
     DEF Chain!Add, Chain!Digest, Digest, Chain!Trim, Trim
<1>12. Established(t)'
  BY <1>1, <1>2 DEF Established
<1> QED  BY <1>2, <1>8, <1>11, <1>12 DEF Chain!Next

\* The other steps of add leave the chain as it is seen.
LEMMA AddImplements ==
  ASSUME AgentInv, AgentInv', CountInv, NEW t \in Threads,
         pc[t] \in AddPositions, Established(t), Step(t)
  PROVE  /\ Established(t)' /\ \A u \in Threads \ {t} : pc'[u] = pc[u]
         /\ [Chain!Next]_(Chain!chainVars)
<1> DEFINE Frames == [block : Block(Snapshots), count : Nat, healthy : BOOLEAN]
<1>0. /\ frame \in [Threads -> Frames] /\ frame[t] \in Frames
      /\ frame[t].block \in Block(Snapshots) /\ pc \in [Threads -> Positions]
      /\ height \in Nat /\ blocks \in Seq(Block(Snapshots)) /\ Alone(t)
  BY FrameType DEF AgentInv, TypeOK, Established
<1>s. SeenFrom(t) /\ (Alone(t)' => SeenFrom(t)')
  BY <1>0, AloneSees, AloneSeesNext DEF AllSee
<1>w. /\ Len(blocks) \in Nat /\ MaxBlocks \in Nat /\ Len(blocks) <= MaxBlocks + 1
      /\ pc[t] \notin {"trim", "pop"} => Len(blocks) <= MaxBlocks
  BY <1>0, AloneTrims
<1>a. ASSUME \A u \in Threads \ {t} : pc'[u] = pc[u], UNCHANGED head, Established(t)',
             SeenFrom(t)' => UNCHANGED <<AbsHeight, AbsBlocks>>
      PROVE  /\ Established(t)' /\ \A u \in Threads \ {t} : pc'[u] = pc[u]
             /\ [Chain!Next]_(Chain!chainVars)
  <2>1. Alone(t)'
    BY <1>0, <1>a DEF Alone
  <2> QED  BY <1>a, <1>s, <2>1, ChainStutters
<1>1. CASE BuildBlock(t)
  <2>1. /\ pc[t] = "block" /\ pc'[t] = "prev" /\ UNCHANGED <<head, height, blocks>>
        /\ \A u \in Threads \ {t} : pc'[u] = pc[u]
        /\ frame'[t].block.idx = height
        /\ frame'[t].block.state = frame[t].block.state
        /\ frame'[t].block.hash = frame[t].block.hash
    BY <1>0, <1>1 DEF BuildBlock, Goto, chain, Block
  <2>2. Established(t)'
    BY <1>0, <2>1 DEF Established, Alone
  <2> QED  BY <1>a, <1>s, <2>1, <2>2 DEF SeenFrom, Trim
<1>2. CASE LinkBlock(t)
  <2>1. /\ pc[t] = "prev" /\ pc'[t] = "head" /\ UNCHANGED <<head, height, blocks>>
        /\ \A u \in Threads \ {t} : pc'[u] = pc[u]
        /\ frame'[t].block.prev = head
        /\ frame'[t].block.idx = frame[t].block.idx
        /\ frame'[t].block.state = frame[t].block.state
        /\ frame'[t].block.hash = frame[t].block.hash
    BY <1>0, <1>2 DEF LinkBlock, Goto, chain, Block
  <2>2. Established(t)'
    BY <1>0, <2>1 DEF Established, Alone
  <2> QED  BY <1>a, <1>s, <2>1, <2>2 DEF SeenFrom, Trim
<1>3. CASE SetHead(t)
  <2>1. \A u \in Threads \ {t} : pc'[u] = pc[u]
    BY <1>0, <1>3 DEF SetHead, Goto
  <2> QED  BY <1>3, <2>1, SetHeadAdds
<1>4. CASE LoadHeight(t)
  <2>1. /\ pc[t] = "load" /\ pc'[t] = "store" /\ UNCHANGED <<head, height, blocks>>
        /\ \A u \in Threads \ {t} : pc'[u] = pc[u]
        /\ frame'[t].count = height /\ frame'[t].block = frame[t].block
    BY <1>0, <1>4 DEF LoadHeight, Goto, chain
  <2>2. Established(t)'
    BY <1>0, <2>1 DEF Established, Alone
  <2> QED  BY <1>a, <1>s, <2>1, <2>2 DEF SeenFrom, Trim
<1>5. CASE StoreHeight(t)
  <2>1. /\ pc[t] = "store" /\ pc'[t] = "append" /\ height' = height + 1
        /\ UNCHANGED <<head, blocks>>
        /\ \A u \in Threads \ {t} : pc'[u] = pc[u]
        /\ frame'[t].block = frame[t].block
    BY <1>0, <1>5 DEF StoreHeight, Goto, Established
  <2>2. Established(t)'
    BY <1>0, <2>1 DEF Established, Alone
  <2> QED  BY <1>a, <1>s, <2>1, <2>2 DEF SeenFrom, Trim
<1>6. CASE AppendBlock(t)
  <2>1. /\ pc[t] = "append" /\ pc'[t] = "trim" /\ UNCHANGED <<head, height>>
        /\ blocks' = Append(blocks, frame[t].block)
        /\ \A u \in Threads \ {t} : pc'[u] = pc[u]
    BY <1>0, <1>6 DEF AppendBlock, Goto
  <2>2. Established(t)'
    BY <1>0, <2>1 DEF Established, Alone
  <2> QED  BY <1>a, <1>s, <2>1, <2>2 DEF SeenFrom, Trim
<1>7. CASE TestLength(t)
  <2>1. /\ pc[t] = "trim" /\ UNCHANGED <<head, height, blocks>>
        /\ pc'[t] = IF Len(blocks) > MaxBlocks THEN "pop" ELSE "health"
        /\ \A u \in Threads \ {t} : pc'[u] = pc[u]
    BY <1>0, <1>7 DEF TestLength, Goto, chain
  <2>2. Established(t)'
    BY <1>0, <2>1 DEF Established, Alone, AddPositions
  <2> QED  BY <1>a, <1>s, <2>1, <2>2 DEF SeenFrom, Trim
<1>8. CASE PopOldest(t)
  <2>1. /\ pc[t] = "pop" /\ pc'[t] = "health" /\ UNCHANGED <<head, height>>
        /\ blocks' = Tail(blocks)
        /\ \A u \in Threads \ {t} : pc'[u] = pc[u]
    BY <1>0, <1>8 DEF PopOldest, Goto
  <2>2. Established(t)'
    BY <2>1 DEF Established, AddPositions
  <2>3. Len(blocks) = MaxBlocks + 1 /\ blocks # << >>
    BY <1>0, <1>w, <2>1 DEF Established
  <2>4. Len(blocks') = MaxBlocks
    BY <1>0, <1>w, <2>1, <2>3, HeadTailProperties
  <2> QED  BY <1>a, <1>s, <1>w, <2>1, <2>2, <2>4 DEF SeenFrom, Trim
<1>9. ~ (\/ RaiseAlert(t) \/ ComputeHash(t) \/ RaiseInSign(t) \/ JudgeHealth(t)
         \/ Publish(t) \/ FailWrite(t) \/ LogFailure(t))
  BY DEF AddPositions, RaiseAlert, ComputeHash, RaiseInSign, JudgeHealth, Publish, FailWrite,
         LogFailure, Return, Goto
<1> QED  BY <1>1, <1>2, <1>3, <1>4, <1>5, <1>6, <1>7, <1>8, <1>9 DEF Step

LEMMA NextImplements ==
  ASSUME AgentInv, AgentInv', CountInv, CalmInv, [Next]_vars
  PROVE  CalmInv' /\ (calm' => [Chain!Next]_(Chain!chainVars))
<1>0. /\ pc \in [Threads -> Positions]
      /\ frame \in [Threads -> [block : Block(Snapshots), count : Nat, healthy : BOOLEAN]]
  BY DEF AgentInv, TypeOK
<1>1. ASSUME UNCHANGED <<chain, pc, frame, calm>>
      PROVE  CalmInv' /\ (calm' => [Chain!Next]_(Chain!chainVars))
  <2>1. UNCHANGED <<head, AbsHeight, AbsBlocks>>
    BY <1>1 DEF chain, AbsHeight, AbsBlocks, InFlight, AddsAt
  <2> QED  BY <1>1, <2>1, CalmSame, ChainStutters DEF chain
<1>2. CASE Age \/ UNCHANGED vars
  BY <1>1, <1>2 DEF Age, vars
<1>3. ASSUME NEW t \in Threads, Operation(t)
      PROVE  CalmInv' /\ (calm' => [Chain!Next]_(Chain!chainVars))
  <2>1. PICK calls : Begin(t, calls)
    BY <1>3 DEF Operation, RyuHandler, SwitchEvent, PacketIn, FlowAdd, Heartbeat,
                AccusePeer, CheckChain, ResetAlerts
  <2> QED  BY <1>1, <2>1 DEF Begin
<1>4. CASE Restart
  <2>1. /\ head' = GENESIS /\ height' = 0 /\ blocks' = << >>
        /\ \A u \in Threads : pc'[u] = "idle"
    BY <1>4 DEF Restart
  <2>2. AbsHeight' = 0 /\ AbsBlocks' = << >>
    <3>1. << >> \o << >> = << >> /\ Len(<< >>) = 0
      OBVIOUS
    <3>2. ~ AddsAt({"load", "store", "append"})' /\ ~ AddsAt({"load", "store"})'
          /\ ~ AddsAt({"pop"})'
      BY <2>1 DEF AddsAt
    <3> QED  BY <2>1, <3>1, <3>2, MaxBlocksAssumption DEF AbsHeight, AbsBlocks, InFlight, Trim
  <2>3. Chain!Restart
    BY <2>1, <2>2 DEF Chain!Restart, Chain!GENESIS, GENESIS
  <2>4. CalmInv'
    BY <2>1 DEF CalmInv, Established, AddPositions
  <2> QED  BY <2>3, <2>4 DEF Chain!Next
<1>5. ASSUME NEW t \in Threads, RaiseAlert(t)
      PROVE  CalmInv' /\ (calm' => [Chain!Next]_(Chain!chainVars))
  BY <1>1, <1>5 DEF RaiseAlert
<1>6. ASSUME NEW t \in Threads, ComputeHash(t)
      PROVE  CalmInv' /\ (calm' => [Chain!Next]_(Chain!chainVars))
  <2>1. /\ pc[t] = "idle" /\ pc'[t] = "block" /\ UNCHANGED <<head, height, blocks>>
        /\ \A u \in Threads \ {t} : pc'[u] = pc[u]
        /\ frame'[t].block.state = t /\ frame'[t].block.hash = Digest(t, head)
        /\ calm' => calm /\ \A u \in Threads : pc[u] \notin AddPositions
    BY <1>0, <1>6 DEF ComputeHash, Goto, chain, Block
  <2> SUFFICES ASSUME calm' PROVE CalmInv' /\ [Chain!Next]_(Chain!chainVars)
    BY DEF CalmInv
  <2>2. Alone(t) /\ Alone(t)'
    BY <2>1 DEF Alone
  <2>3. Established(t)'
    BY <2>1, <2>2 DEF Established
  <2>4. SeenFrom(t) /\ SeenFrom(t)'
    BY <2>2, AloneSees, AloneSeesNext DEF AllSee
  <2>5. UNCHANGED <<AbsHeight, AbsBlocks>>
    BY <2>1, <2>4 DEF SeenFrom, Trim
  <2> QED  BY <2>1, <2>2, <2>3, <2>5, CalmMoves, ChainStutters
<1>7. ASSUME NEW t \in Threads,
             RaiseInSign(t) \/ JudgeHealth(t) \/ Publish(t) \/ FailWrite(t) \/ LogFailure(t)
      PROVE  CalmInv' /\ (calm' => [Chain!Next]_(Chain!chainVars))
  <2>1. /\ UNCHANGED <<head, height, blocks, calm>>
        /\ pc[t] \notin AddPositions /\ pc'[t] \notin AddPositions
        /\ \A u \in Threads \ {t} : pc'[u] = pc[u] /\ frame'[u] = frame[u]
    BY <1>0, <1>7 DEF RaiseInSign, JudgeHealth, Publish, FailWrite, LogFailure, Return, Goto,
                      chain, AddPositions
  <2>2. CalmInv'
    BY <2>1, CalmSame
  <2>3. ASSUME NEW places \in SUBSET AddPositions
        PROVE  \A u \in Threads : pc[u] \in places <=> pc'[u] \in places
    BY <2>1, <2>3
  <2>4. /\ {"load", "store", "append"} \in SUBSET AddPositions
        /\ {"load", "store"} \in SUBSET AddPositions
        /\ {"pop"} \in SUBSET AddPositions
    BY DEF AddPositions
  <2>5. ASSUME calm' PROVE UNCHANGED <<AbsHeight, AbsBlocks>>
    <3>1. UNCHANGED AbsHeight
      BY <2>1, <2>3, <2>4 DEF AbsHeight, AddsAt
    <3>2. CASE \E u \in Threads : pc[u] \in AddPositions
      <4>1. PICK u \in Threads : pc[u] \in AddPositions
        BY <3>2
      <4>2. u # t /\ pc'[u] = pc[u] /\ frame'[u] = frame[u]
        BY <2>1, <4>1
      <4>3. Alone(u) /\ Alone(u)'
        BY <2>1, <2>5, <4>1 DEF CalmInv, Established, Alone
      <4>4. SeenFrom(u) /\ SeenFrom(u)'
        BY <4>3, AloneSees, AloneSeesNext DEF AllSee
      <4> QED  BY <2>1, <3>1, <4>2, <4>4 DEF SeenFrom, Trim
    <3>3. CASE \A u \in Threads : pc[u] \notin AddPositions
      <4>1. \A u \in Threads : pc'[u] \notin AddPositions
        BY <2>1, <3>3
      <4>2. ~ AddsAt({"load", "store", "append"}) /\ ~ AddsAt({"pop"})
            /\ ~ AddsAt({"load", "store", "append"})' /\ ~ AddsAt({"pop"})'
        BY <2>4, <3>3, <4>1 DEF AddsAt
      <4> QED  BY <2>1, <3>1, <4>2 DEF AbsBlocks, InFlight, Trim
    <3> QED  BY <3>2, <3>3
  <2> QED  BY <2>1, <2>2, <2>5, ChainStutters
<1>8. ASSUME NEW t \in Threads, Step(t), pc[t] \in AddPositions
      PROVE  CalmInv' /\ (calm' => [Chain!Next]_(Chain!chainVars))
  <2>1. calm' => calm
    BY <1>8 DEF Step, RaiseAlert, ComputeHash, BuildBlock, LinkBlock, SetHead, LoadHeight,
                StoreHeight, AppendBlock, TestLength, PopOldest, RaiseInSign, JudgeHealth,
                Publish, FailWrite, LogFailure, Return
  <2> SUFFICES ASSUME calm' PROVE CalmInv' /\ [Chain!Next]_(Chain!chainVars)
    BY DEF CalmInv
  <2>2. Established(t) /\ Alone(t)
    BY <1>8, <2>1 DEF CalmInv, Established
  <2>3. /\ Established(t)' /\ \A u \in Threads \ {t} : pc'[u] = pc[u]
        /\ [Chain!Next]_(Chain!chainVars)
    BY <1>8, <2>2, AddImplements
  <2> QED  BY <2>2, <2>3, CalmMoves
<1>9. ASSUME NEW t \in Threads, Step(t), pc[t] \notin AddPositions
      PROVE  CalmInv' /\ (calm' => [Chain!Next]_(Chain!chainVars))
  <2>1. ~ (\/ BuildBlock(t) \/ LinkBlock(t) \/ SetHead(t) \/ LoadHeight(t) \/ StoreHeight(t)
           \/ AppendBlock(t) \/ TestLength(t) \/ PopOldest(t))
    BY <1>9 DEF BuildBlock, LinkBlock, SetHead, LoadHeight, StoreHeight, AppendBlock,
                TestLength, PopOldest, Goto, AddPositions
  <2> QED  BY <1>5, <1>6, <1>7, <1>9, <2>1 DEF Step
<1> QED  BY <1>2, <1>3, <1>4, <1>8, <1>9 DEF Next

LEMMA InitImplements == Init => CalmInv /\ Chain!Init
<1> SUFFICES ASSUME Init PROVE CalmInv /\ Chain!Init
  OBVIOUS
<1>1. /\ head = GENESIS /\ height = 0 /\ blocks = << >>
      /\ \A u \in Threads : pc[u] = "idle"
  BY DEF Init
<1>2. AbsHeight = 0 /\ AbsBlocks = << >>
  <2>1. << >> \o << >> = << >> /\ Len(<< >>) = 0
    OBVIOUS
  <2>2. ~ AddsAt({"load", "store", "append"}) /\ ~ AddsAt({"load", "store"}) /\ ~ AddsAt({"pop"})
    BY <1>1 DEF AddsAt
  <2> QED  BY <1>1, <2>1, <2>2, MaxBlocksAssumption DEF AbsHeight, AbsBlocks, InFlight, Trim
<1> QED  BY <1>1, <1>2 DEF CalmInv, Established, AddPositions, Chain!Init, Chain!GENESIS, GENESIS

\* As long as no two adds overlap, the statements of the threads' adds implement
\* HashChain's indivisible add, whatever is alerted, judged, published or fails
\* meanwhile, and across restarts (integrity/chain.py:20-31, integrity/agent.py:234).
THEOREM CalmAddIsAdd == Spec => ImplementsChain
<1>1. Init => CountInv
  BY CountFresh DEF Init
<1>2. AgentInv /\ AgentInv' /\ CountInv /\ CalmInv /\ [Next]_vars
        => CalmInv' /\ (calm' => [Chain!Next]_(Chain!chainVars))
  BY NextImplements
<1> QED  BY <1>1, <1>2, InitImplements, InitInv, NextInv, CountNext, PTL
         DEF Spec, ImplementsChain

\* HashChainProofs' theorems, of the chain as it is seen here.
Laws == INSTANCE HashChainProofs WITH
  height <- AbsHeight, blocks <- AbsBlocks, MaxHeight <- MaxAdds

\* Both instances of HashChain are the same specification.
LEMMA SameChain ==
  /\ Chain!Init <=> Laws!Init
  /\ [Chain!Next]_(Chain!chainVars) <=> [Laws!Next]_(Laws!chainVars)
  /\ Chain!WindowIsChain <=> Laws!WindowIsNewest /\ Laws!Linked
  /\ Chain!TamperEvident <=> Laws!TamperEvident
<1>1. Chain!Init <=> Laws!Init
  BY DEF Chain!Init, Laws!Init, Chain!GENESIS, Laws!GENESIS
<1>2. \A t \in Snapshots : Chain!Add(t) <=> Laws!Add(t)
  BY DEF Chain!Add, Laws!Add, Chain!NewBlock, Laws!NewBlock, Chain!Digest, Laws!Digest,
         Chain!Trim, Laws!Trim
<1>3. Chain!Restart <=> Laws!Restart
  BY DEF Chain!Restart, Laws!Restart, Chain!GENESIS, Laws!GENESIS
<1>4. [Chain!Next]_(Chain!chainVars) <=> [Laws!Next]_(Laws!chainVars)
  BY <1>2, <1>3 DEF Chain!Next, Laws!Next, Chain!chainVars, Laws!chainVars
<1>5. Chain!WindowIsChain <=> Laws!WindowIsNewest /\ Laws!Linked
  BY DEF Chain!WindowIsChain, Chain!WindowIsNewest, Laws!WindowIsNewest, Chain!Linked,
         Laws!Linked, Chain!GENESIS, Laws!GENESIS, Chain!Digest, Laws!Digest
<1>6. Chain!TamperEvident <=> Laws!TamperEvident
  BY DEF Chain!TamperEvident, Laws!TamperEvident, Chain!VerifyAll, Laws!VerifyAll,
         Chain!Expected, Laws!Expected, Chain!GENESIS, Laws!GENESIS, Chain!Digest, Laws!Digest
<1> QED  BY <1>1, <1>4, <1>5, <1>6

SeenChain == Laws!TypeOK /\ Laws!WindowIsNewest /\ Laws!Linked

LEMMA SeenInit == Chain!Init => SeenChain
<1>1. Laws!Init => SeenChain
  BY MaxBlocksAssumption DEF SeenChain, Laws!Init, Laws!TypeOK, Laws!WindowIsNewest,
                             Laws!Linked, Laws!GENESIS
<1> QED  BY <1>1, SameChain

LEMMA SeenNext == SeenChain /\ [Chain!Next]_(Chain!chainVars) => SeenChain'
<1>1. SeenChain /\ [Laws!Next]_(Laws!chainVars) => SeenChain'
  BY MaxBlocksAssumption, Laws!TypeStep, Laws!WindowStep, Laws!LinkedStep DEF SeenChain
<1> QED  BY <1>1, SameChain

LEMMA SeenShows == SeenChain => Chain!WindowIsChain /\ Chain!TamperEvident
BY MaxBlocksAssumption, SameChain, Laws!TamperLemma DEF SeenChain

\* A process that has had no overlap yet is the same one, or has just started.
LEMMA CalmOrFresh ==
  ASSUME AgentInv, [Next]_vars, calm'
  PROVE  calm \/ Chain!Init'
<1>1. CASE Restart
  <2>1. /\ head' = GENESIS /\ height' = 0 /\ blocks' = << >>
        /\ \A u \in Threads : pc'[u] = "idle"
    BY <1>1 DEF Restart
  <2>2. AbsHeight' = 0 /\ AbsBlocks' = << >>
    <3>1. << >> \o << >> = << >> /\ Len(<< >>) = 0
      OBVIOUS
    <3>2. ~ AddsAt({"load", "store", "append"})' /\ ~ AddsAt({"load", "store"})'
          /\ ~ AddsAt({"pop"})'
      BY <2>1 DEF AddsAt
    <3> QED  BY <2>1, <3>1, <3>2, MaxBlocksAssumption DEF AbsHeight, AbsBlocks, InFlight, Trim
  <2> QED  BY <2>1, <2>2 DEF Chain!Init, Chain!GENESIS, GENESIS
<1>2. CASE Age \/ UNCHANGED vars
  BY <1>2 DEF Age, vars
<1>3. ASSUME NEW t \in Threads, Operation(t) PROVE calm
  <2>1. PICK calls : Begin(t, calls)
    BY <1>3 DEF Operation, RyuHandler, SwitchEvent, PacketIn, FlowAdd, Heartbeat,
                AccusePeer, CheckChain, ResetAlerts
  <2> QED  BY <2>1 DEF Begin
<1>4. ASSUME NEW t \in Threads, Step(t) PROVE calm
  BY <1>4 DEF Step, RaiseAlert, ComputeHash, BuildBlock, LinkBlock, SetHead, LoadHeight,
              StoreHeight, AppendBlock, TestLength, PopOldest, RaiseInSign, JudgeHealth,
              Publish, FailWrite, LogFailure, Return
<1> QED  BY <1>1, <1>2, <1>3, <1>4 DEF Next

\* HashChain's invariant holds of the chain the threads build until two adds
\* overlap, and again from the next process on.
LEMMA CalmChain == Spec => [](calm => SeenChain)
<1>1. Init => CountInv
  BY CountFresh DEF Init
<1>2. Init => (calm => SeenChain)
  BY InitImplements, SeenInit
<1>3. AgentInv /\ AgentInv' /\ CountInv /\ CalmInv /\ [Next]_vars
        => CalmInv' /\ (calm' => [Chain!Next]_(Chain!chainVars)) /\ (calm' => calm \/ Chain!Init')
  BY NextImplements, CalmOrFresh
<1> QED  BY <1>1, <1>2, <1>3, InitImplements, InitInv, NextInv, CountNext, SeenInit, SeenNext, PTL
         DEF Spec

\* Memory holds the newest blocks, numbered without a gap and linked, as long as no
\* two adds of the process have overlapped (chain.py:20-31).
THEOREM CalmWindowIsChain == Spec => []WindowIsChain
<1>1. (calm => SeenChain) => WindowIsChain
  BY SeenShows DEF WindowIsChain
<1> QED  BY <1>1, CalmChain, PTL

\* And verify_all notices a changed state or link of any one block, under the same
\* condition (chain.py:33-42).
THEOREM CalmTamperEvident == Spec => []TamperEvident
<1>1. (calm => SeenChain) => TamperEvident
  BY SeenShows DEF TamperEvident
<1> QED  BY <1>1, CalmChain, PTL

-----------------------------------------------------------------------------
(* A compromise is published.  The provers know nothing of ENABLED, so the *)
(* theorem takes it as a hypothesis that a thread with a statement left    *)
(* can execute it (NeverWaits).                                            *)

\* Thread t stands at position p of a flush it has still to publish, and will
\* not call the controller healthy.
At(t, p) ==
  /\ nAlert >= 2
  /\ pc[t] = p /\ todo[t] # << >>
  /\ p = "publish" => ~ frame[t].healthy

\* At the head of the list is an alert, or already its flush.
AtAlert(t) == At(t, "idle") /\ Head(todo[t]) # Flush
AtFlush(t) == At(t, "idle") /\ Head(todo[t]) = Flush

Settled(t) == ~ published \/ nAlert < 2 \/ pc[t] = "failed"

\* Other threads leave t where it is; they may reset the count.
LEMMA OthersKeep ==
  ASSUME AgentInv, NEW t \in Threads, NEW p, At(t, p), [Next]_vars
  PROVE  Step(t) \/ Settled(t)' \/ (At(t, p)' /\ todo'[t] = todo[t])
<1>0. nAlert \in Nat /\ pc \in [Threads -> Positions] /\ todo \in [Threads -> Seq(Calls)]
  BY DEF AgentInv, TypeOK
<1>1. CASE Age \/ UNCHANGED vars
  BY <1>1 DEF Age, vars, At
<1>2. CASE Restart
  BY <1>2 DEF Restart, Settled
<1>3. ASSUME NEW u \in Threads, Operation(u)
      PROVE  Settled(t)' \/ (At(t, p)' /\ todo'[t] = todo[t])
  <2>1. PICK calls : Begin(u, calls)
    BY <1>3 DEF Operation, RyuHandler, SwitchEvent, PacketIn, FlowAdd, Heartbeat, AccusePeer,
                CheckChain, ResetAlerts
  <2>2. u # t
    BY <2>1 DEF Begin, Idle, At
  <2>3. UNCHANGED <<pc, frame>> /\ todo'[t] = todo[t]
    BY <1>0, <2>1, <2>2 DEF Begin
  <2>4. nAlert' = nAlert \/ nAlert' = 0
    BY <1>3 DEF Operation, RyuHandler, SwitchEvent, PacketIn, FlowAdd, Heartbeat, AccusePeer,
                CheckChain, ResetAlerts
  <2> QED  BY <2>3, <2>4 DEF At, Settled
<1>4. ASSUME NEW u \in Threads \ {t}, Step(u) PROVE At(t, p)' /\ todo'[t] = todo[t]
  <2>0. frame \in [Threads -> [block : Block(Snapshots), count : Nat, healthy : BOOLEAN]]
    BY DEF AgentInv, TypeOK
  <2>1. pc'[t] = pc[t] /\ frame'[t] = frame[t]
    BY <1>0, <2>0, <1>4
       DEF Step, RaiseAlert, ComputeHash, BuildBlock, LinkBlock, SetHead, LoadHeight,
           StoreHeight, AppendBlock, TestLength, PopOldest, RaiseInSign, JudgeHealth, Publish,
           FailWrite, LogFailure, Return, Goto
  <2>2. todo'[t] = todo[t] /\ (nAlert' = nAlert \/ nAlert' = nAlert + 1)
    BY <1>0, <1>4
       DEF Step, RaiseAlert, ComputeHash, BuildBlock, LinkBlock, SetHead, LoadHeight,
           StoreHeight, AppendBlock, TestLength, PopOldest, RaiseInSign, JudgeHealth, Publish,
           FailWrite, LogFailure, Return
  <2> QED  BY <1>0, <2>1, <2>2 DEF At
<1> QED  BY <1>1, <1>2, <1>3, <1>4 DEF Next

\* The thread at its own statements.
LEMMA StepMoves ==
  ASSUME AgentInv, NEW t \in Threads, Step(t), nAlert >= 2
  PROVE  /\ AtAlert(t) => AtFlush(t)'
         /\ AtFlush(t) => At(t, "block")'
         /\ At(t, "block")  => At(t, "prev")'
         /\ At(t, "prev")   => At(t, "head")'
         /\ At(t, "head")   => At(t, "load")'
         /\ At(t, "load")   => At(t, "store")'
         /\ At(t, "store")  => At(t, "append")'
         /\ At(t, "append") => At(t, "trim")'
         /\ At(t, "trim")   => At(t, "pop")' \/ At(t, "health")'
         /\ At(t, "pop")    => At(t, "health")'
         /\ At(t, "health") => At(t, "publish")' \/ Settled(t)'
         /\ At(t, "publish") => Settled(t)'
<1>0. /\ nAlert \in Nat /\ pc \in [Threads -> Positions] /\ todo \in [Threads -> Seq(Calls)]
      /\ frame \in [Threads -> [block : Block(Snapshots), count : Nat, healthy : BOOLEAN]]
  BY DEF AgentInv, TypeOK
<1>1. CASE RaiseAlert(t)
  <2>1. Tail(todo[t]) \in Seq(Calls)
    BY <1>0, <1>1, HeadTailProperties DEF RaiseAlert
  <2>2. todo'[t] = <<Flush>> \o Tail(todo[t]) /\ pc' = pc /\ pc[t] = "idle"
        /\ Head(todo[t]) # Flush /\ nAlert' >= 2
    BY <1>0, <1>1 DEF RaiseAlert
  <2>3. <<Flush>> \in Seq(Calls) /\ Len(<<Flush>>) = 1
    BY FlushIsCall, SingleType
  <2>4. todo'[t] # << >> /\ Head(todo'[t]) = Flush
    BY <2>1, <2>2, <2>3, ConcatProperties, LenProperties
  <2> QED  BY <2>2, <2>4 DEF At, AtAlert, AtFlush
<1>2. CASE ComputeHash(t)
  BY <1>0, <1>2 DEF ComputeHash, Goto, At, AtAlert, AtFlush
<1>3. CASE BuildBlock(t) \/ LinkBlock(t) \/ SetHead(t) \/ LoadHeight(t)
  BY <1>0, <1>3 DEF BuildBlock, LinkBlock, SetHead, LoadHeight, Goto, At, AtAlert, AtFlush
<1>7. CASE StoreHeight(t) \/ AppendBlock(t)
  BY <1>0, <1>7 DEF StoreHeight, AppendBlock, Goto, At, AtAlert, AtFlush
<1>4. CASE TestLength(t) \/ PopOldest(t)
  BY <1>0, <1>4 DEF TestLength, PopOldest, Goto, At, AtAlert, AtFlush
<1>5. CASE JudgeHealth(t)
  <2>1. (nAlert < 2 /\ VerifyAll(blocks)) = FALSE
    BY <1>0
  <2>2. ~ frame'[t].healthy
    BY <1>0, <1>5, <2>1 DEF JudgeHealth
  <2> QED  BY <1>0, <1>5, <2>2 DEF JudgeHealth, Goto, At, AtAlert, AtFlush
<1>6. CASE Publish(t)
  BY <1>0, <1>6 DEF Publish, Return, Goto, At, AtAlert, AtFlush, Settled
<1>8. CASE RaiseInSign(t) \/ FailWrite(t)
  BY <1>0, <1>8 DEF RaiseInSign, FailWrite, Goto, At, AtAlert, AtFlush, Settled
<1>9. CASE LogFailure(t)
  BY <1>0, <1>9 DEF LogFailure, Return, Goto, At, AtAlert, AtFlush
<1> QED  BY <1>1, <1>2, <1>3, <1>4, <1>5, <1>6, <1>7, <1>8, <1>9 DEF Step

\* Where such a thread may stand.
LEMMA UnjudgedIsAt ==
  ASSUME AgentInv, NEW t \in Threads, nAlert >= 2, Unjudged(t)
  PROVE  AtAlert(t) \/ AtFlush(t)
         \/ \E p \in Positions \ {"idle", "publish", "failed"} : At(t, p)
BY DEF Unjudged, At, AtAlert, AtFlush, AgentInv, TypeOK

\* The operating system runs every thread that can run, and no thread waits for
\* another: two HIGH alerts of its own make every flush that has yet to judge the
\* controller end in a published "healthy": False, unless that flush fails, the
\* count is reset or the process restarts (agent.py:223-273): the thread passes
\* each of its statements, and no other thread can move it back or turn its
\* verdict.
THEOREM TwoAlertsArePublished == FairSpec /\ []NeverWaits => CompromiseIsPublished
<1> SUFFICES ASSUME NEW t \in Threads
             PROVE  FairSpec /\ []NeverWaits
                      => ((nAlert >= 2 /\ Unjudged(t)) ~> Settled(t))
  BY DEF CompromiseIsPublished, Settled
<1>1. FairSpec => Spec /\ Runs(t)
  BY DEF FairSpec
<1>2. Spec => []AgentInv
  BY InitInv, NextInv, PTL DEF Spec
<1>3. AgentInv /\ nAlert >= 2 /\ Unjudged(t) =>
        \/ AtAlert(t) \/ AtFlush(t) \/ At(t, "block") \/ At(t, "prev") \/ At(t, "head")
        \/ At(t, "load") \/ At(t, "store") \/ At(t, "append") \/ At(t, "trim")
        \/ At(t, "pop") \/ At(t, "health")
  BY UnjudgedIsAt DEF Positions, AddPositions
<1>4. NeverWaits => Idle(t) \/ ENABLED <<Step(t)>>_vars
  BY DEF NeverWaits
<1>5. AgentInv /\ [Next]_vars =>
        \A p : At(t, p) => Step(t) \/ Settled(t)' \/ (At(t, p)' /\ todo'[t] = todo[t])
  BY OthersKeep
<1>6. FairSpec /\ []NeverWaits =>
        /\ At(t, "append") ~> Settled(t)
        /\ At(t, "trim") ~> Settled(t)
        /\ At(t, "pop") ~> Settled(t)
        /\ At(t, "health") ~> Settled(t)
        /\ At(t, "publish") ~> Settled(t)
  <2>1. AgentInv /\ [Next]_vars =>
        /\ At(t, "append") => At(t, "append")' \/ At(t, "trim")' \/ Settled(t)'
        /\ At(t, "trim") => At(t, "trim")' \/ At(t, "pop")' \/ At(t, "health")' \/ Settled(t)'
        /\ At(t, "pop") => At(t, "pop")' \/ At(t, "health")' \/ Settled(t)'
        /\ At(t, "health") => At(t, "health")' \/ At(t, "publish")' \/ Settled(t)'
        /\ At(t, "publish") => At(t, "publish")' \/ Settled(t)'
    BY <1>5, StepMoves DEF At, AtAlert, AtFlush
  <2>2. AgentInv /\ <<Step(t)>>_vars =>
        /\ At(t, "append") => At(t, "trim")' \/ Settled(t)'
        /\ At(t, "trim") => At(t, "pop")' \/ At(t, "health")' \/ Settled(t)'
        /\ At(t, "pop") => At(t, "health")' \/ Settled(t)'
        /\ At(t, "health") => At(t, "publish")' \/ Settled(t)'
        /\ At(t, "publish") => Settled(t)'
    BY StepMoves DEF At, AtAlert, AtFlush
  <2>3. At(t, "append") \/ At(t, "trim") \/ At(t, "pop") \/ At(t, "health") \/ At(t, "publish") => ~ Idle(t)
    BY DEF At, AtAlert, AtFlush, Idle
  <2> QED  BY <1>1, <1>2, <1>4, <2>1, <2>2, <2>3, PTL DEF Spec, Runs
<1>7. FairSpec /\ []NeverWaits =>
        /\ At(t, "prev") ~> Settled(t)
        /\ At(t, "head") ~> Settled(t)
        /\ At(t, "load") ~> Settled(t)
        /\ At(t, "store") ~> Settled(t)
  <2>1. AgentInv /\ [Next]_vars =>
        /\ At(t, "prev") => At(t, "prev")' \/ At(t, "head")' \/ Settled(t)'
        /\ At(t, "head") => At(t, "head")' \/ At(t, "load")' \/ Settled(t)'
        /\ At(t, "load") => At(t, "load")' \/ At(t, "store")' \/ Settled(t)'
        /\ At(t, "store") => At(t, "store")' \/ At(t, "append")' \/ Settled(t)'
    BY <1>5, StepMoves DEF At, AtAlert, AtFlush
  <2>2. AgentInv /\ <<Step(t)>>_vars =>
        /\ At(t, "prev") => At(t, "head")' \/ Settled(t)'
        /\ At(t, "head") => At(t, "load")' \/ Settled(t)'
        /\ At(t, "load") => At(t, "store")' \/ Settled(t)'
        /\ At(t, "store") => At(t, "append")' \/ Settled(t)'
    BY StepMoves DEF At, AtAlert, AtFlush
  <2>3. At(t, "prev") \/ At(t, "head") \/ At(t, "load") \/ At(t, "store") => ~ Idle(t)
    BY DEF At, AtAlert, AtFlush, Idle
  <2> QED  BY <1>1, <1>2, <1>4, <2>1, <2>2, <2>3, <1>6, PTL DEF Spec, Runs
<1>8. FairSpec /\ []NeverWaits =>
        /\ AtAlert(t) ~> Settled(t)
        /\ AtFlush(t) ~> Settled(t)
        /\ At(t, "block") ~> Settled(t)
  <2>1. AgentInv /\ [Next]_vars =>
        /\ AtAlert(t) => AtAlert(t)' \/ AtFlush(t)' \/ Settled(t)'
        /\ AtFlush(t) => AtFlush(t)' \/ At(t, "block")' \/ Settled(t)'
        /\ At(t, "block") => At(t, "block")' \/ At(t, "prev")' \/ Settled(t)'
    BY <1>5, StepMoves DEF At, AtAlert, AtFlush
  <2>2. AgentInv /\ <<Step(t)>>_vars =>
        /\ AtAlert(t) => AtFlush(t)' \/ Settled(t)'
        /\ AtFlush(t) => At(t, "block")' \/ Settled(t)'
        /\ At(t, "block") => At(t, "prev")' \/ Settled(t)'
    BY StepMoves DEF At, AtAlert, AtFlush
  <2>3. AtAlert(t) \/ AtFlush(t) \/ At(t, "block") => ~ Idle(t)
    BY DEF At, AtAlert, AtFlush, Idle
  <2> QED  BY <1>1, <1>2, <1>4, <2>1, <2>2, <2>3, <1>7, PTL DEF Spec, Runs
<1> QED  BY <1>1, <1>2, <1>3, <1>6, <1>7, <1>8, PTL DEF Spec

=============================================================================
