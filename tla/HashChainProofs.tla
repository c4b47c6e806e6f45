-------------------------- MODULE HashChainProofs ---------------------------
(***************************************************************************)
(* Theorems about HashChain for every set of snapshots, every window size  *)
(* and every number of blocks.                                             *)
(***************************************************************************)
EXTENDS HashChain, SequenceTheorems, TLAPS

-----------------------------------------------------------------------------
(* Lemmas about the operations of ChainOps.                                *)

\* A digest determines the snapshot it was taken of and the digest before it,
\* and is one block deeper than the latter.
LEMMA DigestFacts ==
  ASSUME NEW S, NEW h \in Seq(S), NEW g \in Seq(S), NEW s \in S, NEW r \in S
  PROVE  /\ Digest(s, h) \in Seq(S)
         /\ Len(Digest(s, h)) = Len(h) + 1
         /\ Digest(s, h) = Digest(r, g) => s = r /\ h = g
BY AppendProperties, AppendInjective DEF Digest

\* Trim keeps a sequence of blocks one, drops at most its first element, and
\* returns at most MaxBlocks elements of a sequence at most one longer.
LEMMA TrimFacts ==
  ASSUME NEW B, NEW bs \in Seq(B)
  PROVE  /\ Trim(bs) \in Seq(B)
         /\ Len(bs) <= MaxBlocks => Trim(bs) = bs
         /\ Len(bs) > MaxBlocks =>
              /\ Len(Trim(bs)) = Len(bs) - 1
              /\ \A i \in 1 .. Len(Trim(bs)) : Trim(bs)[i] = bs[i + 1]
<1>1. CASE Len(bs) > MaxBlocks
  <2>1. bs # << >>  BY <1>1, MaxBlocksAssumption
  <2>2. Trim(bs) = Tail(bs)  BY <1>1 DEF Trim
  <2> QED  BY <1>1, <2>1, <2>2, HeadTailProperties, MaxBlocksAssumption
<1>2. CASE ~ (Len(bs) > MaxBlocks)
  BY <1>2, MaxBlocksAssumption, LenProperties DEF Trim
<1> QED  BY <1>1, <1>2

-----------------------------------------------------------------------------
(* Type correctness.                                                       *)

LEMMA NewBlockType ==
  ASSUME TypeOK, NEW s \in Snapshots
  PROVE  NewBlock(s) \in Block(Snapshots)
BY DigestFacts DEF TypeOK, NewBlock, Block

LEMMA TypeStep == TypeOK /\ [Next]_chainVars => TypeOK'
<1> SUFFICES ASSUME TypeOK, [Next]_chainVars PROVE TypeOK'
  OBVIOUS
<1>1. ASSUME NEW s \in Snapshots, Add(s) PROVE TypeOK'
  <2>1. Append(blocks, NewBlock(s)) \in Seq(Block(Snapshots))
    BY NewBlockType, AppendProperties DEF TypeOK
  <2>2. blocks' \in Seq(Block(Snapshots))
    BY <1>1, <2>1, TrimFacts DEF Add
  <2>3. head' \in Seq(Snapshots) /\ height' \in Nat
    BY <1>1, DigestFacts DEF Add, TypeOK
  <2> QED  BY <2>2, <2>3 DEF TypeOK
<1>2. CASE Restart
  BY <1>2 DEF Restart, TypeOK, GENESIS
<1>3. CASE UNCHANGED chainVars
  BY <1>3 DEF chainVars, TypeOK
<1> QED  BY <1>1, <1>2, <1>3 DEF Next

\* Every attribute of the chain keeps its type (integrity/chain.py:14-18).
THEOREM TypeCorrect == Spec => []TypeOK
<1>1. Init => TypeOK
  BY DEF Init, TypeOK, GENESIS
<1> QED  BY <1>1, TypeStep, PTL DEF Spec

-----------------------------------------------------------------------------
(* The window.                                                             *)

LEMMA WindowStep == TypeOK /\ WindowIsNewest /\ [Next]_chainVars => WindowIsNewest'
<1> SUFFICES ASSUME TypeOK, WindowIsNewest, [Next]_chainVars PROVE WindowIsNewest'
  OBVIOUS
<1>1. ASSUME NEW s \in Snapshots, Add(s) PROVE WindowIsNewest'
  <2> DEFINE bs == Append(blocks, NewBlock(s))
  <2>1. /\ bs \in Seq(Block(Snapshots))
        /\ Len(bs) = Len(blocks) + 1
        /\ \A i \in 1 .. Len(blocks) : bs[i] = blocks[i]
        /\ bs[Len(bs)] = NewBlock(s)
    BY NewBlockType, AppendProperties, LenProperties DEF TypeOK
  <2>2. /\ blocks' = Trim(bs) /\ height' = height + 1
        /\ head' = NewBlock(s).hash /\ NewBlock(s).idx = height
    BY <1>1 DEF Add, NewBlock
  <2>3. Len(blocks) \in Nat /\ height \in Nat /\ MaxBlocks \in Nat \ {0}
    BY MaxBlocksAssumption, LenProperties DEF TypeOK
  <2>4. \A i \in 1 .. Len(bs) : bs[i].idx = height - Len(blocks) + i - 1
    BY <2>1, <2>2, <2>3 DEF WindowIsNewest
  <2> HIDE DEF bs
  <2>5. CASE Len(bs) <= MaxBlocks
    <3>1. blocks' = bs  BY <2>1, <2>2, <2>5, TrimFacts
    <3> QED  BY <2>1, <2>2, <2>3, <2>4, <2>5, <3>1 DEF WindowIsNewest
  <2>6. CASE Len(bs) > MaxBlocks
    <3>1. /\ Len(blocks') = Len(bs) - 1
          /\ \A i \in 1 .. Len(blocks') : blocks'[i] = bs[i + 1]
      BY <2>1, <2>2, <2>6, TrimFacts
    <3>2. Len(blocks) = MaxBlocks
      BY <2>1, <2>3, <2>6 DEF WindowIsNewest
    <3>3. Len(blocks') = MaxBlocks /\ blocks' # << >>
      BY <2>1, <2>3, <3>1, <3>2
    <3>4. height >= MaxBlocks
      BY <2>3, <3>2 DEF WindowIsNewest
    <3>5. \A i \in 1 .. Len(blocks') : blocks'[i].idx = height' - Len(blocks') + i - 1
      BY <2>1, <2>2, <2>3, <2>4, <3>1, <3>2, <3>3
    <3>6. head' = blocks'[Len(blocks')].hash
      BY <2>1, <2>2, <2>3, <3>1, <3>2, <3>3
    <3> QED  BY <2>2, <2>3, <3>3, <3>4, <3>5, <3>6 DEF WindowIsNewest
  <2> QED  BY <2>1, <2>3, <2>5, <2>6
<1>2. CASE Restart
  BY <1>2, MaxBlocksAssumption DEF Restart, WindowIsNewest
<1>3. CASE UNCHANGED chainVars
  BY <1>3 DEF chainVars, WindowIsNewest
<1> QED  BY <1>1, <1>2, <1>3 DEF Next

\* The window holds exactly the newest blocks, whatever its size
\* (integrity/chain.py:28-30).
THEOREM WindowCorrect == Spec => []WindowIsNewest
<1>1. Init => WindowIsNewest
  BY MaxBlocksAssumption DEF Init, WindowIsNewest
<1> QED  BY <1>1, WindowStep, TypeCorrect, PTL DEF Spec

-----------------------------------------------------------------------------
(* The links.                                                              *)

\* The head is as deep as the chain is high.
LEMMA HeadDepth ==
  ASSUME TypeOK, WindowIsNewest, Linked
  PROVE  Len(head) = height
<1>1. CASE blocks = << >>
  BY <1>1, MaxBlocksAssumption DEF WindowIsNewest, TypeOK, GENESIS
<1>2. CASE blocks # << >>
  <2> DEFINE n == Len(blocks)
  <2>1. n \in Nat /\ n \in 1 .. n /\ height \in Nat
    BY <1>2, LenProperties DEF TypeOK
  <2>2. blocks[n] \in Block(Snapshots)
    BY <2>1, ElementOfSeq DEF TypeOK
  <2>3. Len(blocks[n].hash) = Len(blocks[n].prev) + 1
    BY <2>1, <2>2, DigestFacts DEF Linked, Block
  <2>4. blocks[n].idx = height - 1
    BY <2>1 DEF WindowIsNewest
  <2>5. Len(blocks[n].prev) = height - 1
    BY <2>1, <2>4 DEF Linked
  <2> QED  BY <1>2, <2>1, <2>3, <2>5 DEF WindowIsNewest
<1> QED  BY <1>1, <1>2

LEMMA LinkedStep ==
  TypeOK /\ WindowIsNewest /\ Linked /\ [Next]_chainVars => Linked'
<1> SUFFICES ASSUME TypeOK, WindowIsNewest, Linked, [Next]_chainVars PROVE Linked'
  OBVIOUS
<1>1. ASSUME NEW s \in Snapshots, Add(s) PROVE Linked'
  <2> DEFINE bs == Append(blocks, NewBlock(s))
             LinkAt(q, i) == /\ q[i].hash = Digest(q[i].state, q[i].prev)
                             /\ Len(q[i].prev) = q[i].idx
  <2>1. /\ bs \in Seq(Block(Snapshots))
        /\ Len(bs) = Len(blocks) + 1 /\ Len(blocks) \in Nat
        /\ \A i \in 1 .. Len(blocks) : bs[i] = blocks[i]
        /\ bs[Len(bs)] = NewBlock(s)
    BY NewBlockType, AppendProperties, LenProperties DEF TypeOK
  <2>2. \A i \in 1 .. Len(bs) : LinkAt(bs, i)
    <3>1. LinkAt(bs, Len(bs))
      BY <2>1, HeadDepth DEF NewBlock
    <3> QED  BY <2>1, <3>1 DEF Linked
  <2>3. \A i \in 2 .. Len(bs) : bs[i].prev = bs[i - 1].hash
    <3>1. ASSUME Len(blocks) > 0
          PROVE  bs[Len(bs)].prev = bs[Len(bs) - 1].hash
      <4>1. blocks # << >> /\ Len(blocks) \in 1 .. Len(blocks)
        BY <2>1, <3>1
      <4>2. head = blocks[Len(blocks)].hash
        BY <4>1 DEF WindowIsNewest
      <4>3. bs[Len(bs) - 1] = blocks[Len(blocks)]
        BY <2>1, <4>1
      <4>4. bs[Len(bs)].prev = head
        BY <2>1 DEF NewBlock
      <4> QED  BY <4>2, <4>3, <4>4
    <3>2. ASSUME NEW i \in 2 .. Len(blocks) PROVE bs[i].prev = bs[i - 1].hash
      BY <2>1 DEF Linked
    <3> QED  BY <2>1, <3>1, <3>2
  <2>4. blocks' = Trim(bs)
    BY <1>1 DEF Add
  <2> HIDE DEF bs
  <2>5. CASE Len(bs) <= MaxBlocks
    <3>1. blocks' = bs  BY <2>1, <2>4, <2>5, TrimFacts
    <3> QED  BY <2>1, <2>2, <2>3, <3>1 DEF Linked
  <2>6. CASE Len(bs) > MaxBlocks
    <3>1. /\ Len(blocks') = Len(bs) - 1
          /\ \A i \in 1 .. Len(blocks') : blocks'[i] = bs[i + 1]
      BY <2>1, <2>4, <2>6, TrimFacts
    <3>2. ASSUME NEW i \in 1 .. Len(blocks')
          PROVE  /\ LinkAt(blocks', i)
                 /\ i > 1 => blocks'[i].prev = blocks'[i - 1].hash
      <4>1. i + 1 \in 2 .. Len(bs) /\ blocks'[i] = bs[i + 1]
        BY <2>1, <3>1
      <4>2. i > 1 => i - 1 \in 1 .. Len(blocks') /\ blocks'[i - 1] = bs[i]
        BY <2>1, <3>1
      <4>3. LinkAt(bs, i + 1) /\ bs[i + 1].prev = bs[(i + 1) - 1].hash
        BY <2>2, <2>3, <2>1, <4>1
      <4> QED  BY <4>1, <4>2, <4>3
    <3> QED  BY <3>2 DEF Linked
  <2> QED  BY <2>1, <2>5, <2>6, MaxBlocksAssumption
<1>2. CASE Restart
  BY <1>2 DEF Restart, Linked
<1>3. CASE UNCHANGED chainVars
  BY <1>3 DEF chainVars, Linked
<1> QED  BY <1>1, <1>2, <1>3 DEF Next

\* Every block in memory commits to its state and to all the blocks before it
\* (integrity/chain.py:3 and 22-25).
THEOREM LinksCorrect == Spec => []Linked
<1>1. Init => Linked
  BY DEF Init, Linked
<1> QED  BY <1>1, LinkedStep, TypeCorrect, WindowCorrect, PTL DEF Spec

\* Memory holds an unbroken end of one chain, for every size of the window
\* (integrity/chain.py:20-31).
THEOREM WindowIsAlwaysChain == Spec => []WindowIsChain
BY WindowCorrect, LinksCorrect, PTL DEF WindowIsChain

-----------------------------------------------------------------------------
(* Verification.                                                           *)

LEMMA BlockFacts ==
  ASSUME TypeOK, NEW i \in 1 .. Len(blocks)
  PROVE  /\ blocks[i] \in Block(Snapshots)
         /\ blocks[i].state \in Snapshots
         /\ blocks[i].prev \in Seq(Snapshots)
         /\ blocks[i].hash \in Seq(Snapshots)
<1>1. blocks \in Seq(Block(Snapshots))
  BY DEF TypeOK
<1>2. blocks[i] \in Block(Snapshots)
  BY <1>1, ElementOfSeq
<1> QED  BY <1>2 DEF Block

\* What verify_all decides of a chain nobody touched: it accepts until the
\* window drops its first block, and rejects ever after.
VerifiesUntilTrimmed == VerifyAll(blocks) <=> height <= MaxBlocks

LEMMA VerifiesLemma == TypeOK /\ WindowIsNewest /\ Linked => VerifiesUntilTrimmed
<1> SUFFICES ASSUME TypeOK, WindowIsNewest, Linked PROVE VerifiesUntilTrimmed
  OBVIOUS
<1>0. Len(blocks) \in Nat /\ height \in Nat /\ MaxBlocks \in Nat \ {0}
  BY MaxBlocksAssumption, LenProperties DEF TypeOK
<1>1. CASE height <= MaxBlocks
  <2> SUFFICES ASSUME NEW i \in 1 .. Len(blocks)
               PROVE  blocks[i].prev = Expected(blocks, i)
    BY <1>1 DEF VerifiesUntilTrimmed, VerifyAll, Linked
  <2>1. CASE i = 1
    <3>1. Len(blocks[i].prev) = 0
      BY <1>0, <1>1, <2>1 DEF WindowIsNewest, Linked
    <3> QED  BY <2>1, <3>1, BlockFacts, EmptySeq DEF Expected, GENESIS
  <2>2. CASE i # 1
    BY <2>2, <1>0 DEF Expected, Linked
  <2> QED  BY <2>1, <2>2
<1>2. CASE height > MaxBlocks
  <2>1. 1 \in 1 .. Len(blocks) /\ Len(blocks[1].prev) = height - MaxBlocks
    BY <1>0, <1>2 DEF WindowIsNewest, Linked
  <2>2. blocks[1].prev # GENESIS
    BY <1>0, <1>2, <2>1 DEF GENESIS
  <2>3. ~ VerifyAll(blocks)
    BY <2>1, <2>2 DEF VerifyAll, Expected
  <2> QED  BY <1>0, <1>2, <2>3 DEF VerifiesUntilTrimmed
<1> QED  BY <1>0, <1>1, <1>2

\* How far the claim UntouchedVerifies reaches: verify_all accepts an untouched
\* chain exactly as long as its window never dropped a block, and past the window
\* size it rejects it for good (integrity/chain.py:28-30 and 33-42).
THEOREM VerificationCorrect == Spec => []VerifiesUntilTrimmed
BY VerifiesLemma, TypeCorrect, WindowCorrect, LinksCorrect, PTL

LEMMA TamperLemma == TypeOK /\ Linked => TamperEvident
<1> SUFFICES ASSUME TypeOK, Linked, NEW i \in 1 .. Len(blocks) PROVE
      /\ \A s \in Snapshots \ {blocks[i].state} :
           ~ VerifyAll([blocks EXCEPT ![i].state = s])
      /\ \A j \in 1 .. Len(blocks) :
           blocks[j].hash # blocks[i].prev =>
             ~ VerifyAll([blocks EXCEPT ![i].prev = blocks[j].hash])
  BY DEF TamperEvident
<1>0. blocks \in Seq(Block(Snapshots)) /\ blocks[i].hash = Digest(blocks[i].state, blocks[i].prev)
  BY DEF TypeOK, Linked
<1>1. ASSUME NEW s \in Snapshots \ {blocks[i].state},
             VerifyAll([blocks EXCEPT ![i].state = s])
      PROVE  FALSE
  <2> DEFINE bs == [blocks EXCEPT ![i].state = s]
  <2>1. /\ Len(bs) = Len(blocks)
        /\ bs[i].state = s
        /\ bs[i].prev = blocks[i].prev
        /\ bs[i].hash = blocks[i].hash
    BY <1>0, BlockFacts, ExceptSeq DEF Block
  <2> HIDE DEF bs
  <2>2. blocks[i].hash = Digest(s, blocks[i].prev)
    BY <1>1, <2>1 DEF VerifyAll, bs
  <2> DEFINE b == blocks[i]
  <2>3. b.state \in Snapshots /\ b.prev \in Seq(Snapshots)
    BY BlockFacts
  <2>4. Digest(b.state, b.prev) = Digest(s, b.prev)
    BY <1>0, <2>2
  <2> HIDE DEF b
  <2>5. b.state = s
    BY <2>3, <2>4, DigestFacts
  <2> QED  BY <2>5 DEF b
<1>2. ASSUME NEW j \in 1 .. Len(blocks), blocks[j].hash # blocks[i].prev,
             VerifyAll([blocks EXCEPT ![i].prev = blocks[j].hash])
      PROVE  FALSE
  <2> DEFINE bs == [blocks EXCEPT ![i].prev = blocks[j].hash]
  <2>1. /\ Len(bs) = Len(blocks)
        /\ bs[i].state = blocks[i].state
        /\ bs[i].prev = blocks[j].hash
        /\ bs[i].hash = blocks[i].hash
    BY <1>0, BlockFacts, ExceptSeq DEF Block
  <2> HIDE DEF bs
  <2>2. blocks[i].hash = Digest(blocks[i].state, blocks[j].hash)
    BY <1>2, <2>1 DEF VerifyAll, bs
  <2> DEFINE b == blocks[i]
             x == blocks[j].hash
  <2>3. b.state \in Snapshots /\ b.prev \in Seq(Snapshots) /\ x \in Seq(Snapshots)
    BY BlockFacts
  <2>4. Digest(b.state, b.prev) = Digest(b.state, x)
    BY <1>0, <2>2
  <2> HIDE DEF b, x
  <2>5. b.prev = x
    BY <2>3, <2>4, DigestFacts
  <2> QED  BY <1>2, <2>5 DEF b, x
<1> QED  BY <1>1, <1>2

\* No block in memory can have its state or its predecessor exchanged without
\* verify_all noticing, as long as digests do not collide
\* (integrity/chain.py:4 and 33-42).
THEOREM TamperingIsEvident == Spec => []TamperEvident
BY TamperLemma, TypeCorrect, LinksCorrect, PTL

-----------------------------------------------------------------------------
(* History.                                                                *)

LEMMA HistoryStep ==
  ASSUME TypeOK, WindowIsNewest, [Next]_chainVars
  PROVE  [ \A i \in 1 .. Len(blocks) :
             \/ \E j \in 1 .. Len(blocks') : blocks'[j] = blocks[i]
             \/ height' - blocks[i].idx > MaxBlocks
             \/ height' = 0 ]_chainVars
<1>1. ASSUME NEW s \in Snapshots, Add(s), NEW i \in 1 .. Len(blocks)
      PROVE  \/ \E j \in 1 .. Len(blocks') : blocks'[j] = blocks[i]
             \/ height' - blocks[i].idx > MaxBlocks
  <2> DEFINE bs == Append(blocks, NewBlock(s))
  <2>1. /\ bs \in Seq(Block(Snapshots))
        /\ Len(bs) = Len(blocks) + 1 /\ Len(blocks) \in Nat
        /\ bs[i] = blocks[i]
    BY NewBlockType, AppendProperties, LenProperties DEF TypeOK
  <2>2. blocks' = Trim(bs) /\ height' = height + 1 /\ height \in Nat
    BY <1>1 DEF Add, TypeOK
  <2> HIDE DEF bs
  <2>3. CASE Len(bs) <= MaxBlocks
    <3>1. blocks' = bs  BY <2>1, <2>2, <2>3, TrimFacts
    <3> QED  BY <2>1, <3>1
  <2>4. CASE Len(bs) > MaxBlocks
    <3>1. /\ Len(blocks') = Len(bs) - 1
          /\ \A k \in 1 .. Len(blocks') : blocks'[k] = bs[k + 1]
      BY <2>1, <2>2, <2>4, TrimFacts
    <3>2. CASE i = 1
      <4>1. Len(blocks) = MaxBlocks
        BY <2>1, <2>2, <2>4, MaxBlocksAssumption DEF WindowIsNewest
      <4>2. blocks[i].idx = height - MaxBlocks
        BY <2>2, <3>2, <4>1, MaxBlocksAssumption DEF WindowIsNewest
      <4> QED  BY <2>2, <4>2, MaxBlocksAssumption
    <3>3. CASE i # 1
      <4>1. i - 1 \in 1 .. Len(blocks') /\ blocks'[i - 1] = bs[i]
        BY <2>1, <3>1, <3>3
      <4> QED  BY <2>1, <4>1
    <3> QED  BY <3>2, <3>3
  <2> QED  BY <2>1, <2>3, <2>4, MaxBlocksAssumption
<1>2. CASE Restart
  BY <1>2 DEF Restart
<1>3. CASE UNCHANGED chainVars
  BY <1>3
<1> QED  BY <1>1, <1>2, <1>3 DEF Next

\* No block is lost before the window had to drop it
\* (integrity/chain.py:28-30).
THEOREM HistoryCorrect == Spec => HistoryIsKept
<1>1. TypeOK /\ WindowIsNewest /\ [Next]_chainVars =>
        [ \A i \in 1 .. Len(blocks) :
            \/ \E j \in 1 .. Len(blocks') : blocks'[j] = blocks[i]
            \/ height' - blocks[i].idx > MaxBlocks
            \/ height' = 0 ]_chainVars
  BY HistoryStep
<1> QED  BY <1>1, TypeCorrect, WindowCorrect, PTL DEF Spec, HistoryIsKept
=============================================================================
