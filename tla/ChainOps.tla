------------------------------ MODULE ChainOps ------------------------------
(***************************************************************************)
(* The data operations of integrity/chain.py: what a digest commits to,    *)
(* how the in-memory window of blocks is trimmed, and what verify_all      *)
(* recomputes.  HashChain and IntegrityAgent are built from them.          *)
(*                                                                         *)
(* A digest is modelled by the history it commits to.  SHA3_256(canon(s) + *)
(* prev) becomes the sequence prev with s appended: injective in both      *)
(* arguments, which is collision resistance, and deterministic.            *)
(***************************************************************************)
EXTENDS Naturals, Sequences

CONSTANT MaxBlocks            \* blocks kept in memory; 1000 in the code

ASSUME MaxBlocksAssumption == MaxBlocks \in Nat \ {0}

GENESIS == << >>              \* "0" * 64, the hash that precedes block 0

Digest(state, prev) == Append(prev, state)

\* The dictionary HashChain.add builds; cid and ts identify nothing else.
Block(Snapshots) ==
  [idx : Nat, state : Snapshots, prev : Seq(Snapshots), hash : Seq(Snapshots)]

Trim(bs) == IF Len(bs) > MaxBlocks THEN Tail(bs) ELSE bs

\* What verify_all expects as the predecessor of the i-th block in memory:
\* it always starts from GENESIS, whatever the index of the oldest block.
Expected(bs, i) == IF i = 1 THEN GENESIS ELSE bs[i - 1].hash

\* A mutated form of VerifyAll: compare the links, recompute no digest.
VerifyLinksOnly(bs) == \A i \in 1 .. Len(bs) : bs[i].prev = Expected(bs, i)

VerifyAll(bs) ==
  \A i \in 1 .. Len(bs) :
    /\ bs[i].prev = Expected(bs, i)
    /\ bs[i].hash = Digest(bs[i].state, Expected(bs, i))
=============================================================================
