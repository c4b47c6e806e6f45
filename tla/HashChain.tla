----------------------------- MODULE HashChain ------------------------------
(***************************************************************************)
(* integrity/chain.py with add as one indivisible operation: the contract  *)
(* every caller of the chain relies on.  IntegrityAgent models the same    *)
(* operation statement by statement, as its threads really run it, and is  *)
(* shown to implement this specification until two adds overlap.           *)
(***************************************************************************)
EXTENDS ChainOps, Integers

CONSTANTS Snapshots,          \* the state dictionaries that may be chained
          MaxHeight           \* bound of the model: blocks added per process

VARIABLES head, height, blocks

chainVars == <<head, height, blocks>>

Init ==
  /\ head = GENESIS
  /\ height = 0
  /\ blocks = << >>

NewBlock(s) ==
  [idx |-> height, state |-> s, prev |-> head, hash |-> Digest(s, head)]

Add(s) ==
  /\ height < MaxHeight
  /\ head' = Digest(s, head)
  /\ height' = height + 1
  /\ blocks' = Trim(Append(blocks, NewBlock(s)))

\* The controller process ends and a new one builds its chain: nothing of
\* the chain is kept on disk, so __init__ starts again from GENESIS.
Restart ==
  /\ head' = GENESIS
  /\ height' = 0
  /\ blocks' = << >>

Next == Restart \/ \E s \in Snapshots : Add(s)

Spec == Init /\ [][Next]_chainVars

-----------------------------------------------------------------------------
\* Every variable has the type the Python attribute has.
TypeOK ==
  /\ head \in Seq(Snapshots)
  /\ height \in Nat
  /\ blocks \in Seq(Block(Snapshots))

\* The window of add (chain.py:28-30) holds the newest blocks and all of
\* them: exactly the last MaxBlocks of the height blocks ever added, numbered
\* without a gap, the newest one carrying the current head.
WindowIsNewest ==
  /\ Len(blocks) = IF height <= MaxBlocks THEN height ELSE MaxBlocks
  /\ \A i \in 1 .. Len(blocks) : blocks[i].idx = (height - Len(blocks)) + i - 1
  /\ head = IF blocks = << >> THEN GENESIS ELSE blocks[Len(blocks)].hash

\* Each block in memory commits to its own state and, through prev, to all
\* the blocks before it: its digest is as deep as its index, and prev is the
\* digest of the block before it (chain.py:3, the definition of the chain).
Linked ==
  \A i \in 1 .. Len(blocks) :
    /\ blocks[i].hash = Digest(blocks[i].state, blocks[i].prev)
    /\ Len(blocks[i].prev) = blocks[i].idx
    /\ i > 1 => blocks[i].prev = blocks[i - 1].hash

\* Both: whatever was dropped, memory holds an unbroken end of one chain that
\* commits to everything ever added (chain.py:20-31).
WindowIsChain == WindowIsNewest /\ Linked

\* An untouched chain verifies: "assert self.chain.verify_all() is True" after
\* nothing but adds (tests/test_chain.py:39-42), and a verify_all that fails is
\* the sign of tampering (README.md:259).  False from block MaxBlocks + 1 on,
\* when the oldest block in memory no longer follows GENESIS (chain.py:28-34).
UntouchedVerifies == VerifyAll(blocks)

\* Changing the state of any one block in memory, or the prev it records, is
\* noticed by verify_all (chain.py:4, tests/test_chain.py:44-55).
TamperEvident ==
  \A i \in 1 .. Len(blocks) :
    /\ \A s \in Snapshots \ {blocks[i].state} :
         ~ VerifyAll([blocks EXCEPT ![i].state = s])
    /\ \A j \in 1 .. Len(blocks) :
         blocks[j].hash # blocks[i].prev =>
           ~ VerifyAll([blocks EXCEPT ![i].prev = blocks[j].hash])

\* Adding never rewrites history: a block stays in memory, unchanged, until
\* MaxBlocks newer ones exist or the process is replaced (chain.py:28-30).
HistoryIsKept ==
  [][ \A i \in 1 .. Len(blocks) :
        \/ \E j \in 1 .. Len(blocks') : blocks'[j] = blocks[i]
        \/ height' - blocks[i].idx > MaxBlocks
        \/ height' = 0 ]_chainVars

=============================================================================
