-------------------------- MODULE ConsensusProofs ---------------------------
(***************************************************************************)
(* Theorems about Consensus for every finite set of peers, every scale of  *)
(* trust and every number of crashes and faults.                           *)
(***************************************************************************)
EXTENDS Consensus, Progress, FiniteSetTheorems, WellFoundedInduction, TLAPS

LEMMA Bounds ==
  /\ TrustMax \in Nat /\ Gain \in Nat /\ Penalty \in Nat /\ Low \in Nat /\ Low <= TrustMax
  /\ Gain > 0 /\ Penalty > 0 /\ Low > 0
  /\ MaxCrashes \in Nat /\ MaxGlitches \in Nat
BY ConsensusAssumption

-----------------------------------------------------------------------------
(* Type correctness.                                                       *)

Trusts == UNION {[ps -> Scores] : ps \in SUBSET Peers}

LEMMA TrustsDef ==
  \A f : f \in Trusts <=> (DOMAIN f \subseteq Peers /\ f \in [DOMAIN f -> Scores])
BY DEF Trusts

LEMMA ScoreTypes ==
  /\ TrustMax \in Scores /\ 0 \in Scores
  /\ \A n \in Scores : Raised(n) \in Scores /\ Lowered(n) \in Scores
BY Bounds DEF Scores, Raised, Lowered

LEMMA ScoreType ==
  ASSUME trust \in Trusts, NEW p
  PROVE  Score(p) \in Scores
BY TrustsDef, ScoreTypes DEF Score

LEMMA SetTrustFacts ==
  ASSUME trust \in Trusts, NEW p \in Peers, NEW n \in Scores, SetTrust(p, n)
  PROVE  /\ trust' \in Trusts
         /\ DOMAIN trust' = DOMAIN trust \cup {p}
         /\ trust'[p] = n
         /\ \A q \in DOMAIN trust \ {p} : trust'[q] = trust[q]
<1>1. DOMAIN trust \subseteq Peers /\ \A q \in DOMAIN trust : trust[q] \in Scores
  BY TrustsDef
<1>2. trust' = [q \in DOMAIN trust \cup {p} |-> IF q = p THEN n ELSE trust[q]]
  BY DEF SetTrust
<1>3. trust' \in [DOMAIN trust \cup {p} -> Scores]
  BY <1>1, <1>2
<1> QED  BY <1>1, <1>2, <1>3, TrustsDef

LEMMA SizeType ==
  \A s \in SUBSET Peers : Cardinality(s) \in 0 .. Cardinality(Peers)
BY ConsensusAssumption, FS_Subset, FS_CardinalityType

LEMMA ConsensusTypeStep == TypeOK /\ [Next]_vars => TypeOK'
<1> SUFFICES ASSUME TypeOK, [Next]_vars PROVE TypeOK'
  OBVIOUS
<1> USE Bounds DEF own
<1>t. trust \in Trusts
  BY DEF TypeOK, Trusts
<1>1. ASSUME NEW p \in Peers, Start(p) \/ MakeKeys(p) \/ Kill(p) \/ Mute(p) PROVE TypeOK'
  BY <1>1 DEF TypeOK, Start, MakeKeys, Kill, Mute, HasPrivate, Processes, locals
<1>2. ASSUME NEW t \in Peers, Push(t) PROVE TypeOK'
  <2>1. score' \in [Peers -> Scores] /\ pc' \in [Peers -> Positions]
    BY <1>2, <1>t, ScoreType
    DEF Push, VerifyRight, VerifyWrong, Glitch, Verify, Goto, TypeOK, Positions
  <2>2. glitches' \in 0 .. MaxGlitches
    BY <1>2 DEF Push, VerifyRight, VerifyWrong, Glitch, TypeOK
  <2> QED
    BY <1>2, <2>1, <2>2 DEF TypeOK, Push, VerifyRight, VerifyWrong, Glitch, Verify, peerVars
<1>3. ASSUME NEW t \in Peers, EarnTrust(t) \/ LoseTrust(t) PROVE TypeOK'
  <2>1. trust' \in Trusts
    BY <1>3, <1>t, ScoreTypes, SetTrustFacts DEF EarnTrust, LoseTrust, TypeOK
  <2> QED
    BY <1>3, <2>1, ScoreTypes DEF TypeOK, Trusts, EarnTrust, LoseTrust, Goto, Positions, peerVars
<1>4. ASSUME NEW t \in Peers, Accept(t) \/ Copy(t) PROVE TypeOK'
  BY <1>4 DEF TypeOK, Accept, Copy, Goto, Positions, peerVars
<1>5. ASSUME NEW t \in Peers, NEW p \in Peers, LoadScore(t, p) PROVE TypeOK'
  BY <1>5, <1>t, ScoreType DEF TypeOK, LoadScore, Goto, Positions, peerVars
<1>6. ASSUME NEW t \in Peers, NEW p \in Peers, StoreScore(t, p) PROVE TypeOK'
  <2>1. trust' \in Trusts
    BY <1>6, <1>t, ScoreTypes, SetTrustFacts DEF StoreScore, TypeOK
  <2> QED
    BY <1>6, <2>1, ScoreTypes DEF TypeOK, Trusts, StoreScore, Goto, Positions, peerVars
<1>7. ASSUME NEW t \in Peers, CheckChain(t) PROVE TypeOK'
  <2>1. DOMAIN trust \in SUBSET Peers /\ Suspects \in SUBSET Peers
    BY <1>t, TrustsDef DEF Suspects
  <2>2. Cardinality(DOMAIN trust) \in 0 .. Cardinality(Peers)
    BY <2>1, SizeType
  <2> QED  BY <1>7, <2>1, <2>2 DEF TypeOK, CheckChain, Goto, Positions, peerVars
<1>8. ASSUME NEW t \in Peers, Fail(t) \/ Finish(t) PROVE TypeOK'
  <2>1. 0 \in 0 .. Cardinality(Peers)
    BY SizeType, FS_EmptySet
  <2> QED  BY <1>8, <2>1 DEF TypeOK, Fail, Finish, EndRound, Goto, Positions, peerVars
<1>9. ASSUME NEW t \in Peers, NEW p \in Peers, Visit(t, p) PROVE TypeOK'
  BY <1>9 DEF TypeOK, Visit, peerVars
<1>10. CASE BreakChain
  BY <1>10 DEF TypeOK, BreakChain, locals, peerVars
<1>11. CASE UNCHANGED vars
  BY <1>11 DEF TypeOK, vars, locals, peerVars
<1> QED
  BY <1>1, <1>2, <1>3, <1>4, <1>5, <1>6, <1>7, <1>8, <1>9, <1>10, <1>11 DEF Next, Handle

\* Scores stay within 0 and TrustMax, and an iteration's size within the number
\* of peers, however threads overlap (integrity/agent.py:166-214).
THEOREM ConsensusTypeCorrect == Spec => []TypeOK
<1>1. Init => TypeOK
  <2>1. 0 \in 0 .. Cardinality(Peers)
    BY SizeType, FS_EmptySet
  <2>2. [p \in {} |-> 0] \in Trusts
    BY TrustsDef
  <2>3. ASSUME Init PROVE trust \in Trusts
    BY <2>2, <2>3 DEF Init
  <2>4. ASSUME Init
        PROVE  /\ score \in [Peers -> Scores] /\ size \in [Peers -> 0 .. Cardinality(Peers)]
               /\ pc \in [Peers -> Positions] /\ peer \in [Peers -> Processes]
    BY <2>1, <2>4, ScoreTypes DEF Init, Positions, Processes
  <2>5. ASSUME Init
        PROVE  /\ keys \in [Peers -> 0 .. 4] /\ known \subseteq Peers /\ chainOk \in BOOLEAN
               /\ crashes \in 0 .. MaxCrashes /\ glitches \in 0 .. MaxGlitches
               /\ cur \in [Peers -> SUBSET Peers] /\ todo \in [Peers -> SUBSET Peers]
               /\ flags \in [Peers -> SUBSET Peers] /\ due \in [Peers -> SUBSET Peers]
               /\ fails \in [Peers -> Nat]
    BY <2>5, Bounds DEF Init
  <2> QED  BY <2>3, <2>4, <2>5 DEF TypeOK, Trusts
<1> QED  BY <1>1, ConsensusTypeStep, PTL DEF Spec

-----------------------------------------------------------------------------
(* Keys, and who is on record.                                             *)

\* What a peer's process, and what it left behind, say of its key files.
KeyInv ==
  \A p \in Peers :
    /\ peer[p] \in {"up", "mute"} => CanSign(p)
    /\ peer[p] = "making" => ~ CanVerify(p)
    /\ p \in DOMAIN trust \/ pc[p] # "idle" => CanSign(p) /\ peer[p] # "making"

\* What a thread has established at its position.
RecordInv ==
  /\ OnlyVerifiedOnRecord
  /\ \A t \in Peers :
       /\ pc[t] \notin {"idle", "penalty"} => CanVerify(t)
       /\ pc[t] \in {"load", "store"} => todo[t] \subseteq known
       /\ pc[t] = "store" => cur[t] \subseteq known

\* Nobody becomes verifiable once a push of its got to the signature.
LEMMA KeysStay ==
  ASSUME TypeOK, KeyInv, [Next]_vars
  PROVE  /\ \A p \in Peers : CanVerify(p) => CanVerify(p)'
         /\ \A p \in Peers : CanSign(p) => CanSign(p)'
         /\ \A p \in Peers : p \in DOMAIN trust \/ pc[p] # "idle" =>
              (CanVerify(p)' <=> CanVerify(p))
<1> USE DEF CanVerify, CanSign
<1>1. ASSUME NEW p \in Peers, MakeKeys(p)
      PROVE  /\ peer[p] = "making" /\ keys' = [keys EXCEPT ![p] = @ + 1]
             /\ keys' \in [Peers -> 0 .. 4]
  BY <1>1, ConsensusTypeStep DEF MakeKeys, TypeOK
<1>2. ASSUME ~ \E p \in Peers : MakeKeys(p) PROVE keys' = keys
  BY <1>2 DEF Next, Start, Kill, Mute, Push, VerifyRight, VerifyWrong, Glitch, Verify, Handle,
     EarnTrust, LoseTrust, Accept, Copy, LoadScore, StoreScore, CheckChain, Fail, Finish,
     EndRound, Visit, BreakChain, peerVars, vars
<1>3. ASSUME NEW p \in Peers, MakeKeys(p)
      PROVE \A q \in Peers : /\ keys'[q] = (IF q = p THEN keys[q] + 1 ELSE keys[q])
                             /\ keys[q] \in 0 .. 4 /\ keys'[q] \in 0 .. 4
  BY <1>3, <1>1 DEF TypeOK
<1> QED  BY <1>1, <1>2, <1>3 DEF KeyInv

LEMMA KeyStep == TypeOK /\ KeyInv /\ RecordInv /\ [Next]_vars => KeyInv'
<1> SUFFICES ASSUME TypeOK, KeyInv, RecordInv, [Next]_vars PROVE KeyInv'
  OBVIOUS
<1>t. trust \in Trusts /\ pc \in [Peers -> Positions] /\ peer \in [Peers -> Processes]
      /\ keys \in [Peers -> 0 .. 4]
  BY DEF TypeOK, Trusts
<1>0. \A p \in Peers : CanSign(p) => CanSign(p)'
  BY KeysStay
<1>1. ASSUME NEW p \in Peers, Start(p) PROVE KeyInv'
  <2>1. /\ trust' = trust /\ pc' = pc /\ keys' = keys
        /\ peer' = [peer EXCEPT ![p] = IF HasPrivate(p) THEN "up" ELSE "making"]
        /\ HasPrivate(p) => CanSign(p)
    BY <1>1 DEF Start, locals, own
  <2>2. (CanSign(p) => HasPrivate(p)) /\ (CanVerify(p) => HasPrivate(p))
    BY <1>t, <2>1 DEF CanSign, CanVerify, HasPrivate
  <2> QED  BY <1>t, <2>1, <2>2 DEF KeyInv, CanSign, CanVerify, HasPrivate
<1>2. ASSUME NEW p \in Peers, MakeKeys(p) PROVE KeyInv'
  <2>1. /\ trust' = trust /\ pc' = pc /\ keys' = [keys EXCEPT ![p] = @ + 1]
        /\ peer' = [peer EXCEPT ![p] = IF keys[p] = 3 THEN "up" ELSE "making"]
        /\ peer[p] = "making"
    BY <1>2 DEF MakeKeys, locals, own
  <2>2. /\ keys[p] = 3 => CanSign(p)'
        /\ keys[p] # 3 /\ ~ CanVerify(p) => ~ CanVerify(p)'
        /\ \A q \in Peers \ {p} : (CanVerify(q)' <=> CanVerify(q)) /\ (CanSign(q)' <=> CanSign(q))
    BY <1>t, <2>1 DEF CanSign, CanVerify
  <2> QED  BY <1>t, <1>0, <2>1, <2>2 DEF KeyInv
<1>3. ASSUME NEW p \in Peers, Kill(p) \/ Mute(p) PROVE KeyInv'
  BY <1>t, <1>3 DEF Kill, Mute, KeyInv, locals, own, CanSign, CanVerify
<1>4. ASSUME NEW t \in Peers, Push(t) PROVE KeyInv'
  <2>1. /\ peer' = peer /\ keys' = keys /\ trust' = trust /\ peer[t] = "up"
        /\ \A p \in Peers \ {t} : pc'[p] = pc[p]
    BY <1>t, <1>4 DEF Push, VerifyRight, VerifyWrong, Glitch, Verify, Goto, peerVars
  <2> QED  BY <1>t, <2>1 DEF KeyInv, CanSign, CanVerify
<1>5. ASSUME NEW t \in Peers, EarnTrust(t) \/ LoseTrust(t) PROVE KeyInv'
  <2>1. /\ peer' = peer /\ keys' = keys /\ pc[t] # "idle" /\ \A p \in Peers \ {t} : pc'[p] = pc[p]
    BY <1>t, <1>5 DEF EarnTrust, LoseTrust, Goto, peerVars
  <2>2. DOMAIN trust' = DOMAIN trust \cup {t}
    BY <1>t, <1>5, ScoreTypes, SetTrustFacts DEF EarnTrust, LoseTrust, TypeOK
  <2> QED  BY <1>t, <2>1, <2>2 DEF KeyInv, CanSign, CanVerify
<1>6. ASSUME NEW t \in Peers, Accept(t) \/ Copy(t) \/ CheckChain(t) \/ Fail(t) \/ Finish(t)
             \/ \E p \in Peers : LoadScore(t, p) \/ Visit(t, p)
      PROVE  KeyInv'
  <2>1. /\ peer' = peer /\ keys' = keys /\ trust' = trust /\ pc[t] # "idle"
        /\ \A p \in Peers \ {t} : pc'[p] = pc[p]
    BY <1>t, <1>6
    DEF Accept, Copy, CheckChain, Fail, Finish, EndRound, LoadScore, Visit, Goto, peerVars
  <2> QED  BY <1>t, <2>1 DEF KeyInv, CanSign, CanVerify
<1>7. ASSUME NEW t \in Peers, NEW p \in Peers, StoreScore(t, p) PROVE KeyInv'
  <2>1. /\ peer' = peer /\ keys' = keys /\ pc[t] # "idle"
        /\ \A q \in Peers \ {t} : pc'[q] = pc[q]
    BY <1>t, <1>7 DEF StoreScore, Goto, peerVars
  <2>2. DOMAIN trust' = DOMAIN trust \cup {p}
    BY <1>t, <1>7, ScoreTypes, SetTrustFacts DEF StoreScore, TypeOK
  <2>3. CanVerify(p)
    BY <1>7 DEF StoreScore, RecordInv, OnlyVerifiedOnRecord
  <2>4. CanSign(p) /\ peer[p] # "making"
    BY <2>3, <1>t DEF KeyInv, CanVerify, CanSign
  <2> QED  BY <1>t, <2>1, <2>2, <2>4 DEF KeyInv, CanSign, CanVerify
<1>8. CASE BreakChain
  BY <1>8 DEF BreakChain, KeyInv, CanSign, CanVerify, locals, own, peerVars
<1>9. CASE UNCHANGED vars
  BY <1>9 DEF vars, KeyInv, CanSign, CanVerify, locals, own, peerVars
<1> QED
  BY <1>1, <1>2, <1>3, <1>4, <1>5, <1>6, <1>7, <1>8, <1>9 DEF Next, Handle

LEMMA RecordStep == TypeOK /\ KeyInv /\ RecordInv /\ [Next]_vars => RecordInv'
<1> SUFFICES ASSUME TypeOK, KeyInv, RecordInv, [Next]_vars PROVE RecordInv'
  OBVIOUS
<1>t. /\ pc \in [Peers -> Positions] /\ todo \in [Peers -> SUBSET Peers]
      /\ cur \in [Peers -> SUBSET Peers] /\ known \subseteq Peers
  BY DEF TypeOK
<1>0. \A p \in Peers : CanVerify(p) => CanVerify(p)'
  BY KeysStay
<1> USE DEF RecordInv, OnlyVerifiedOnRecord
<1>1. ASSUME NEW p \in Peers, Start(p) \/ MakeKeys(p) \/ Kill(p) \/ Mute(p) PROVE RecordInv'
  <2>1. known' = known /\ pc' = pc /\ todo' = todo /\ cur' = cur
    BY <1>1 DEF Start, MakeKeys, Kill, Mute, locals, own
  <2> QED  BY <1>t, <1>0, <2>1
<1>2. ASSUME NEW t \in Peers, Push(t) PROVE RecordInv'
  <2>1. /\ known' = known /\ todo' = todo /\ cur' = cur
        /\ \A p \in Peers \ {t} : pc'[p] = pc[p]
        /\ pc'[t] = "penalty" \/ (pc'[t] = "gain" /\ CanVerify(t))
    BY <1>t, <1>2 DEF Push, VerifyRight, VerifyWrong, Glitch, Verify, Goto
  <2> QED  BY <1>t, <1>0, <2>1
<1>3. ASSUME NEW t \in Peers, EarnTrust(t) \/ LoseTrust(t) PROVE RecordInv'
  <2>1. /\ known' = known /\ todo' = todo /\ cur' = cur
        /\ \A p \in Peers \ {t} : pc'[p] = pc[p]
        /\ pc'[t] = "idle" \/ (pc'[t] = "accept" /\ pc[t] = "gain")
    BY <1>t, <1>3 DEF EarnTrust, LoseTrust, Goto
  <2> QED  BY <1>t, <1>0, <2>1
<1>4. ASSUME NEW t \in Peers, Accept(t) PROVE RecordInv'
  <2>1. /\ known' = known \cup {t} /\ todo' = todo /\ cur' = cur
        /\ \A p \in Peers \ {t} : pc'[p] = pc[p]
        /\ pc'[t] = "copy" /\ pc[t] = "accept"
    BY <1>t, <1>4 DEF Accept, Goto
  <2> QED  BY <1>t, <1>0, <2>1
<1>5. ASSUME NEW t \in Peers, Copy(t) PROVE RecordInv'
  <2>1. /\ known' = known /\ cur' = cur /\ todo' = [todo EXCEPT ![t] = known]
        /\ \A p \in Peers \ {t} : pc'[p] = pc[p]
        /\ pc'[t] = "load" /\ pc[t] = "copy"
    BY <1>t, <1>5 DEF Copy, Goto
  <2> QED  BY <1>t, <1>0, <2>1
<1>6. ASSUME NEW t \in Peers, NEW q \in Peers, LoadScore(t, q) PROVE RecordInv'
  <2>1. /\ known' = known /\ cur' = [cur EXCEPT ![t] = {q}]
        /\ todo' = [todo EXCEPT ![t] = @ \ {q}]
        /\ \A p \in Peers \ {t} : pc'[p] = pc[p]
        /\ pc'[t] = "store" /\ pc[t] = "load" /\ q \in todo[t]
    BY <1>t, <1>6 DEF LoadScore, Goto
  <2> QED  BY <1>t, <1>0, <2>1
<1>7. ASSUME NEW t \in Peers, NEW q \in Peers, StoreScore(t, q) PROVE RecordInv'
  <2>1. /\ known' = known /\ cur' = [cur EXCEPT ![t] = {}] /\ todo' = todo
        /\ \A p \in Peers \ {t} : pc'[p] = pc[p]
        /\ pc'[t] \in {"check", "load"} /\ pc[t] = "store"
    BY <1>t, <1>7 DEF StoreScore, Goto
  <2> QED  BY <1>t, <1>0, <2>1
<1>8. ASSUME NEW t \in Peers, CheckChain(t) \/ Fail(t) \/ Finish(t)
             \/ \E p \in Peers : Visit(t, p)
      PROVE  RecordInv'
  <2>1. /\ known' = known /\ cur' = cur
        /\ \A p \in Peers \ {t} : pc'[p] = pc[p] /\ todo'[p] = todo[p]
        /\ pc'[t] \in {"idle", "iterate"} /\ pc[t] \in {"check", "iterate"}
    BY <1>t, <1>8 DEF CheckChain, Fail, Finish, EndRound, Visit, Goto
  <2> QED  BY <1>t, <1>0, <2>1
<1>9. CASE BreakChain \/ UNCHANGED vars
  <2>1. known' = known /\ pc' = pc /\ todo' = todo /\ cur' = cur
    BY <1>9 DEF BreakChain, vars, locals, own
  <2> QED  BY <1>t, <1>0, <2>1
<1> QED
  BY <1>1, <1>2, <1>3, <1>4, <1>5, <1>6, <1>7, <1>8, <1>9 DEF Next, Handle

\* Whoever is on record made both its key files; no restart makes others
\* (integrity/signer.py:30-33).
THEOREM RecordCorrect == Spec => []OnlyVerifiedOnRecord
<1>1. Init => KeyInv /\ RecordInv
  BY DEF Init, KeyInv, RecordInv, OnlyVerifiedOnRecord
<1>2. RecordInv => OnlyVerifiedOnRecord
  BY DEF RecordInv
<1> QED  BY <1>1, <1>2, KeyStep, RecordStep, ConsensusTypeCorrect, PTL DEF Spec

-----------------------------------------------------------------------------
(* What a round reports.                                                   *)

\* A score that only its own peer's thread writes is not stale in that thread,
\* and what is due is still low and either reported or still to be visited.
DueInv ==
  \A t \in Peers :
    /\ pc[t] = "penalty" /\ ~ CanVerify(t) => score[t] = Score(t)
    /\ pc[t] = "iterate" => due[t] \subseteq Suspects /\ due[t] \subseteq flags[t] \cup todo[t]

\* Once low, the score of a peer nobody can verify stays low.
LEMMA SuspectsStay ==
  ASSUME TypeOK, KeyInv, RecordInv, DueInv, [Next]_vars
  PROVE  /\ Suspects \subseteq Suspects'
         /\ \A p \in Peers : ~ CanVerify(p) /\ pc[p] = "penalty" /\ pc'[p] = "penalty" =>
              Score(p)' = Score(p)
<1>t. trust \in Trusts /\ score \in [Peers -> Scores]
  BY DEF TypeOK, Trusts
<1>d. DOMAIN trust \subseteq Peers /\ \A p \in DOMAIN trust : trust[p] \in Scores
  BY <1>t, TrustsDef
<1>0. \A p \in Peers : p \in DOMAIN trust \/ pc[p] # "idle" => (CanVerify(p)' <=> CanVerify(p))
  BY KeysStay
<1>1. ASSUME NEW t \in Peers, EarnTrust(t)
      PROVE  \A p \in DOMAIN trust : ~ CanVerify(p) => p \in DOMAIN trust' /\ trust'[p] = trust[p]
  <2>1. CanVerify(t)
    BY <1>1 DEF EarnTrust, RecordInv
  <2>2. /\ DOMAIN trust' = DOMAIN trust \cup {t}
        /\ \A q \in DOMAIN trust \ {t} : trust'[q] = trust[q]
    BY <1>t, <1>1, ScoreTypes, SetTrustFacts DEF EarnTrust
  <2> QED  BY <2>1, <2>2
<1>2. ASSUME NEW t \in Peers, NEW q \in Peers, StoreScore(t, q)
      PROVE  \A p \in DOMAIN trust : ~ CanVerify(p) => p \in DOMAIN trust' /\ trust'[p] = trust[p]
  <2>1. CanVerify(q)
    BY <1>2 DEF StoreScore, RecordInv, OnlyVerifiedOnRecord
  <2>2. /\ DOMAIN trust' = DOMAIN trust \cup {q}
        /\ \A p \in DOMAIN trust \ {q} : trust'[p] = trust[p]
    BY <1>t, <1>2, ScoreTypes, SetTrustFacts DEF StoreScore
  <2> QED  BY <2>1, <2>2
<1>3. ASSUME NEW t \in Peers, LoseTrust(t)
      PROVE  \A p \in DOMAIN trust : ~ CanVerify(p) =>
               p \in DOMAIN trust' /\ (trust[p] < Low => trust'[p] < Low)
                                   /\ (p # t => trust'[p] = trust[p])
  <2>1. /\ DOMAIN trust' = DOMAIN trust \cup {t}
        /\ trust'[t] = Lowered(score[t])
        /\ \A q \in DOMAIN trust \ {t} : trust'[q] = trust[q]
    BY <1>t, <1>3, ScoreTypes, SetTrustFacts DEF LoseTrust
  <2>2. t \in DOMAIN trust /\ ~ CanVerify(t) => score[t] = trust[t]
    BY <1>3 DEF LoseTrust, DueInv, Score
  <2>3. \A n \in Scores : n < Low => Lowered(n) < Low
    BY Bounds DEF Scores, Lowered
  <2> QED  BY <1>d, <2>1, <2>2, <2>3
<1>4. ASSUME ~ \E t \in Peers : EarnTrust(t) \/ LoseTrust(t) \/ \E q \in Peers : StoreScore(t, q)
      PROVE  trust' = trust
  BY <1>4 DEF Next, Start, MakeKeys, Kill, Mute, Push, VerifyRight, VerifyWrong, Glitch, Verify,
     Handle, Accept, Copy, LoadScore, CheckChain, Fail, Finish, EndRound, Visit, BreakChain, vars
<1>5. Suspects \subseteq Suspects'
  <2>1. ASSUME NEW p \in Suspects PROVE p \in DOMAIN trust' /\ trust'[p] < Low
    BY <2>1, <1>1, <1>2, <1>3, <1>4 DEF Suspects
  <2>2. \A p \in Suspects : p \in Peers /\ ~ CanVerify(p)'
    BY <1>0, <1>d DEF Suspects
  <2> QED  BY <2>1, <2>2 DEF Suspects
<1>6. ASSUME NEW p \in Peers, ~ CanVerify(p), pc[p] = "penalty", pc'[p] = "penalty"
      PROVE  Score(p)' = Score(p)
  <2>1. ~ EarnTrust(p) /\ ~ LoseTrust(p)
    BY <1>6 DEF EarnTrust, LoseTrust, Goto, TypeOK
  <2>2. ASSUME NEW t \in Peers \ {p}, EarnTrust(t) \/ LoseTrust(t)
        PROVE  (p \in DOMAIN trust' <=> p \in DOMAIN trust) /\ (p \in DOMAIN trust => trust'[p] = trust[p])
    BY <1>t, <2>2, ScoreTypes, SetTrustFacts DEF EarnTrust, LoseTrust
  <2>3. ASSUME NEW t \in Peers, NEW q \in Peers, StoreScore(t, q)
        PROVE  (p \in DOMAIN trust' <=> p \in DOMAIN trust) /\ (p \in DOMAIN trust => trust'[p] = trust[p])
    <3>1. q # p
      BY <1>6, <2>3 DEF StoreScore, RecordInv, OnlyVerifiedOnRecord
    <3> QED  BY <1>t, <2>3, <3>1, ScoreTypes, SetTrustFacts DEF StoreScore
  <2>4. (p \in DOMAIN trust' <=> p \in DOMAIN trust) /\ (p \in DOMAIN trust => trust'[p] = trust[p])
    BY <1>4, <2>1, <2>2, <2>3
  <2> QED  BY <2>4 DEF Score
<1> QED  BY <1>5, <1>6

LEMMA DueStep == TypeOK /\ KeyInv /\ RecordInv /\ DueInv /\ [Next]_vars => DueInv'
<1> SUFFICES ASSUME TypeOK, KeyInv, RecordInv, DueInv, [Next]_vars,
                    NEW t \in Peers
             PROVE  /\ pc'[t] = "penalty" /\ ~ CanVerify(t)' => score'[t] = Score(t)'
                    /\ pc'[t] = "iterate" => /\ due'[t] \subseteq Suspects'
                                             /\ due'[t] \subseteq flags'[t] \cup todo'[t]
  BY DEF DueInv
<1>t. /\ pc \in [Peers -> Positions] /\ score \in [Peers -> Scores]
      /\ todo \in [Peers -> SUBSET Peers] /\ flags \in [Peers -> SUBSET Peers]
      /\ due \in [Peers -> SUBSET Peers]
  BY DEF TypeOK
<1>s. Suspects \subseteq Suspects'
  BY SuspectsStay
<1>c. CanVerify(t) => CanVerify(t)'
  BY KeysStay
\* Nothing of what a thread has at hand changes while another one steps.
<1>1. ASSUME pc'[t] = pc[t], score'[t] = score[t], due'[t] = due[t],
             flags[t] \cup todo[t] \subseteq flags'[t] \cup todo'[t]
      PROVE  /\ pc'[t] = "penalty" /\ ~ CanVerify(t)' => score'[t] = Score(t)'
             /\ pc'[t] = "iterate" => /\ due'[t] \subseteq Suspects'
                                      /\ due'[t] \subseteq flags'[t] \cup todo'[t]
  BY <1>1, <1>s, <1>c, SuspectsStay DEF DueInv
<1>2. ASSUME NEW u \in Peers \ {t}, Push(u) \/ Handle(u)
      PROVE  pc'[t] = pc[t] /\ score'[t] = score[t] /\ due'[t] = due[t]
             /\ flags'[t] = flags[t] /\ todo'[t] = todo[t]
  BY <1>t, <1>2 DEF Push, VerifyRight, VerifyWrong, Glitch, Verify, Handle, EarnTrust, LoseTrust,
     Accept, Copy, LoadScore, StoreScore, CheckChain, Fail, Finish, EndRound, Visit, Goto
<1>3. CASE Push(t)
  <2>1. /\ score'[t] = Score(t) /\ trust' = trust /\ pc'[t] \in {"gain", "penalty"}
    BY <1>t, <1>3 DEF Push, VerifyRight, VerifyWrong, Glitch, Verify, Goto
  <2> QED  BY <2>1 DEF Score
<1>4. CASE CheckChain(t)
  <2>1. /\ pc'[t] \in {"idle", "iterate"}
        /\ pc'[t] = "iterate" => due'[t] = Suspects /\ todo'[t] = DOMAIN trust
    BY <1>t, <1>4 DEF CheckChain, Goto
  <2> QED  BY <1>s, <2>1 DEF Suspects
<1>5. ASSUME NEW p \in Peers, Visit(t, p)
      PROVE  pc'[t] = pc[t] /\ score'[t] = score[t] /\ due'[t] = due[t] /\ pc[t] = "iterate"
             /\ due[t] \subseteq flags'[t] \cup todo'[t]
  <2>1. /\ pc' = pc /\ score' = score /\ due' = due /\ trust' = trust /\ pc[t] = "iterate"
        /\ todo' = [todo EXCEPT ![t] = @ \ {p}]
    BY <1>5 DEF Visit
  <2>2. p \in due[t] => trust[p] < Low /\ trust[p] \in Scores
    BY <2>1, TrustsDef DEF DueInv, Suspects, TypeOK, Trusts
  <2>3. p \in due[t] => ~ (trust[p] >= Low)
    BY <2>2, Bounds DEF Scores
  <2>4. /\ p \in due[t] => flags'[t] = flags[t] \cup {p}
        /\ flags[t] \subseteq flags'[t]
    BY <1>t, <1>5, <2>3 DEF Visit
  <2>5. due[t] \subseteq flags[t] \cup todo[t]
    BY <2>1 DEF DueInv
  <2> QED  BY <1>t, <2>1, <2>4, <2>5
<1>6. CASE EarnTrust(t) \/ LoseTrust(t) \/ Accept(t) \/ Copy(t) \/ Fail(t) \/ Finish(t)
           \/ \E p \in Peers : LoadScore(t, p) \/ StoreScore(t, p)
  <2>1. pc'[t] \notin {"penalty", "iterate"}
    BY <1>t, <1>6 DEF EarnTrust, LoseTrust, Accept, Copy, Fail, Finish, EndRound, LoadScore,
       StoreScore, Goto
  <2> QED  BY <2>1
<1>7. CASE BreakChain \/ UNCHANGED vars
           \/ \E p \in Peers : Start(p) \/ MakeKeys(p) \/ Kill(p) \/ Mute(p)
  <2>1. pc' = pc /\ score' = score /\ due' = due /\ flags' = flags /\ todo' = todo
    BY <1>7 DEF BreakChain, Start, MakeKeys, Kill, Mute, vars, locals, own
  <2> QED  BY <1>1, <2>1
<1>8. ASSUME NEW p \in Peers, Visit(t, p)
      PROVE  /\ pc'[t] = "penalty" /\ ~ CanVerify(t)' => score'[t] = Score(t)'
             /\ pc'[t] = "iterate" => /\ due'[t] \subseteq Suspects'
                                      /\ due'[t] \subseteq flags'[t] \cup todo'[t]
  BY <1>5, <1>8, <1>s DEF DueInv
<1> QED  BY <1>1, <1>2, <1>3, <1>4, <1>6, <1>7, <1>8 DEF Next, Handle

\* Every round that gets through its last loop reports all peers nobody can
\* verify whose score was too low when the loop began, for any number of
\* threads and any scale of trust (integrity/agent.py:202-205).
THEOREM RoundsReport == Spec => SuspectsAreReported
<1>1. Init => KeyInv /\ RecordInv /\ DueInv
  BY DEF Init, KeyInv, RecordInv, OnlyVerifiedOnRecord, DueInv
<1>2. TypeOK /\ DueInv /\ [Next]_vars =>
        [\A t \in Peers : pc[t] = "iterate" /\ pc'[t] = "idle" =>
           due[t] \subseteq flags[t] \/ Grown(t)]_vars
  <2> SUFFICES ASSUME TypeOK, DueInv, Next, NEW t \in Peers,
                      pc[t] = "iterate", pc'[t] = "idle"
               PROVE  due[t] \subseteq flags[t] \/ Grown(t)
    OBVIOUS
  <2>1. ASSUME NEW u \in Peers, Push(u) \/ Handle(u) PROVE u = t
    BY <2>1 DEF TypeOK, Push, VerifyRight, VerifyWrong, Glitch, Verify, Handle, EarnTrust,
       LoseTrust, Accept, Copy, LoadScore, StoreScore, CheckChain, Fail, Finish, EndRound,
       Visit, Goto
  <2>2. Fail(t) \/ Finish(t)
    BY <2>1 DEF Next, TypeOK, Start, MakeKeys, Kill, Mute, BreakChain, Push, VerifyRight,
       VerifyWrong, Glitch, Verify, Handle, EarnTrust, LoseTrust, Accept, Copy, LoadScore,
       StoreScore, CheckChain, Visit, Goto, locals, own
  <2> QED  BY <2>2 DEF Fail, Finish, DueInv
<1> QED
  BY <1>1, <1>2, KeyStep, RecordStep, DueStep, ConsensusTypeCorrect, PTL
  DEF Spec, SuspectsAreReported

-----------------------------------------------------------------------------
(* What faults cost.                                                       *)

\* The least a score can be that paid for every fault so far.
Floor == TrustMax - Penalty * glitches

\* The scores on file and the scores that threads hold, to store them later,
\* have paid for no more; a penalty that is not stored yet is paid for too.
AtHand(t) ==
  /\ flags[t] \subseteq DOMAIN trust
  /\ pc[t] = "iterate" => todo[t] \subseteq DOMAIN trust
  /\ CanVerify(t) =>
       /\ pc[t] = "gain" => score[t] >= Floor
       /\ pc[t] = "penalty" => score[t] - Penalty >= Floor
  /\ \A p \in Peers : CanVerify(p) =>
       /\ pc[t] = "store" /\ p \in cur[t] => score[t] >= Floor
       /\ p \in flags[t] => Low >= Floor

FaultInv == \A p \in Peers : AtHand(p) /\ (CanVerify(p) => Score(p) >= Floor)

LEMMA FloorFacts ==
  ASSUME TypeOK, [Next]_vars
  PROVE  /\ Floor \in Int /\ Floor' \in Int /\ Floor <= TrustMax
         /\ Floor' = Floor \/ Floor' = Floor - Penalty
         /\ Floor' <= Floor
         /\ glitches' = glitches => Floor' = Floor
         /\ glitches' = glitches + 1 => Floor' = Floor - Penalty
<1>1. glitches \in Nat /\ (glitches' = glitches \/ glitches' = glitches + 1)
  BY DEF TypeOK, Next, Start, MakeKeys, Kill, Mute, Push, VerifyRight, VerifyWrong, Glitch,
     Verify, Handle, EarnTrust, LoseTrust, Accept, Copy, LoadScore, StoreScore, CheckChain,
     Fail, Finish, EndRound, Visit, BreakChain, peerVars, vars
<1>2. /\ Penalty * glitches \in Nat
      /\ Penalty * (glitches + 1) = Penalty * glitches + Penalty
  BY <1>1, Bounds
<1> QED  BY <1>1, <1>2, Bounds DEF Floor

\* Who writes a score, and what.
LEMMA ScoreMoves ==
  ASSUME TypeOK, [Next]_vars
  PROVE  /\ DOMAIN trust \subseteq DOMAIN trust'
         /\ \A p \in Peers :
              \/ Score(p)' = Score(p)
              \/ EarnTrust(p) /\ Score(p)' = Raised(score[p])
              \/ LoseTrust(p) /\ Score(p)' = Lowered(score[p])
              \/ \E t \in Peers : StoreScore(t, p) /\ Score(p)' = Raised(score[t])
<1>t. trust \in Trusts /\ score \in [Peers -> Scores]
  BY DEF TypeOK, Trusts
<1>1. ASSUME NEW q \in Peers, NEW n \in Scores, SetTrust(q, n)
      PROVE  /\ DOMAIN trust \subseteq DOMAIN trust'
             /\ Score(q)' = n
             /\ \A p \in Peers \ {q} : Score(p)' = Score(p)
  BY <1>t, <1>1, SetTrustFacts DEF Score
<1>2. ASSUME NEW q \in Peers, EarnTrust(q) PROVE SetTrust(q, Raised(score[q]))
  BY <1>2 DEF EarnTrust
<1>3. ASSUME NEW q \in Peers, LoseTrust(q) PROVE SetTrust(q, Lowered(score[q]))
  BY <1>3 DEF LoseTrust
<1>4. ASSUME NEW t \in Peers, NEW q \in Peers, StoreScore(t, q)
      PROVE  SetTrust(q, Raised(score[t]))
  BY <1>4 DEF StoreScore
<1>5. ASSUME ~ \E t \in Peers : EarnTrust(t) \/ LoseTrust(t) \/ \E q \in Peers : StoreScore(t, q)
      PROVE  trust' = trust
  BY <1>5 DEF Next, Start, MakeKeys, Kill, Mute, Push, VerifyRight, VerifyWrong, Glitch, Verify,
     Handle, Accept, Copy, LoadScore, CheckChain, Fail, Finish, EndRound, Visit, BreakChain, vars
<1>6. \A n \in Scores : Raised(n) \in Scores /\ Lowered(n) \in Scores
  BY ScoreTypes
<1>7. CASE \E q \in Peers : EarnTrust(q) \/ LoseTrust(q)
  BY <1>t, <1>1, <1>2, <1>3, <1>6, <1>7
<1>8. CASE \E t \in Peers, q \in Peers : StoreScore(t, q)
  BY <1>t, <1>1, <1>4, <1>6, <1>8
<1>9. CASE trust' = trust
  BY <1>9 DEF Score
<1> QED  BY <1>5, <1>7, <1>8, <1>9

LEMMA FaultStep ==
  TypeOK /\ KeyInv /\ RecordInv /\ FaultInv /\ [Next]_vars => FaultInv'
<1> SUFFICES ASSUME TypeOK, KeyInv, RecordInv, FaultInv, [Next]_vars PROVE FaultInv'
  OBVIOUS
<1>t. /\ trust \in Trusts /\ score \in [Peers -> Scores] /\ pc \in [Peers -> Positions]
      /\ todo \in [Peers -> SUBSET Peers] /\ cur \in [Peers -> SUBSET Peers]
      /\ flags \in [Peers -> SUBSET Peers] /\ DOMAIN trust \subseteq Peers
      /\ \A p \in DOMAIN trust : trust[p] \in Scores
      /\ \A n \in Scores : n \in Int
  BY TrustsDef DEF TypeOK, Trusts, Scores
<1>f. /\ Floor \in Int /\ Floor' \in Int /\ Floor <= TrustMax /\ Floor' <= Floor
      /\ glitches' = glitches + 1 => Floor' = Floor - Penalty
  BY FloorFacts
<1>k. \A p \in Peers : p \in DOMAIN trust \/ pc[p] # "idle" => (CanVerify(p)' <=> CanVerify(p))
  BY KeysStay
<1>r. \A n \in Scores : /\ n >= Floor => Raised(n) >= Floor
                        /\ n - Penalty >= Floor => Lowered(n) >= Floor
  BY <1>f, Bounds DEF Scores, Raised, Lowered
\* A peer that just got its keys is unknown, and full of trust.
<1>s. \A p \in Peers : CanVerify(p)' => Score(p) >= Floor
  BY <1>f, <1>k, Bounds DEF AtHand, FaultInv, Score
<1>1. ASSUME NEW p \in Peers, CanVerify(p)' PROVE Score(p)' >= Floor'
  <2>1. Score(p) \in Int /\ Score(p) >= Floor
    BY <1>t, <1>s, <1>1, ScoreType
  <2>2. ASSUME EarnTrust(p) PROVE Raised(score[p]) >= Floor /\ Raised(score[p]) \in Scores
    BY <1>t, <1>r, <2>2, ScoreTypes DEF EarnTrust, AtHand, FaultInv, RecordInv
  <2>3. ASSUME LoseTrust(p) PROVE Lowered(score[p]) >= Floor /\ Lowered(score[p]) \in Scores
    BY <1>t, <1>k, <1>r, <1>1, <2>3, ScoreTypes DEF LoseTrust, AtHand, FaultInv
  <2>4. ASSUME NEW t \in Peers, StoreScore(t, p)
        PROVE  Raised(score[t]) >= Floor /\ Raised(score[t]) \in Scores
    BY <1>t, <1>r, <2>4, ScoreTypes DEF StoreScore, AtHand, FaultInv, RecordInv, OnlyVerifiedOnRecord
  <2>5. Score(p)' >= Floor /\ Score(p)' \in Int
    BY <1>t, <2>1, <2>2, <2>3, <2>4, ScoreMoves
  <2> QED  BY <1>f, <2>5
<1>2. \A t \in Peers : DOMAIN trust \subseteq DOMAIN trust'
  BY ScoreMoves
\* What a thread has at hand while it does not step itself.
<1>3. ASSUME NEW t \in Peers,
             pc'[t] = pc[t], score'[t] = score[t], cur'[t] = cur[t],
             flags'[t] = flags[t], todo'[t] = todo[t]
      PROVE  AtHand(t)'
  <2>1. score[t] \in Int
    BY <1>t
  <2>2. CanVerify(t)' => /\ pc[t] = "gain" => score[t] >= Floor
                         /\ pc[t] = "penalty" => score[t] - Penalty >= Floor
    BY <1>k DEF AtHand, FaultInv
  <2>3. ASSUME NEW p \in Peers, CanVerify(p)'
        PROVE  /\ pc[t] = "store" /\ p \in cur[t] => score[t] >= Floor
               /\ p \in flags[t] => Low >= Floor
    BY <1>k, <2>3 DEF AtHand, FaultInv, RecordInv, OnlyVerifiedOnRecord
  <2> QED  BY <1>2, <1>3, <1>f, <2>1, <2>2, <2>3, Bounds DEF AtHand, FaultInv
<1>4. ASSUME NEW t \in Peers, Push(t) \/ Handle(t)
      PROVE  AtHand(t)'
  <2>0. ASSUME NEW p \in Peers, CanVerify(p)', p \in flags[t] PROVE Low >= Floor'
    BY <1>f, <1>k, <2>0, Bounds DEF AtHand, FaultInv
  <2>1. CASE VerifyRight(t) \/ VerifyWrong(t)
    <3>1. /\ flags' = flags /\ score'[t] = Score(t) /\ pc'[t] \in {"gain", "penalty"}
          /\ pc'[t] = "penalty" => ~ CanVerify(t)'
      BY <1>t, <2>1 DEF VerifyRight, VerifyWrong, Verify, Goto, peerVars, CanVerify
    <3>2. CanVerify(t)' => Score(t) >= Floor /\ Score(t) \in Int
      BY <1>s, <1>t, ScoreType
    <3> QED  BY <1>2, <1>f, <2>0, <3>1, <3>2 DEF AtHand, FaultInv
  <2>2. CASE Glitch(t)
    <3>1. /\ flags' = flags /\ score'[t] = Score(t) /\ pc'[t] = "penalty"
          /\ glitches' = glitches + 1 /\ CanVerify(t)
      BY <1>t, <2>2 DEF Glitch, Verify, Goto
    <3>2. Score(t) >= Floor /\ Score(t) \in Int
      BY <1>t, <3>1, ScoreType DEF AtHand, FaultInv
    <3>3. Floor' = Floor - Penalty
      BY <1>f, <3>1
    <3> QED  BY <1>2, <1>f, <2>0, <3>1, <3>2, <3>3, Bounds DEF AtHand, FaultInv
  <2>3. ASSUME NEW p \in Peers, LoadScore(t, p)
        PROVE  AtHand(t)'
    <3>1. flags' = flags /\ pc'[t] = "store" /\ score'[t] = Score(p) /\ pc[t] = "load" /\ p \in todo[t]
      BY <1>t, <2>3 DEF LoadScore, Goto
    <3>2. CanVerify(p)
      BY <3>1 DEF RecordInv, OnlyVerifiedOnRecord
    <3>3. Score(p) >= Floor /\ Score(p) \in Int
      BY <1>t, <3>2, ScoreType DEF AtHand, FaultInv
    <3> QED  BY <1>2, <1>f, <2>0, <3>1, <3>3 DEF AtHand, FaultInv
  <2>4. CASE CheckChain(t)
    <3>1. /\ flags' = flags /\ pc'[t] \in {"idle", "iterate"} /\ trust' = trust
          /\ pc'[t] = "iterate" => todo'[t] = DOMAIN trust
      BY <1>t, <2>4 DEF CheckChain, Goto
    <3> QED  BY <1>2, <2>0, <3>1 DEF AtHand, FaultInv
  <2>5. ASSUME NEW p \in Peers, Visit(t, p)
        PROVE  AtHand(t)'
    <3>1. /\ pc' = pc /\ pc[t] = "iterate" /\ trust' = trust /\ p \in todo[t]
          /\ todo'[t] = todo[t] \ {p}
          /\ flags'[t] = flags[t] \/ (flags'[t] = flags[t] \cup {p} /\ trust[p] <= Low)
      BY <1>t, <2>5 DEF Visit
    <3>2. p \in DOMAIN trust
      BY <3>1 DEF AtHand, FaultInv
    <3>3. CanVerify(p)' => trust[p] >= Floor /\ trust[p] \in Int
      BY <1>t, <1>s, <3>2 DEF Score
    <3> QED  BY <1>t, <1>f, <2>0, <3>1, <3>2, <3>3, Bounds DEF AtHand, FaultInv
  <2>6. CASE EarnTrust(t) \/ LoseTrust(t) \/ Accept(t) \/ Copy(t) \/ Fail(t) \/ Finish(t)
             \/ \E p \in Peers : StoreScore(t, p)
    <3>1. /\ pc'[t] \notin {"gain", "penalty", "store", "iterate"}
          /\ flags'[t] \subseteq flags[t]
      BY <1>t, <2>6 DEF EarnTrust, LoseTrust, Accept, Copy, Fail, Finish, EndRound, StoreScore, Goto
    <3> QED  BY <1>2, <2>0, <3>1 DEF AtHand, FaultInv
  <2> QED  BY <1>4, <2>1, <2>2, <2>3, <2>4, <2>5, <2>6 DEF Push, Handle
<1>5. ASSUME NEW t \in Peers, NEW u \in Peers \ {t}, Push(u) \/ Handle(u)
      PROVE  pc'[t] = pc[t] /\ score'[t] = score[t] /\ cur'[t] = cur[t]
             /\ flags'[t] = flags[t] /\ todo'[t] = todo[t]
  BY <1>t, <1>5 DEF Push, VerifyRight, VerifyWrong, Glitch, Verify, Handle, EarnTrust, LoseTrust,
     Accept, Copy, LoadScore, StoreScore, CheckChain, Fail, Finish, EndRound, Visit, Goto
<1>6. ASSUME NEW t \in Peers, BreakChain \/ UNCHANGED vars
             \/ \E p \in Peers : Start(p) \/ MakeKeys(p) \/ Kill(p) \/ Mute(p)
      PROVE  pc'[t] = pc[t] /\ score'[t] = score[t] /\ cur'[t] = cur[t]
             /\ flags'[t] = flags[t] /\ todo'[t] = todo[t]
  BY <1>6 DEF BreakChain, Start, MakeKeys, Kill, Mute, vars, locals, own
<1>7. ASSUME NEW t \in Peers
      PROVE  AtHand(t)'
  BY <1>3, <1>4, <1>5, <1>6 DEF Next
<1> QED  BY <1>1, <1>7 DEF FaultInv

\* Threads that overwrite each other's scores cost a peer that can be verified
\* nothing, for any number of threads and faults and any scale of trust: its score
\* lost at most one penalty per fault, and it is reported only when the faults
\* alone account for that (integrity/agent.py:166-173, 191, 202-205).
THEOREM FaultsCorrect == Spec => []TrustFollowsFaults
<1>1. Init => KeyInv /\ RecordInv /\ FaultInv
  BY Bounds
  DEF Init, KeyInv, RecordInv, OnlyVerifiedOnRecord, FaultInv, AtHand, CanVerify, Score, Floor
<1>2. FaultInv => TrustFollowsFaults
  BY DEF FaultInv, AtHand, Floor, TrustFollowsFaults
<1> QED
  BY <1>1, <1>2, KeyStep, RecordStep, FaultStep, ConsensusTypeCorrect, PTL DEF Spec

\* Both sides of the judgement hold together.
THEOREM RecordIsJust == Spec => []RecordFollowsKeys
BY RecordCorrect, FaultsCorrect, PTL DEF RecordFollowsKeys

-----------------------------------------------------------------------------
(* Scores of peers nobody can verify.                                      *)

\* Nobody gives trust to a peer that cannot be verified: its score only falls,
\* although every thread may write every score (integrity/agent.py:171, 191).
UnverifiedNeverGain ==
  [][\A p \in DOMAIN trust : ~ CanVerify(p) => trust'[p] <= trust[p]]_vars

THEOREM UnverifiedScoresFall == Spec => UnverifiedNeverGain
<1>1. Init => KeyInv /\ RecordInv /\ DueInv
  BY DEF Init, KeyInv, RecordInv, OnlyVerifiedOnRecord, DueInv
<1>2. TypeOK /\ KeyInv /\ RecordInv /\ DueInv /\ [Next]_vars =>
        [\A p \in DOMAIN trust : ~ CanVerify(p) => trust'[p] <= trust[p]]_vars
  <2> SUFFICES ASSUME TypeOK, KeyInv, RecordInv, DueInv, Next,
                      NEW p \in DOMAIN trust, ~ CanVerify(p)
               PROVE  trust'[p] <= trust[p]
    OBVIOUS
  <2>t. /\ p \in Peers /\ trust[p] \in Scores /\ score \in [Peers -> Scores]
        /\ Score(p) = trust[p] /\ p \in DOMAIN trust'
    BY TrustsDef, ScoreMoves DEF TypeOK, Trusts, Score
  <2>1. Score(p)' = trust'[p]
    BY <2>t DEF Score
  <2>2. ~ EarnTrust(p) /\ \A t \in Peers : ~ StoreScore(t, p)
    BY <2>t DEF EarnTrust, StoreScore, RecordInv, OnlyVerifiedOnRecord
  <2>3. ASSUME LoseTrust(p) PROVE Lowered(score[p]) <= trust[p]
    <3>1. score[p] = trust[p]
      BY <2>t, <2>3 DEF LoseTrust, DueInv
    <3> QED  BY <2>t, <3>1, Bounds DEF Lowered, Scores
  <2> QED  BY <2>t, <2>1, <2>2, <2>3, ScoreMoves, Bounds DEF Scores
<1> QED
  BY <1>1, <1>2, KeyStep, RecordStep, DueStep, ConsensusTypeCorrect, PTL
  DEF Spec, UnverifiedNeverGain

-----------------------------------------------------------------------------
(* Rounds that fail.                                                       *)

\* A thread that is past its own score has an entry of it in trust; an iteration
\* began with more entries than its thread's rounds had failed before.
FailInv ==
  \A t \in Peers :
    /\ pc[t] \in {"accept", "copy", "load", "store", "check"} => t \in DOMAIN trust
    /\ pc[t] = "iterate" => fails[t] < size[t] /\ size[t] <= Cardinality(DOMAIN trust)
    /\ fails[t] = 0 \/ fails[t] < Cardinality(DOMAIN trust)

\* Entries are never taken away.
LEMMA EntriesGrow ==
  ASSUME TypeOK, [Next]_vars
  PROVE  /\ Cardinality(DOMAIN trust) \in Nat /\ Cardinality(DOMAIN trust') \in Nat
         /\ Cardinality(DOMAIN trust) <= Cardinality(DOMAIN trust')
         /\ IsFiniteSet(DOMAIN trust)
<1>1. DOMAIN trust \subseteq Peers /\ DOMAIN trust' \subseteq Peers
  BY ConsensusTypeStep, TrustsDef DEF TypeOK, Trusts
<1>2. DOMAIN trust \subseteq DOMAIN trust'
  BY ScoreMoves
<1>3. IsFiniteSet(DOMAIN trust')
  BY <1>1, ConsensusAssumption, FS_Subset
<1> HIDE DEF TypeOK
<1> QED  BY <1>2, <1>3, FS_Subset, FS_CardinalityType

LEMMA FailStep == TypeOK /\ FailInv /\ [Next]_vars => FailInv'
<1> SUFFICES ASSUME TypeOK, FailInv, [Next]_vars, NEW t \in Peers
             PROVE  /\ pc'[t] \in {"accept", "copy", "load", "store", "check"} => t \in DOMAIN trust'
                    /\ pc'[t] = "iterate" =>
                         fails'[t] < size'[t] /\ size'[t] <= Cardinality(DOMAIN trust')
                    /\ fails'[t] = 0 \/ fails'[t] < Cardinality(DOMAIN trust')
  BY DEF FailInv
<1> DEFINE n == Cardinality(DOMAIN trust)
           k == Cardinality(DOMAIN trust')
<1>t. /\ pc \in [Peers -> Positions] /\ fails \in [Peers -> Nat]
      /\ size \in [Peers -> 0 .. Cardinality(Peers)] /\ trust \in Trusts
      /\ score \in [Peers -> Scores]
  BY DEF TypeOK, Trusts
<1>n. n \in Nat /\ k \in Nat /\ n <= k /\ fails[t] \in Nat /\ size[t] \in Nat
  <2>1. Cardinality(Peers) \in Nat
    BY ConsensusAssumption, FS_CardinalityType
  <2> QED  BY <1>t, <2>1, EntriesGrow
<1>d. t \in DOMAIN trust => t \in DOMAIN trust' /\ n > 0
  <2>1. t \in DOMAIN trust => n # 0
    BY EntriesGrow, FS_EmptySet
  <2>2. t \in DOMAIN trust => t \in DOMAIN trust'
    BY ScoreMoves
  <2> QED  BY <1>n, <2>1, <2>2
<1>i. /\ pc[t] \in {"accept", "copy", "load", "store", "check"} => t \in DOMAIN trust
      /\ pc[t] = "iterate" => fails[t] < size[t] /\ size[t] <= n
      /\ fails[t] = 0 \/ fails[t] < n
  BY DEF FailInv
<1> HIDE DEF n, k
\* Steps that leave the counts of t and bring it to no new loop.
<1>1. ASSUME fails'[t] = fails[t], size'[t] = size[t],
             pc'[t] = "iterate" => pc[t] = "iterate",
             pc'[t] \in {"accept", "copy", "load", "store", "check"} => t \in DOMAIN trust'
      PROVE  /\ pc'[t] \in {"accept", "copy", "load", "store", "check"} => t \in DOMAIN trust'
             /\ pc'[t] = "iterate" => fails'[t] < size'[t] /\ size'[t] <= k
             /\ fails'[t] = 0 \/ fails'[t] < k
  BY <1>1, <1>n, <1>i
<1>2. ASSUME NEW u \in Peers, Push(u) \/ Handle(u), u # t
      PROVE  fails'[t] = fails[t] /\ size'[t] = size[t] /\ pc'[t] = pc[t]
  BY <1>2, <1>t DEF Push, VerifyRight, VerifyWrong, Glitch, Verify, Handle, EarnTrust, LoseTrust,
     Accept, Copy, LoadScore, StoreScore, CheckChain, Fail, Finish, EndRound, Visit, Goto, own
<1>3. CASE \/ BreakChain \/ UNCHANGED vars
           \/ \E p \in Peers : Start(p) \/ MakeKeys(p) \/ Kill(p) \/ Mute(p)
  <2>1. fails' = fails /\ size' = size /\ pc' = pc
    BY <1>3 DEF BreakChain, Start, MakeKeys, Kill, Mute, vars, locals, own
  <2> QED  BY <1>1, <1>d, <1>i, <2>1 DEF k
<1>4. ASSUME \/ Push(t) \/ LoseTrust(t) \/ Accept(t) \/ Copy(t)
             \/ \E p \in Peers : LoadScore(t, p) \/ StoreScore(t, p) \/ Visit(t, p)
      PROVE  /\ fails' = fails /\ size' = size
             /\ pc'[t] = "iterate" => pc[t] = "iterate"
             /\ pc'[t] \in {"accept", "copy", "load", "store", "check"} =>
                  pc[t] \in {"accept", "copy", "load", "store", "check"}
  BY <1>4, <1>t DEF Push, VerifyRight, VerifyWrong, Glitch, Verify, LoseTrust, Accept, Copy,
     LoadScore, StoreScore, Visit, Goto, own
<1>5. ASSUME EarnTrust(t)
      PROVE  fails' = fails /\ size' = size /\ pc'[t] = "accept" /\ t \in DOMAIN trust'
  <2>1. t \in DOMAIN trust'
    BY <1>5, <1>t, ScoreTypes, SetTrustFacts DEF EarnTrust
  <2> QED  BY <1>5, <1>t, <2>1 DEF EarnTrust, Goto, own
<1>6. CASE CheckChain(t)
  <2>1. /\ fails' = fails /\ trust' = trust /\ pc[t] = "check"
        /\ \/ pc'[t] = "iterate" /\ size'[t] = n
           \/ pc'[t] = "idle"
    BY <1>6, <1>t DEF CheckChain, Goto, own, n
  <2>2. n > 0 /\ k = n
    BY <1>d, <1>i, <2>1 DEF n, k
  <2>3. fails[t] < n
    BY <1>i, <1>n, <2>2
  <2> QED  BY <1>n, <2>1, <2>2, <2>3 DEF k
<1>7. CASE Fail(t)
  <2>1. /\ fails'[t] = fails[t] + 1 /\ pc[t] = "iterate" /\ pc'[t] = "idle"
        /\ trust' = trust /\ n # size[t]
    BY <1>7, <1>t DEF Fail, EndRound, Goto, Grown, n
  <2>2. fails'[t] < n
    BY <1>i, <1>n, <2>1
  <2>3. k = n
    BY <2>1 DEF n, k
  <2> QED  BY <2>1, <2>2, <2>3 DEF k
<1>8. CASE Finish(t)
  <2>1. /\ fails' = fails /\ pc'[t] = "idle" /\ trust' = trust
    BY <1>8, <1>t DEF Finish, EndRound, Goto
  <2> QED  BY <1>i, <2>1 DEF n
<1>9. CASE Push(t) \/ Handle(t)
  <2>1. CASE \/ Push(t) \/ LoseTrust(t) \/ Accept(t) \/ Copy(t)
             \/ \E p \in Peers : LoadScore(t, p) \/ StoreScore(t, p) \/ Visit(t, p)
    BY <1>1, <1>4, <1>d, <1>i, <2>1 DEF k
  <2>2. CASE EarnTrust(t)
    BY <1>1, <1>5, <2>2 DEF k
  <2> QED  BY <1>6, <1>7, <1>8, <1>9, <2>1, <2>2 DEF Handle
<1>10. ASSUME NEW u \in Peers, Push(u) \/ Handle(u), u # t
       PROVE  /\ pc'[t] \in {"accept", "copy", "load", "store", "check"} => t \in DOMAIN trust'
              /\ pc'[t] = "iterate" => fails'[t] < size'[t] /\ size'[t] <= k
              /\ fails'[t] = 0 \/ fails'[t] < k
  BY <1>1, <1>2, <1>10, <1>d, <1>i
<1> QED  BY <1>3, <1>9, <1>10 DEF Next, k

\* The rounds of a thread whose last loop fails are fewer than the peers there is
\* a score of, for any number of threads that add scores meanwhile
\* (integrity/agent.py:202-205).
THEOREM RoundsFailSeldom == Spec => []RoundsSeldomFail
<1>1. Init => FailInv
  BY DEF Init, FailInv
<1>2. FailInv => RoundsSeldomFail
  BY DEF FailInv, RoundsSeldomFail
<1> QED  BY <1>1, <1>2, FailStep, ConsensusTypeCorrect, PTL DEF Spec

-----------------------------------------------------------------------------
(* What the proofs so far found of every state.                            *)

JudgeInv == TypeOK /\ KeyInv /\ RecordInv /\ DueInv

LEMMA JudgeCorrect == Spec => []JudgeInv
<1>1. Init => KeyInv /\ RecordInv /\ DueInv
  BY DEF Init, KeyInv, RecordInv, OnlyVerifiedOnRecord, DueInv
<1> QED
  BY <1>1, KeyStep, RecordStep, DueStep, ConsensusTypeCorrect, PTL DEF Spec, JudgeInv

-----------------------------------------------------------------------------
(* The rounds of a thread.                                                 *)

\* What a thread holds of no other one's steps.
Unmoved(t) ==
  pc'[t] = pc[t] /\ score'[t] = score[t] /\ cur'[t] = cur[t] /\ todo'[t] = todo[t]

LEMMA ThreadSteps ==
  ASSUME TypeOK, [Next]_vars, NEW t \in Peers
  PROVE  Push(t) \/ Handle(t) \/ Unmoved(t)
<1>t. /\ pc \in [Peers -> Positions] /\ score \in [Peers -> Scores]
      /\ todo \in [Peers -> SUBSET Peers] /\ cur \in [Peers -> SUBSET Peers]
  BY DEF TypeOK
<1>1. ASSUME NEW u \in Peers \ {t}, Push(u) \/ Handle(u) PROVE Unmoved(t)
  BY <1>t, <1>1 DEF Unmoved, Push, VerifyRight, VerifyWrong, Glitch, Verify, Handle, EarnTrust,
     LoseTrust, Accept, Copy, LoadScore, StoreScore, CheckChain, Fail, Finish, EndRound, Visit, Goto
<1>2. ASSUME BreakChain \/ UNCHANGED vars
             \/ \E p \in Peers : Start(p) \/ MakeKeys(p) \/ Kill(p) \/ Mute(p)
      PROVE  Unmoved(t)
  BY <1>2 DEF Unmoved, BreakChain, Start, MakeKeys, Kill, Mute, vars, locals, own
<1> QED  BY <1>1, <1>2 DEF Next

LEMMA PushMoves ==
  ASSUME TypeOK, NEW t \in Peers, Push(t)
  PROVE  /\ peer[t] = "up" /\ pc[t] = "idle" /\ score'[t] = Score(t)
         /\ pc'[t] = "gain" \/ (pc'[t] = "penalty" /\ (CanVerify(t) => glitches' # glitches))
         /\ ~ CanVerify(t) => pc'[t] = "penalty"
         /\ cur' = cur /\ todo' = todo /\ trust' = trust /\ known' = known
BY DEF TypeOK, Push, VerifyRight, VerifyWrong, Glitch, Verify, Goto

\* One score at a time is in the hands of a thread.
OneAtATime == \A t \in Peers : pc[t] = "store" => \A p, q \in cur[t] : p = q

\* From position to position, in the order of receive and run_consensus.
LEMMA HandleMoves ==
  ASSUME TypeOK, OneAtATime, NEW t \in Peers, Handle(t)
  PROVE  \/ pc[t] = "gain" /\ pc'[t] = "accept" /\ EarnTrust(t)
         \/ pc[t] = "penalty" /\ pc'[t] = "idle" /\ LoseTrust(t)
         \/ pc[t] = "accept" /\ pc'[t] = "copy" /\ t \in known'
         \/ pc[t] = "copy" /\ pc'[t] = "load" /\ todo'[t] = known
         \/ \E p \in todo[t] : /\ pc[t] = "load" /\ pc'[t] = "store" /\ LoadScore(t, p)
                               /\ cur'[t] = {p} /\ todo'[t] = todo[t] \ {p}
                               /\ score'[t] = Score(p) /\ trust' = trust
         \/ \E p \in cur[t] : /\ pc[t] = "store" /\ StoreScore(t, p) /\ cur[t] = {p}
                              /\ todo'[t] = todo[t]
                              /\ pc'[t] = IF todo[t] = {} THEN "check" ELSE "load"
         \/ pc[t] = "check" /\ pc'[t] \in {"iterate", "idle"} /\ CheckChain(t)
            /\ (pc'[t] = "iterate" => todo'[t] = DOMAIN trust)
         \/ \E p \in todo[t] : pc[t] = "iterate" /\ pc'[t] = "iterate" /\ todo'[t] = todo[t] \ {p}
         \/ pc[t] = "iterate" /\ pc'[t] = "idle"
<1>t. /\ pc \in [Peers -> Positions] /\ score \in [Peers -> Scores]
      /\ todo \in [Peers -> SUBSET Peers] /\ cur \in [Peers -> SUBSET Peers]
  BY DEF TypeOK
<1>1. CASE EarnTrust(t) \/ LoseTrust(t)
  BY <1>t, <1>1 DEF EarnTrust, LoseTrust, Goto
<1>2. CASE Accept(t) \/ Copy(t)
  BY <1>t, <1>2 DEF Accept, Copy, Goto
<1>3. ASSUME NEW p \in Peers, LoadScore(t, p)
      PROVE  /\ p \in todo[t] /\ pc[t] = "load" /\ pc'[t] = "store"
             /\ cur'[t] = {p} /\ todo'[t] = todo[t] \ {p}
             /\ score'[t] = Score(p) /\ trust' = trust
  BY <1>t, <1>3 DEF LoadScore, Goto
<1>4. ASSUME NEW p \in Peers, StoreScore(t, p)
      PROVE  /\ p \in cur[t] /\ pc[t] = "store" /\ cur[t] = {p} /\ todo'[t] = todo[t]
             /\ pc'[t] = IF todo[t] = {} THEN "check" ELSE "load"
  <2>1. p \in cur[t] /\ pc[t] = "store"
    BY <1>4 DEF StoreScore
  <2>2. cur[t] = {p}
    BY <2>1 DEF OneAtATime
  <2> QED  BY <1>t, <1>4, <2>1, <2>2 DEF StoreScore, Goto
<1>5. CASE CheckChain(t)
  BY <1>t, <1>5 DEF CheckChain, Goto
<1>6. ASSUME NEW p \in Peers, Visit(t, p)
      PROVE  /\ p \in todo[t] /\ pc[t] = "iterate" /\ pc'[t] = "iterate"
             /\ todo'[t] = todo[t] \ {p}
  BY <1>t, <1>6 DEF Visit
<1>7. CASE Fail(t) \/ Finish(t)
  BY <1>t, <1>7 DEF Fail, Finish, EndRound, Goto
<1> QED  BY <1>1, <1>2, <1>3, <1>4, <1>5, <1>6, <1>7 DEF Handle

LEMMA OneStep == TypeOK /\ OneAtATime /\ [Next]_vars => OneAtATime'
<1> SUFFICES ASSUME TypeOK, OneAtATime, [Next]_vars, NEW t \in Peers, pc'[t] = "store"
             PROVE  \A p, q \in cur'[t] : p = q
  BY DEF OneAtATime
<1>1. CASE Push(t)
  BY <1>1, PushMoves
<1>2. CASE Handle(t)
  BY <1>2, HandleMoves
<1>3. CASE Unmoved(t)
  BY <1>3 DEF Unmoved, OneAtATime
<1> QED  BY <1>1, <1>2, <1>3, ThreadSteps

-----------------------------------------------------------------------------
(* Every round comes to its end.                                           *)

\* At most how many steps are left of the push that t handles.
Left(t) ==
  LET n == Cardinality(Peers)
      m == Cardinality(todo[t])
  IN  CASE pc[t] = "gain"    -> 5 + 3 * n
        [] pc[t] = "accept"  -> 4 + 3 * n
        [] pc[t] = "copy"    -> 3 + 3 * n
        [] pc[t] = "store"   -> 3 + n + 2 * m
        [] pc[t] = "load"    -> 2 + n + 2 * m
        [] pc[t] = "check"   -> 2 + n
        [] pc[t] = "iterate" -> 1 + m
        [] pc[t] = "penalty" -> 1
        [] pc[t] = "idle"    -> 0

LEMMA LeftFalls ==
  ASSUME TypeOK, OneAtATime, [Next]_vars, NEW t \in Peers
  PROVE  /\ Left(t) \in Nat
         /\ pc[t] # "idle" => Left(t)' <= Left(t)
         /\ Handle(t) => Left(t)' # Left(t)
<1>t. /\ pc \in [Peers -> Positions] /\ pc' \in [Peers -> Positions]
      /\ todo[t] \in SUBSET Peers /\ todo'[t] \in SUBSET Peers
      /\ known \in SUBSET Peers /\ DOMAIN trust \in SUBSET Peers
  BY ConsensusTypeStep, TrustsDef DEF TypeOK, Trusts
<1>n. /\ Cardinality(Peers) \in Nat
      /\ \A s \in SUBSET Peers : Cardinality(s) \in Nat /\ Cardinality(s) <= Cardinality(Peers)
  BY ConsensusAssumption, FS_CardinalityType, FS_Subset
<1>r. \A p \in todo[t] : Cardinality(todo[t] \ {p}) = Cardinality(todo[t]) - 1
  BY <1>t, ConsensusAssumption, FS_Subset, FS_RemoveElement
<1>1. Left(t) \in Nat
  BY <1>t, <1>n DEF Left, Positions
<1>2. Left(t)' \in Nat
  BY <1>t, <1>n DEF Left, Positions
<1>3. ASSUME Handle(t) PROVE Left(t)' < Left(t)
  <2> DEFINE n == Cardinality(Peers)
             m == Cardinality(todo[t])
             k == Cardinality(todo'[t])
  <2>1. /\ n \in Nat /\ m \in Nat /\ k \in Nat /\ k <= n /\ m <= n
        /\ todo'[t] = todo[t] => k = m
        /\ \A p \in todo[t] : todo'[t] = todo[t] \ {p} => k = m - 1
    BY <1>t, <1>n, <1>r
  <2>2. /\ pc[t] = "gain" => Left(t) = 5 + 3 * n
        /\ pc[t] = "accept" => Left(t) = 4 + 3 * n
        /\ pc[t] = "copy" => Left(t) = 3 + 3 * n
        /\ pc[t] = "store" => Left(t) = 3 + n + 2 * m
        /\ pc[t] = "load" => Left(t) = 2 + n + 2 * m
        /\ pc[t] = "check" => Left(t) = 2 + n
        /\ pc[t] = "iterate" => Left(t) = 1 + m
        /\ pc[t] = "penalty" => Left(t) = 1
    BY DEF Left
  <2>3. /\ pc'[t] = "accept" => Left(t)' = 4 + 3 * n
        /\ pc'[t] = "copy" => Left(t)' = 3 + 3 * n
        /\ pc'[t] = "store" => Left(t)' = 3 + n + 2 * k
        /\ pc'[t] = "load" => Left(t)' = 2 + n + 2 * k
        /\ pc'[t] = "check" => Left(t)' = 2 + n
        /\ pc'[t] = "iterate" => Left(t)' = 1 + k
        /\ pc'[t] = "idle" => Left(t)' = 0
    BY DEF Left
  <2> HIDE DEF n, m, k
  <2>4. CASE pc[t] \in {"gain", "penalty", "accept", "copy"}
    BY <1>3, <2>1, <2>2, <2>3, <2>4, HandleMoves
  <2>5. CASE pc[t] = "load"
    BY <1>3, <2>1, <2>2, <2>3, <2>5, HandleMoves
  <2>6. CASE pc[t] = "store"
    BY <1>3, <2>1, <2>2, <2>3, <2>6, HandleMoves
  <2>7. CASE pc[t] \in {"check", "iterate"}
    BY <1>3, <2>1, <2>2, <2>3, <2>7, HandleMoves
  <2> QED  BY <1>3, <2>4, <2>5, <2>6, <2>7, HandleMoves
<1>4. ASSUME Unmoved(t) PROVE Left(t)' = Left(t)
  BY <1>4 DEF Unmoved, Left
<1>5. Push(t) => pc[t] = "idle"
  BY PushMoves
<1> QED  BY <1>1, <1>2, <1>3, <1>4, <1>5, ThreadSteps

\* What the proofs about rounds know of every state.
RoundInv == JudgeInv /\ OneAtATime

LEMMA RoundsCorrect == Spec => []RoundInv
<1>1. Init => OneAtATime
  BY DEF Init, OneAtATime
<1> QED
  BY <1>1, OneStep, JudgeCorrect, ConsensusTypeCorrect, PTL DEF Spec, RoundInv

\* What is assumed of the threads: they run, and none of them waits.
Going == [](RoundInv /\ NeverWaits) /\ [][Next]_vars

LEMMA RoundsEnd ==
  ASSUME NEW t \in Peers
  PROVE  Going /\ WF_vars(Handle(t)) /\ Settles(Left(t), vars) => []<>(pc[t] = "idle")
<1> DEFINE I == pc[t] = "idle"
           m == Left(t)
           R == RoundInv
           E == ENABLED <<Handle(t)>>_vars
<1>1. NeverWaits => (~ (pc[t] = "idle") => E)
  BY Zenon DEF NeverWaits
<1>2. R /\ ~ I /\ [Next]_vars => m \in Nat /\ [m' <= m]_vars
  BY LeftFalls DEF RoundInv, JudgeInv
<1>3. R /\ [Next]_vars /\ <<Handle(t)>>_vars => ~ [m' = m]_vars
  BY LeftFalls DEF RoundInv, JudgeInv
<1>4. I <=> pc[t] = "idle"
  OBVIOUS
<1> HIDE DEF I, m, R
<1>5. Going /\ WF_vars(Handle(t)) /\ Settles(m, vars) => []<>I
  BY <1>1, <1>2, <1>3, <1>4, PTL DEF Going, Settles, R
<1> QED  BY <1>5, PTL DEF I, m

LEMMA PushesGoOn ==
  ASSUME NEW t \in Peers
  PROVE  Going /\ WF_vars(Push(t)) /\ []<>(pc[t] = "idle") /\ <>[](peer[t] = "up")
         => []<><<Push(t)>>_vars
<1> DEFINE I == pc[t] = "idle"
           U == peer[t] = "up"
           R == RoundInv
           E == ENABLED <<Push(t)>>_vars
<1>1. NeverWaits => (peer[t] = "up" /\ pc[t] = "idle" => E)
  BY Zenon DEF NeverWaits
<1>2. R /\ I /\ [Next]_vars => I' \/ <<Push(t)>>_vars
  <2> SUFFICES ASSUME RoundInv, I, [Next]_vars, ~ I' PROVE <<Push(t)>>_vars
    OBVIOUS
  <2>1. vars' # vars
    BY DEF vars, locals, own
  <2>2. ~ Handle(t)
    BY HandleMoves DEF RoundInv, JudgeInv
  <2> QED  BY <2>1, <2>2, ThreadSteps DEF RoundInv, JudgeInv, Unmoved
<1> HIDE DEF R
<1>3. Going /\ WF_vars(Push(t)) /\ []<>I /\ <>[]U => []<><<Push(t)>>_vars
  BY <1>1, <1>2, PTL DEF Going, R
<1> QED  BY <1>3, PTL

-----------------------------------------------------------------------------
(* Peers nobody can verify.                                                *)

LEMMA UnverifiedFalls ==
  ASSUME JudgeInv, [Next]_vars, NEW p \in Peers, ~ CanVerify(p)
  PROVE  /\ Score(p) \in Nat
         /\ Score(p)' <= Score(p)
         /\ LoseTrust(p) /\ Score(p)' = Score(p) => Score(p)' = 0
<1>t. TypeOK /\ RecordInv /\ DueInv /\ trust \in Trusts
  BY DEF JudgeInv, TypeOK, Trusts
<1>1. Score(p) \in Scores
  BY <1>t, ScoreType
<1>2. ~ EarnTrust(p) /\ \A t \in Peers : ~ StoreScore(t, p)
  BY <1>t DEF EarnTrust, StoreScore, RecordInv, OnlyVerifiedOnRecord
<1>3. LoseTrust(p) => score[p] = Score(p)
  BY <1>t DEF LoseTrust, DueInv
<1>4. LoseTrust(p) => Score(p)' = Lowered(score[p])
  BY <1>t, <1>1, <1>3, SetTrustFacts, ScoreTypes DEF LoseTrust, Score
<1>5. Lowered(Score(p)) <= Score(p) /\ (Lowered(Score(p)) = Score(p) => Score(p) = 0)
  BY <1>1, Bounds DEF Lowered, Scores
<1>6. Score(p)' = Score(p) \/ LoseTrust(p)
  BY <1>t, <1>2, ScoreMoves
<1> QED  BY <1>1, <1>3, <1>4, <1>5, <1>6 DEF Scores

\* A peer that pushes and cannot be verified loses all its trust, for good.
LEMMA UnverifiedEndsLow ==
  ASSUME NEW t \in Peers
  PROVE  Going /\ <>[](peer[t] = "up" /\ ~ CanVerify(t))
         /\ []<>(pc[t] = "idle") /\ []<><<Push(t)>>_vars /\ Settles(Score(t), vars)
         => <>[](Score(t) = 0)
<1> DEFINE I == pc[t] = "idle"
           P == pc[t] = "penalty"
           U == ~ CanVerify(t)
           m == Score(t)
           Z == Score(t) = 0
           R == RoundInv
           L == LoseTrust(t)
<1>1. R /\ U /\ [Next]_vars => m \in Nat /\ [m' <= m]_vars
  BY UnverifiedFalls DEF RoundInv, JudgeInv
<1>2. R /\ U /\ [Next]_vars /\ Push(t) => P'
  BY PushMoves DEF RoundInv, JudgeInv
<1>3. R /\ P /\ [Next]_vars => P' \/ <<L>>_vars
  <2> SUFFICES ASSUME RoundInv, P, [Next]_vars, ~ P' PROVE <<L>>_vars
    OBVIOUS
  <2>1. vars' # vars
    BY DEF vars, locals, own
  <2> QED  BY <2>1, ThreadSteps, PushMoves, HandleMoves DEF RoundInv, JudgeInv, Unmoved
<1>4. R /\ U /\ [Next]_vars /\ <<L>>_vars => ([m' = m]_vars => Z')
  BY UnverifiedFalls DEF RoundInv, JudgeInv
<1>6. [m' = m]_vars => (Z => Z')
  <2>1. vars' = vars => Score(t)' = Score(t)
    BY DEF vars, Score
  <2> QED  BY <2>1
<1>8. P => ~ I
  OBVIOUS
<1> HIDE DEF I, P, U, m, Z, R, L
<1>9. Going /\ <>[]U /\ []<>I /\ []<><<Push(t)>>_vars /\ Settles(m, vars)
      => <>[]Z
  BY <1>1, <1>2, <1>3, <1>4, <1>6, <1>8, PTL DEF Going, Settles, R
<1> QED  BY <1>9, PTL DEF I, U, m, Z

-----------------------------------------------------------------------------
(* The rounds of a peer that can be verified.                              *)

LEMMA GlitchesEnd ==
  Going /\ Settles(MaxGlitches - glitches, vars) => <>[][glitches' = glitches]_vars
<1> DEFINE m == MaxGlitches - glitches
           R == RoundInv
<1>1. ASSUME RoundInv, [Next]_vars
      PROVE  m \in Nat /\ m' <= m /\ (m' = m => glitches' = glitches)
  <2>1. glitches \in 0 .. MaxGlitches /\ glitches' \in 0 .. MaxGlitches
    BY <1>1, ConsensusTypeStep DEF RoundInv, JudgeInv, TypeOK
  <2>2. glitches' = glitches \/ glitches' = glitches + 1
    BY <1>1 DEF Next, Start, MakeKeys, Kill, Mute, Push, VerifyRight, VerifyWrong, Glitch, Verify,
       Handle, EarnTrust, LoseTrust, Accept, Copy, LoadScore, StoreScore, CheckChain, Fail,
       Finish, EndRound, Visit, BreakChain, peerVars, vars
  <2>3. \A k \in Nat : \A a, b \in 0 .. k : b = a \/ b = a + 1 =>
          k - a \in Nat /\ k - b <= k - a /\ (k - b = k - a => b = a)
    OBVIOUS
  <2> QED  BY <2>1, <2>2, <2>3, Bounds
<1> HIDE DEF m, R
<1>2. R /\ [Next]_vars => m \in Nat /\ [m' <= m]_vars /\ ([m' = m]_vars => [glitches' = glitches]_vars)
  BY <1>1 DEF R
<1>3. Going /\ Settles(m, vars) => <>[][glitches' = glitches]_vars
  BY <1>2, PTL DEF Going, Settles, R
<1> QED  BY <1>3 DEF m

\* Once no more faults come, every push of t begins a round.
LEMMA RoundsBegin ==
  ASSUME NEW t \in Peers
  PROVE  Going /\ <>[](peer[t] = "up" /\ CanVerify(t)) /\ <>[][glitches' = glitches]_vars
         /\ []<>(pc[t] = "idle") /\ []<><<Push(t)>>_vars
         => []<>(pc[t] = "gain") /\ <>[](~ (pc[t] = "penalty"))
<1> DEFINE I == pc[t] = "idle"
           P == pc[t] = "penalty"
           G == pc[t] = "gain"
           V == CanVerify(t)
           F == glitches' = glitches
           R == RoundInv
<1>1. R /\ V /\ [F]_vars /\ [Next]_vars /\ <<Push(t)>>_vars => G'
  BY PushMoves DEF RoundInv, JudgeInv, vars
<1>2. R /\ V /\ [F]_vars /\ [Next]_vars => P \/ ~ P'
  <2> SUFFICES ASSUME RoundInv, V, [F]_vars, [Next]_vars, ~ P PROVE ~ P'
    OBVIOUS
  <2>1. F
    BY DEF vars
  <2> QED  BY <2>1, ThreadSteps, PushMoves, HandleMoves DEF RoundInv, JudgeInv, Unmoved
<1>3. I => ~ P
  OBVIOUS
<1> HIDE DEF I, P, G, V, F, R
<1>4. Going /\ <>[]V /\ <>[][F]_vars /\ []<>I /\ []<><<Push(t)>>_vars => []<>G /\ <>[]~ P
  BY <1>1, <1>2, <1>3, PTL DEF Going, R
<1> QED  BY <1>4, PTL DEF I, P, G, V, F

\* A round that begins notes the peer and stores a score of every peer on record.
Before(t, p) ==
  \/ pc[t] \in {"gain", "accept", "copy"}
  \/ pc[t] \in {"load", "store"} /\ p \in todo[t]
  \/ pc[t] = "store" /\ p \in cur[t]

LEMMA RoundSteps ==
  ASSUME RoundInv, [Next]_vars, NEW t \in Peers, NEW p \in Peers
  PROVE  /\ pc[t] \in {"gain", "accept"} => pc'[t] \in {"gain", "accept"} \/ t \in known'
         /\ p \in known /\ Before(t, p) => Before(t, p)' \/ StoreScore(t, p)
         /\ p \in known => p \in known'
<1>t. TypeOK /\ OneAtATime
  BY DEF RoundInv, JudgeInv
<1>1. Push(t) => pc[t] = "idle"
  BY <1>t, PushMoves
<1>2. ASSUME Unmoved(t) PROVE pc'[t] = pc[t] /\ (Before(t, p) => Before(t, p)')
  BY <1>2 DEF Unmoved, Before
<1>3. ASSUME Handle(t)
      PROVE  pc[t] \in {"gain", "accept"} => pc'[t] \in {"gain", "accept"} \/ t \in known'
  BY <1>3, <1>t, HandleMoves
<1>4. ASSUME Handle(t), p \in known, Before(t, p) PROVE Before(t, p)' \/ StoreScore(t, p)
  BY <1>4, <1>t, HandleMoves DEF Before
<1>5. p \in known => p \in known'
  BY DEF Next, Start, MakeKeys, Kill, Mute, Push, VerifyRight, VerifyWrong, Glitch, Verify,
     Handle, EarnTrust, LoseTrust, Accept, Copy, LoadScore, StoreScore, CheckChain, Fail,
     Finish, EndRound, Visit, BreakChain, peerVars, vars
<1> QED  BY <1>1, <1>2, <1>3, <1>4, <1>5, <1>t, ThreadSteps DEF Before

LEMMA RoundsGoOn ==
  ASSUME NEW t \in Peers, NEW p \in Peers
  PROVE  Going /\ []<>(pc[t] = "gain") /\ []<>(pc[t] = "idle")
         => /\ <>[](t \in known)
            /\ <>(p \in known) => []<><<StoreScore(t, p)>>_vars
<1> DEFINE I == pc[t] = "idle"
           G == pc[t] = "gain"
           A == pc[t] \in {"gain", "accept"}
           B == Before(t, p)
           O == t \in known
           K == p \in known
           R == RoundInv
<1>1. R /\ [Next]_vars => /\ A => A' \/ O'
                          /\ K /\ B => B' \/ <<StoreScore(t, p)>>_vars
                          /\ K => K'
                          /\ O => O'
  <2>1. B /\ ~ B' => vars' # vars
    BY DEF vars, locals, own, Before
  <2> QED  BY <2>1, RoundSteps
<1>2. G => A /\ B
  BY DEF Before
<1>3. I => ~ A /\ ~ B
  BY DEF Before
<1> HIDE DEF I, G, A, B, O, K, R
<1>4. Going /\ []<>G /\ []<>I
      => <>[]O /\ (<>K => []<><<StoreScore(t, p)>>_vars)
  BY <1>1, <1>2, <1>3, PTL DEF Going, R
<1> QED  BY <1>4, PTL DEF I, G, O, K

-----------------------------------------------------------------------------
(* Full trust.                                                             *)

LEMMA NatLess == IsWellFoundedOn({ss \in Nat \X Nat : ss[1] < ss[2]}, Nat)
BY NatLessThanWellFounded, Zenon DEF OpToRel

LEMMA LeastExists ==
  ASSUME NEW S \in SUBSET Nat, S # {}
  PROVE  \E m \in S : \A k \in S : m <= k
<1> DEFINE R == {ss \in Nat \X Nat : ss[1] < ss[2]}
<1>1. \A x, y \in Nat : <<y, x>> \in R <=> y < x
  OBVIOUS
<1>0. IsWellFoundedOn(R, Nat)
  BY NatLess
<1> HIDE DEF R
<1>2. \E x \in S : \A y \in S : ~ (<<y, x>> \in R)
  BY <1>0, WFMin
<1>3. PICK x \in S : \A y \in S : ~ (<<y, x>> \in R)
  BY <1>2
<1>4. ASSUME NEW y \in S PROVE x <= y
  <2>1. x \in Nat /\ y \in Nat /\ ~ (y < x)
    BY <1>1, <1>3
  <2> QED  BY <2>1
<1> QED  BY <1>4

\* The thread has a score of p at hand that it is going to raise.
Holds(t, p) == (pc[t] = "store" /\ p \in cur[t]) \/ (pc[t] = "gain" /\ t = p)

\* The scores of p there are, on file and at hand; the least of them, what it
\* lacks for full trust, and the threads that still have it at hand.
Values(p) == {Score(p)} \cup {score[t] : t \in {u \in Peers : Holds(u, p)}}
Least(p)  == CHOOSE v \in Values(p) : \A w \in Values(p) : v <= w
Lack(p)   == TrustMax - Least(p)
Lowest(p) == {t \in Peers : Holds(t, p) /\ score[t] = Least(p)}

LeastIsLeast(p) ==
  /\ Values(p) \subseteq Scores
  /\ Least(p) \in Values(p) /\ \A v \in Values(p) : Least(p) <= v
  /\ Lack(p) \in Nat

LEMMA LeastFacts ==
  ASSUME TypeOK, NEW p \in Peers
  PROVE  LeastIsLeast(p)
<1>1. Values(p) \subseteq Scores /\ Values(p) # {}
  BY ScoreType DEF Values, TypeOK, Trusts
<1>2. Values(p) \in SUBSET Nat
  BY <1>1, Bounds DEF Scores
<1>3. \E v \in Values(p) : \A w \in Values(p) : v <= w
  BY <1>1, <1>2, LeastExists
<1>4. Least(p) \in Values(p) /\ \A v \in Values(p) : Least(p) <= v
  BY <1>3 DEF Least
<1>5. Least(p) \in Scores
  BY <1>1, <1>4
<1> QED  BY <1>1, <1>4, <1>5, Bounds DEF Lack, Scores, LeastIsLeast

\* What is at hand is read from the file or was at hand before; what is stored is
\* more than the least there was.
LEMMA ValuesMove ==
  ASSUME TypeOK, OneAtATime, [Next]_vars, NEW p \in Peers, ~ (pc[p] = "penalty")
  PROVE  /\ \/ Score(p)' = Score(p)
            \/ \E v \in Values(p) : Score(p)' = Raised(v)
         /\ \A t \in Peers : StoreScore(t, p) => \E v \in Values(p) : Score(p)' = Raised(v)
         /\ \A t \in Peers : Holds(t, p)' =>
              \/ Holds(t, p) /\ score'[t] = score[t]
              \/ score'[t] = Score(p) /\ Score(p)' = Score(p)
<1>t. trust \in Trusts /\ score \in [Peers -> Scores]
  BY DEF TypeOK, Trusts
<1>1. ~ LoseTrust(p)
  BY DEF LoseTrust
<1>2. ASSUME EarnTrust(p) PROVE score[p] \in Values(p)
  BY <1>2 DEF EarnTrust, Values, Holds
<1>3. ASSUME NEW t \in Peers, StoreScore(t, p)
      PROVE  score[t] \in Values(p) /\ Score(p)' = Raised(score[t])
  <2>1. score[t] \in Values(p)
    BY <1>3 DEF StoreScore, Values, Holds
  <2>2. SetTrust(p, Raised(score[t])) /\ Raised(score[t]) \in Scores
    BY <1>t, <1>3, ScoreTypes DEF StoreScore
  <2> QED  BY <1>t, <2>1, <2>2, SetTrustFacts DEF Score
<1>4. Score(p)' = Score(p) \/ \E v \in Values(p) : Score(p)' = Raised(v)
  BY <1>1, <1>2, <1>3, ScoreMoves
<1>5. ASSUME NEW t \in Peers, Holds(t, p)'
      PROVE  \/ Holds(t, p) /\ score'[t] = score[t]
             \/ score'[t] = Score(p) /\ Score(p)' = Score(p)
  <2>1. CASE Push(t)
    BY <1>5, <2>1, PushMoves DEF Holds, Score
  <2>2. CASE Handle(t)
    <3>1. PICK q \in todo[t] : cur'[t] = {q} /\ score'[t] = Score(q) /\ trust' = trust
                               /\ pc'[t] = "store"
      BY <1>5, <2>2, HandleMoves DEF Holds
    <3>2. q = p
      BY <1>5, <3>1 DEF Holds
    <3> QED  BY <3>1, <3>2 DEF Score
  <2>3. CASE Unmoved(t)
    BY <1>5, <2>3 DEF Unmoved, Holds
  <2> QED  BY <2>1, <2>2, <2>3, ThreadSteps
<1> QED  BY <1>3, <1>4, <1>5


LEMMA LeastFactsNext ==
  ASSUME NEW p \in Peers
  PROVE  TypeOK' => LeastIsLeast(p)'
<1>1. TypeOK => LeastIsLeast(p)
  BY LeastFacts
<1> QED  BY <1>1, PTL

\* Every score of p that is not the least is above it.
Above(p) == Least(p) < Score(p)

LEMMA LackFalls ==
  ASSUME TypeOK, OneAtATime, [Next]_vars, NEW p \in Peers, ~ (pc[p] = "penalty")
  PROVE  /\ Lack(p) \in Nat
         /\ Lack(p)' <= Lack(p)
         /\ Lack(p) = 0 => Score(p) = TrustMax
<1>1. LeastIsLeast(p) /\ LeastIsLeast(p)'
  BY LeastFacts, LeastFactsNext, ConsensusTypeStep
<1>2. /\ Values(p) \subseteq Scores /\ Values(p)' \subseteq Scores
      /\ Least(p) \in Values(p) /\ Least(p)' \in Values(p)'
      /\ Lack(p) \in Nat /\ \A v \in Values(p) : Least(p) <= v
  BY <1>1 DEF LeastIsLeast
<1>3. \A v \in Scores : Raised(v) >= v
  BY Bounds DEF Raised, Scores
<1>4. Score(p) \in Values(p)
  BY DEF Values
<1>5. ASSUME NEW w \in Values(p)' PROVE \E v \in Values(p) : v <= w
  <2>1. CASE w = Score(p)'
    <3>1. Score(p)' = Score(p) \/ \E v \in Values(p) : Score(p)' = Raised(v)
      BY ValuesMove
    <3>2. Score(p) <= Score(p)
      BY <1>2, <1>4 DEF Scores
    <3> QED  BY <1>2, <1>3, <1>4, <2>1, <3>1, <3>2
  <2>2. ASSUME NEW t \in Peers, Holds(t, p)', w = score'[t]
        PROVE  \E v \in Values(p) : v <= w
    <3>1. \/ Holds(t, p) /\ score'[t] = score[t]
          \/ score'[t] = Score(p)
      BY <2>2, ValuesMove
    <3>2. w \in Values(p)
      BY <2>2, <3>1 DEF Values
    <3>3. w <= w
      BY <1>2, <3>2 DEF Scores
    <3> QED  BY <3>2, <3>3
  <2> QED  BY <2>1, <2>2 DEF Values
<1>6. PICK v \in Values(p) : v <= Least(p)'
  BY <1>2, <1>5
<1>7. /\ Least(p) \in 0 .. TrustMax /\ Least(p)' \in 0 .. TrustMax /\ Least(p) <= Least(p)'
      /\ Score(p) \in 0 .. TrustMax /\ Least(p) <= Score(p)
  BY <1>2, <1>4, <1>6, Bounds DEF Scores
<1> QED  BY <1>2, <1>7, Bounds DEF Lack

\* While the least score stays the same, a store brings the one on file above it,
\* and then nobody reads the least any more.
LEMMA LowestShrinks ==
  ASSUME TypeOK, OneAtATime, [Next]_vars, NEW p \in Peers, ~ (pc[p] = "penalty"),
         Lack(p)' = Lack(p)
  PROVE  /\ ~ (Lack(p) = 0) => \A t \in Peers : StoreScore(t, p) => Above(p)'
         /\ Above(p) => Above(p)' /\ Lowest(p)' \subseteq Lowest(p)
<1>1. /\ Values(p) \subseteq Scores /\ Values(p)' \subseteq Scores
      /\ Least(p) \in Values(p) /\ Least(p)' \in Values(p)'
      /\ \A v \in Values(p) : Least(p) <= v
  BY LeastFacts, LeastFactsNext, ConsensusTypeStep DEF LeastIsLeast
<1>2. Score(p) \in Values(p)
  BY DEF Values
<1>3. /\ Least(p) \in 0 .. TrustMax /\ Least(p)' \in 0 .. TrustMax
      /\ Score(p) \in 0 .. TrustMax
  BY <1>1, <1>2 DEF Scores
<1>4. Least(p)' = Least(p) /\ (~ (Lack(p) = 0) => Least(p) < TrustMax)
  BY <1>3, Bounds DEF Lack
<1>5. Least(p) < TrustMax => \A v \in Values(p) : Least(p) < Raised(v)
  <2> SUFFICES ASSUME Least(p) < TrustMax, NEW v \in Values(p) PROVE Least(p) < Raised(v)
    OBVIOUS
  <2>1. v \in 0 .. TrustMax /\ Least(p) <= v
    BY <1>1 DEF Scores
  <2> QED  BY <1>3, <2>1, Bounds DEF Raised
<1>6. ~ (Lack(p) = 0) => \A t \in Peers : StoreScore(t, p) => Above(p)'
  BY <1>4, <1>5, ValuesMove DEF Above
<1>7. Above(p) => Least(p) < TrustMax
  BY <1>3, Bounds DEF Above
<1>8. Above(p) => Above(p)'
  BY <1>4, <1>5, <1>7, ValuesMove DEF Above
<1>9. ASSUME Above(p), NEW t \in Peers, Holds(t, p)', score'[t] = Least(p)'
      PROVE  Holds(t, p) /\ score[t] = Least(p)
  <2>1. score'[t] # Score(p)
    BY <1>3, <1>4, <1>9 DEF Above
  <2> QED  BY <1>4, <1>9, <2>1, ValuesMove
<1> QED  BY <1>6, <1>8, <1>9 DEF Lowest

\* All threads come to rest, again and again.
AllRest == \A t \in Peers : []<>(pc[t] = "idle")

LEMMA LowestEmpties ==
  ASSUME NEW p \in Peers
  PROVE  AllRest /\ [][Lowest(p)' = Lowest(p)]_vars => [](Lowest(p) = {})
<1> DEFINE Same == [][Lowest(p)' = Lowest(p)]_vars
           Never(t) == [](t \notin Lowest(p))
<1>1. ASSUME NEW t \in Peers
      PROVE  Same /\ []<>(pc[t] = "idle") => Never(t)
  <2> DEFINE I == pc[t] = "idle"
             N == t \notin Lowest(p)
             S == Lowest(p)' = Lowest(p)
  <2>1. I => N
    BY DEF Lowest, Holds
  <2>2. [S]_vars => (N' => N)
    <3>1. vars' = vars => Lowest(p)' = Lowest(p)
      BY DEF vars, locals, own, Lowest, Holds, Least, Values, Score
    <3> QED  BY <3>1
  <2> HIDE DEF I, N, S
  <2>3. [][S]_vars /\ []<>I => []N
    BY <2>1, <2>2, PTL
  <2> QED  BY <2>3, PTL DEF I, N, S
<1>2. Same /\ AllRest => \A t \in Peers : Never(t)
  <2> HIDE DEF Same, Never
  <2> QED  BY <1>1 DEF AllRest
<1>3. (\A t \in Peers : Never(t)) => [](\A t \in Peers : t \notin Lowest(p))
  OBVIOUS
<1>4. (\A t \in Peers : t \notin Lowest(p)) => Lowest(p) = {}
  BY DEF Lowest
<1> QED  BY <1>2, <1>3, <1>4, PTL

LEMMA AllRestAlways == AllRest => []AllRest
<1> DEFINE Rests(t) == []<>(pc[t] = "idle")
           Always(t) == []Rests(t)
<1>1. ASSUME NEW t \in Peers PROVE Rests(t) => Always(t)
  BY PTL
<1>2. AllRest => \A t \in Peers : Always(t)
  <2> HIDE DEF Always
  <2> QED  BY <1>1 DEF AllRest
<1>3. (\A t \in Peers : Always(t)) => [](\A t \in Peers : Rests(t))
  OBVIOUS
<1> QED  BY <1>2, <1>3, PTL DEF AllRest

\* A peer without penalties whose score is stored again and again ends with full
\* trust: as long as the least score is not full, each store is above it, so that
\* it gets out of use.
LEMMA EarnsFullTrust ==
  ASSUME NEW p \in Peers, NEW t \in Peers
  PROVE  Going /\ AllRest /\ <>[](~ (pc[p] = "penalty")) /\ []<><<StoreScore(t, p)>>_vars
         /\ Settles(Lack(p), vars) /\ Settles(Cardinality(Lowest(p)), vars)
         => <>[](Score(p) = TrustMax)
<1> DEFINE R == RoundInv
           Q == pc[p] = "penalty"
           m == Lack(p)
           k == Cardinality(Lowest(p))
           Z == Lack(p) = 0
           A == Above(p)
           X == Lowest(p)' = Lowest(p)
           Em == Lowest(p) = {}
           W == StoreScore(t, p)
           F == Score(p) = TrustMax
<1>0. vars' = vars => Lack(p)' = Lack(p)
  BY DEF vars, locals, own, Lack, Least, Values, Holds, Score
<1>1. R /\ ~ Q /\ [Next]_vars => m \in Nat /\ [m' <= m]_vars /\ (Z => F)
  BY LackFalls DEF RoundInv, JudgeInv
<1>2. R /\ ~ Q /\ [Next]_vars /\ [m' = m]_vars /\ ~ Z /\ <<W>>_vars => A'
  BY LowestShrinks DEF RoundInv, JudgeInv
<1>3. R => k \in Nat
  <2>1. Lowest(p) \subseteq Peers
    BY DEF Lowest
  <2> QED  BY <2>1, ConsensusAssumption, FS_Subset, FS_CardinalityType
<1>4. R /\ ~ Q /\ [Next]_vars /\ [m' = m]_vars /\ A => A' /\ [k' <= k /\ (k' = k => X)]_vars
  <2> SUFFICES ASSUME RoundInv, ~ Q, [Next]_vars, [m' = m]_vars, A
               PROVE  A' /\ k' <= k /\ (k' = k => X)
    OBVIOUS
  <2>1. Lack(p)' = Lack(p)
    BY <1>0
  <2>2. A' /\ Lowest(p)' \subseteq Lowest(p)
    BY <2>1, LowestShrinks DEF RoundInv, JudgeInv
  <2>3. IsFiniteSet(Lowest(p))
    <3>1. Lowest(p) \subseteq Peers
      BY DEF Lowest
    <3> QED  BY <3>1, ConsensusAssumption, FS_Subset
  <2> QED  BY <2>2, <2>3, FS_Subset
<1>5. R /\ A => ~ Em
  <2> SUFFICES ASSUME RoundInv, A, Em PROVE FALSE
    OBVIOUS
  <2>1. LeastIsLeast(p)
    BY LeastFacts DEF RoundInv, JudgeInv
  <2>2. Least(p) \in Scores /\ Score(p) \in Scores /\ Least(p) # Score(p)
    BY <2>1, Bounds DEF LeastIsLeast, Above, Values, Scores
  <2> QED  BY <2>1, <2>2 DEF LeastIsLeast, Values, Lowest
<1>6. [m' = m]_vars => (Z' <=> Z)
  BY <1>0
<1>7. AllRest /\ [][X]_vars => []Em
  BY LowestEmpties
<1> HIDE DEF R, Q, m, k, Z, A, X, Em, W, F
<1>8. [k' <= k /\ (k' = k => X)]_vars => [k' <= k]_vars /\ ([k' = k]_vars => [X]_vars)
  OBVIOUS
<1>9. Going /\ AllRest /\ <>[]~ Q /\ []<><<W>>_vars /\ Settles(m, vars) /\ Settles(k, vars)
      => <>[]F
  BY <1>1, <1>2, <1>3, <1>4, <1>5, <1>6, <1>7, <1>8, AllRestAlways, PTL DEF Going, Settles, R
<1> QED  BY <1>9, PTL DEF Q, m, k, W, F

-----------------------------------------------------------------------------
(* What becomes of a peer in the end.                                      *)

\* The counts that come to rest (Progress): faults to come, and of each peer the steps left of a round, its score, what that lacks for full trust
\* and who still has the least of it at hand.
Settled(p) ==
  /\ Settles(Left(p), vars)
  /\ Settles(Score(p), vars)
  /\ Settles(Lack(p), vars)
  /\ Settles(Cardinality(Lowest(p)), vars)

CountsSettle ==
  /\ Settles(MaxGlitches - glitches, vars)
  /\ \A p \in Peers : Settled(p)

\* What is assumed: the threads are scheduled, none of them waits, and natural
\* numbers do not fall for ever.
Scheduled == FairSpec /\ []NeverWaits /\ CountsSettle

\* What the peers may do, and what comes of it.
StaysVerified(p)   == <>[](peer[p] = "up" /\ CanVerify(p))
StaysUnverified(p) == <>[](peer[p] = "up" /\ ~ CanVerify(p))
Stops(p)           == <>[](peer[p] \in {"down", "mute"})
GetsOnRecord(p)    == <>(p \in known)
Unpunished(p)      == <>[](~ (pc[p] = "penalty"))
Rests(t)           == []<>(pc[t] = "idle")
Stores(t, p)       == []<><<StoreScore(t, p)>>_vars
EndsTrusted(p)     == <>[](Score(p) = TrustMax)
EndsWell(p)        == <>[](p \in known /\ Score(p) = TrustMax)
EndsBadly(p)       == <>[](p \notin known /\ Score(p) = 0)

LEMMA ScheduledFacts ==
  ASSUME NEW t \in Peers
  PROVE  Scheduled => Spec /\ Going /\ Settled(t) /\ Runs(t) /\ Rests(t)
<1>1. Scheduled => Spec /\ []NeverWaits /\ Runs(t) /\ Settled(t)
  BY DEF Scheduled, FairSpec, CountsSettle
<1>2. Spec /\ []NeverWaits => Going
  BY RoundsCorrect, PTL DEF Spec, Going
<1>3. Going /\ WF_vars(Handle(t)) /\ Settles(Left(t), vars) => []<>(pc[t] = "idle")
  BY RoundsEnd, PTL
<1> QED  BY <1>1, <1>2, <1>3, PTL DEF Runs, Settled, Rests

LEMMA ScheduledEnds ==
  Scheduled => /\ <>[][glitches' = glitches]_vars
               /\ AllRest
<1>1. Scheduled => Spec /\ []NeverWaits
                   /\ Settles(MaxGlitches - glitches, vars)
  BY DEF Scheduled, FairSpec, CountsSettle
<1>2. Spec /\ []NeverWaits => Going
  BY RoundsCorrect, PTL DEF Spec, Going
<1>3. Scheduled => AllRest
  <2>1. Scheduled => \A t \in Peers : Rests(t)
    BY ScheduledFacts
  <2> QED  BY <2>1 DEF AllRest, Rests
<1> QED  BY <1>1, <1>2, <1>3, GlitchesEnd, PTL

\* The rounds of a peer that stays up and can be verified.
LEMMA VerifiedRounds ==
  ASSUME NEW t \in Peers, NEW p \in Peers
  PROVE  Scheduled /\ StaysVerified(t)
         => /\ <>[](t \in known) /\ Unpunished(t)
            /\ GetsOnRecord(p) => Stores(t, p)
<1>1. Scheduled => Going /\ Runs(t) /\ Rests(t) /\ <>[][glitches' = glitches]_vars
  BY ScheduledFacts, ScheduledEnds
<1>2. Going /\ WF_vars(Push(t)) /\ []<>(pc[t] = "idle") /\ <>[](peer[t] = "up")
      => []<><<Push(t)>>_vars
  BY PushesGoOn, PTL
<1>3. Going /\ <>[](peer[t] = "up" /\ CanVerify(t)) /\ <>[][glitches' = glitches]_vars
      /\ []<>(pc[t] = "idle") /\ []<><<Push(t)>>_vars
      => []<>(pc[t] = "gain") /\ <>[](~ (pc[t] = "penalty"))
  BY RoundsBegin, PTL
<1>4. Going /\ []<>(pc[t] = "gain") /\ []<>(pc[t] = "idle")
      => /\ <>[](t \in known)
         /\ <>(p \in known) => []<><<StoreScore(t, p)>>_vars
  BY RoundsGoOn, PTL
<1> QED  BY <1>1, <1>2, <1>3, <1>4,
         PTL DEF Runs, Rests, StaysVerified, Unpunished, GetsOnRecord, Stores

\* A peer that stays up and cannot be verified.
LEMMA UnverifiedLosesAll ==
  ASSUME NEW t \in Peers
  PROVE  Scheduled /\ StaysUnverified(t) => EndsBadly(t)
<1>1. Scheduled => Going /\ Runs(t) /\ Rests(t) /\ Settled(t)
  BY ScheduledFacts
<1>2. Going /\ WF_vars(Push(t)) /\ []<>(pc[t] = "idle") /\ <>[](peer[t] = "up")
      => []<><<Push(t)>>_vars
  BY PushesGoOn, PTL
<1>3. Going /\ <>[](peer[t] = "up" /\ ~ CanVerify(t))
      /\ []<>(pc[t] = "idle") /\ []<><<Push(t)>>_vars /\ Settles(Score(t), vars)
      => <>[](Score(t) = 0)
  BY UnverifiedEndsLow, PTL
<1>4. RoundInv /\ ~ CanVerify(t) => t \notin known
  BY DEF RoundInv, JudgeInv, RecordInv, OnlyVerifiedOnRecord
<1> QED  BY <1>1, <1>2, <1>3, <1>4,
         PTL DEF Runs, Rests, Settled, Going, StaysUnverified, EndsBadly

\* A peer on record that gets no more penalties, and another whose rounds go on.
LEMMA OnRecordEarnsAll ==
  ASSUME NEW p \in Peers, NEW t \in Peers
  PROVE  Scheduled /\ StaysVerified(t) /\ GetsOnRecord(p) /\ Unpunished(p) => EndsTrusted(p)
<1>1. Scheduled => Going /\ Settled(p) /\ AllRest
  BY ScheduledFacts, ScheduledEnds
<1>2. Scheduled /\ StaysVerified(t) /\ GetsOnRecord(p) => Stores(t, p)
  BY VerifiedRounds
<1>3. Going /\ AllRest /\ <>[](~ (pc[p] = "penalty")) /\ []<><<StoreScore(t, p)>>_vars
      /\ Settles(Lack(p), vars) /\ Settles(Cardinality(Lowest(p)), vars)
      => <>[](Score(p) = TrustMax)
  BY EarnsFullTrust, PTL
<1> QED  BY <1>1, <1>2, <1>3, PTL DEF Settled, Unpunished, Stores, EndsTrusted

\* A peer that stops gets no more penalties.
LEMMA StoppedIsUnpunished ==
  ASSUME NEW p \in Peers
  PROVE  Scheduled /\ Stops(p) => Unpunished(p)
<1> DEFINE I == pc[p] = "idle"
           P == pc[p] = "penalty"
           D == peer[p] \in {"down", "mute"}
<1>1. RoundInv /\ D /\ [Next]_vars => P \/ ~ P'
  <2> SUFFICES ASSUME RoundInv, D, [Next]_vars, ~ P PROVE ~ P'
    OBVIOUS
  <2> QED  BY ThreadSteps, PushMoves, HandleMoves DEF RoundInv, JudgeInv, Unmoved
<1>2. I => ~ P
  OBVIOUS
<1>3. Scheduled => Going /\ Rests(p)
  BY ScheduledFacts
<1> HIDE DEF D
<1>4. Scheduled /\ <>[]D => <>[](~ (pc[p] = "penalty"))
  BY <1>1, <1>2, <1>3, PTL DEF Going, Rests
<1> QED  BY <1>4, PTL DEF D, Stops, Unpunished

\* Lost updates only delay the judgement: a peer that keeps running with both its
\* keys ends on record with full trust, one without them ends without any and off
\* the record, for any number of threads that overwrite each other's scores
\* (integrity/agent.py:166-173, 191, integrity/signer.py:24-27).
THEOREM KeysAlwaysDecide ==
  FairSpec /\ []NeverWaits /\ CountsSettle => KeysDecideTrust
<1>1. ASSUME NEW t \in Peers
      PROVE  Scheduled /\ StaysVerified(t) => EndsWell(t)
  <2>1. ASSUME NEW p \in Peers
        PROVE  Scheduled /\ StaysVerified(t) => <>[](t \in known) /\ Unpunished(t)
    BY VerifiedRounds, PTL
  <2>2. Scheduled /\ StaysVerified(t) => <>[](t \in known) /\ Unpunished(t)
    BY <2>1
  <2>3. Scheduled /\ StaysVerified(t) /\ GetsOnRecord(t) /\ Unpunished(t) => EndsTrusted(t)
    BY OnRecordEarnsAll
  <2> QED  BY <2>2, <2>3, PTL DEF GetsOnRecord, EndsTrusted, EndsWell
<1>2. ASSUME NEW t \in Peers
      PROVE  Scheduled /\ StaysUnverified(t) => EndsBadly(t)
  BY UnverifiedLosesAll
<1>3. Scheduled => \A p \in Peers : /\ StaysVerified(p) => EndsWell(p)
                                    /\ StaysUnverified(p) => EndsBadly(p)
  BY <1>1, <1>2
<1>4. Scheduled => KeysDecideTrust
  BY <1>3 DEF KeysDecideTrust, StaysVerified, StaysUnverified, EndsWell, EndsBadly
<1> QED  BY <1>4 DEF Scheduled

\* A peer that is on record and stops for good gets full trust from the pushes of
\* another, whatever penalties were under way (gossip/node.py:45,
\* integrity/agent.py:178, 191).
THEOREM TrustAlwaysOutlives ==
  FairSpec /\ []NeverWaits /\ CountsSettle => TrustOutlivesPeer
<1>1. ASSUME NEW p \in Peers, NEW q \in Peers
      PROVE  Scheduled /\ GetsOnRecord(p) /\ Stops(p) /\ StaysVerified(q) => EndsTrusted(p)
  BY StoppedIsUnpunished, OnRecordEarnsAll
<1>2. Scheduled => TrustOutlivesPeer
  BY <1>1 DEF TrustOutlivesPeer, GetsOnRecord, Stops, StaysVerified, EndsTrusted
<1> QED  BY <1>2 DEF Scheduled
=============================================================================
