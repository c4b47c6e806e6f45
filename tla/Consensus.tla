----------------------------- MODULE Consensus ------------------------------
(***************************************************************************)
(* Whom a controller trusts.  Its peers make their key files               *)
(* (integrity/signer.py:21-33), start and push signed heads; each push is  *)
(* handled by a thread of its own, which verifies it, notes the peer and   *)
(* runs a round of run_consensus (gossip/node.py:42-48,                    *)
(* integrity/agent.py:165-214).  The dictionary trust is shared by all     *)
(* these threads without a lock: a score is read in one step and written   *)
(* in another, and the round's last loop iterates over a dictionary that   *)
(* may grow meanwhile, which makes Python raise RuntimeError.              *)
(*                                                                         *)
(* Requests that the checks of time and index reject are left to Gossip,   *)
(* and so are lost ones: the pushes here are those that get to the         *)
(* signature.  At most one request of a peer is under way.                 *)
(***************************************************************************)
EXTENDS Integers, FiniteSets

CONSTANTS Peers,
          TrustMax, Gain, Penalty, Low,   \* 1.0, 0.02, 0.3 and 0.30
          MaxCrashes, MaxGlitches         \* bounds of the model

ASSUME ConsensusAssumption ==
  /\ IsFiniteSet(Peers)
  /\ TrustMax \in Nat /\ Gain \in Nat \ {0} /\ Penalty \in Nat \ {0}
  /\ Low \in 1 .. TrustMax
  /\ MaxCrashes \in Nat /\ MaxGlitches \in Nat

VARIABLES
  keys,                       \* per peer: writes of generate_keys made so far
  peer,                       \* per peer: its process
  crashes, glitches,
  trust, known,               \* the scores, and the keys of peer_hashes
  chainOk,                    \* what verify_all of the own chain returns
  fails,                      \* per thread: rounds that failed so far
  pc, score, cur, todo,       \* per thread: position; score read, of whom; to do
  size,                       \* per thread: entries when the iteration began
  flags, due                  \* per thread: peers reported; those to report

peerVars == <<keys, peer, crashes>>
own      == <<chainOk, fails>>
locals   == <<pc, score, cur, todo, size, flags, due>>
vars == <<peerVars, glitches, trust, known, own, locals>>

\* generate_keys opens, writes the private key, opens, writes the public one.
HasPrivate(p) == keys[p] >= 1
CanSign(p)    == keys[p] >= 2
CanVerify(p)  == keys[p] = 4

Processes == {"down", "making", "up", "mute"}
Scores    == 0 .. TrustMax
Positions == {"idle", "gain", "penalty", "accept", "copy", "load", "store",
              "check", "iterate"}

\* Mutated forms of Raised and Lowered: no upper limit, and no penalty larger
\* than the score.
RaisedFreely(n) == n + Gain
LoweredWithin(n) == IF n < Penalty THEN n ELSE n - Penalty

\* A mutated form of Score: a peer never seen starts without any trust.
ScoreUnknown(p) == IF p \in DOMAIN trust THEN trust[p] ELSE 0

\* self.trust.get(pid, 1.0), min(1.0, ... + 0.02) and max(0.0, ... - 0.3)
Score(p) == IF p \in DOMAIN trust THEN trust[p] ELSE TrustMax
Raised(n) == IF n + Gain > TrustMax THEN TrustMax ELSE n + Gain
Lowered(n) == IF n < Penalty THEN 0 ELSE n - Penalty

\* self.trust[pid] = n, which may be a new entry.
SetTrust(p, n) ==
  trust' = [q \in DOMAIN trust \cup {p} |-> IF q = p THEN n ELSE trust[q]]

Goto(t, l) == pc' = [pc EXCEPT ![t] = l]

Init ==
  /\ keys = [p \in Peers |-> 0]
  /\ peer = [p \in Peers |-> "down"]
  /\ crashes = 0 /\ glitches = 0
  /\ trust = [p \in {} |-> 0] /\ known = {}
  /\ chainOk = TRUE /\ fails = [t \in Peers |-> 0]
  /\ pc = [t \in Peers |-> "idle"]
  /\ score = [t \in Peers |-> 0]
  /\ cur = [t \in Peers |-> {}] /\ todo = [t \in Peers |-> {}]
  /\ size = [t \in Peers |-> 0]
  /\ flags = [t \in Peers |-> {}] /\ due = [t \in Peers |-> {}]

-----------------------------------------------------------------------------
(* A peer's process: IntegrityAgent.__init__ as far as keys go.            *)

\* A mutated form of Start: every start makes new keys.
StartAnew(p) ==
  /\ peer[p] = "down"
  /\ peer' = [peer EXCEPT ![p] = "making"]
  /\ keys' = [keys EXCEPT ![p] = 0]
  /\ UNCHANGED <<crashes, glitches, trust, known, own, locals>>

\* ensure_keys looks for the private key only; _flush(BOOT) then signs, and with
\* an empty private key the constructor raises and the process ends.
Start(p) ==
  /\ peer[p] = "down"
  /\ HasPrivate(p) => CanSign(p)
  /\ peer' = [peer EXCEPT ![p] = IF HasPrivate(p) THEN "up" ELSE "making"]
  /\ UNCHANGED <<keys, crashes, glitches, trust, known, own, locals>>

\* One open or write of generate_keys.
MakeKeys(p) ==
  /\ peer[p] = "making" /\ keys[p] < 4
  /\ keys' = [keys EXCEPT ![p] = @ + 1]
  /\ peer' = [peer EXCEPT ![p] = IF keys[p] = 3 THEN "up" ELSE "making"]
  /\ UNCHANGED <<crashes, glitches, trust, known, own, locals>>

Kill(p) ==
  /\ peer[p] # "down" /\ crashes < MaxCrashes
  /\ crashes' = crashes + 1
  /\ peer' = [peer EXCEPT ![p] = "down"]
  /\ UNCHANGED <<keys, glitches, trust, known, own, locals>>

\* get_signed_state raises, for want of a file handle, say: nothing in
\* _gossip_loop catches it and the thread that pushes ends.
Mute(p) ==
  /\ peer[p] = "up" /\ glitches < MaxGlitches
  /\ glitches' = glitches + 1
  /\ peer' = [peer EXCEPT ![p] = "mute"]
  /\ UNCHANGED <<keys, crashes, trust, known, own, locals>>

-----------------------------------------------------------------------------
(* verify_peer and receive in the thread that handles a push of t.         *)

\* verify() turns every exception into False, a public key that is missing as
\* well as a fault that will pass; then trust.get.
Verify(t, l) ==
  /\ peer[t] = "up" /\ pc[t] = "idle"
  /\ score' = [score EXCEPT ![t] = Score(t)]
  /\ Goto(t, l)
  /\ UNCHANGED <<peerVars, trust, known, own, cur, todo, size, flags, due>>

VerifyRight(t) == CanVerify(t) /\ Verify(t, "gain") /\ UNCHANGED glitches
VerifyWrong(t) == ~ CanVerify(t) /\ Verify(t, "penalty") /\ UNCHANGED glitches
Glitch(t) ==
  /\ CanVerify(t) /\ glitches < MaxGlitches
  /\ glitches' = glitches + 1
  /\ Verify(t, "penalty")

EarnTrust(t) ==
  /\ pc[t] = "gain"
  /\ SetTrust(t, Raised(score[t]))
  /\ score' = [score EXCEPT ![t] = 0]
  /\ Goto(t, "accept")
  /\ UNCHANGED <<peerVars, glitches, known, own, cur, todo, size, flags, due>>

LoseTrust(t) ==
  /\ pc[t] = "penalty"
  /\ SetTrust(t, Lowered(score[t]))
  /\ score' = [score EXCEPT ![t] = 0]
  /\ Goto(t, "idle")
  /\ UNCHANGED <<peerVars, glitches, known, own, cur, todo, size, flags, due>>

\* self.peer_hashes[pid] = phash
Accept(t) ==
  /\ pc[t] = "accept"
  /\ known' = known \cup {t}
  /\ Goto(t, "copy")
  /\ UNCHANGED <<peerVars, glitches, trust, own, score, cur, todo, size, flags, due>>

-----------------------------------------------------------------------------
(* run_consensus(self.peer_hashes.copy()).  Every hash of the copy is      *)
(* there, receive having refused the others: the branch for a missing hash *)
(* is never taken.                                                         *)

Copy(t) ==
  /\ pc[t] = "copy"
  /\ todo' = [todo EXCEPT ![t] = known]
  /\ Goto(t, "load")
  /\ UNCHANGED <<peerVars, glitches, trust, known, own, score, cur, size, flags, due>>

\* The peers of the copy, in any order: trust.get of one ...
LoadScore(t, p) ==
  /\ pc[t] = "load" /\ p \in todo[t]
  /\ score' = [score EXCEPT ![t] = Score(p)]
  /\ cur' = [cur EXCEPT ![t] = {p}]
  /\ todo' = [todo EXCEPT ![t] = @ \ {p}]
  /\ Goto(t, "store")
  /\ UNCHANGED <<peerVars, glitches, trust, known, own, size, flags, due>>

\* ... and its new score.
StoreScore(t, p) ==
  /\ pc[t] = "store" /\ p \in cur[t]
  /\ SetTrust(p, Raised(score[t]))
  /\ score' = [score EXCEPT ![t] = 0]
  /\ cur' = [cur EXCEPT ![t] = {}]
  /\ Goto(t, IF todo[t] = {} THEN "check" ELSE "load")
  /\ UNCHANGED <<peerVars, glitches, known, own, todo, size, flags, due>>

\* The peers nobody can verify that the loop over trust has to report: their
\* scores only fall.
Suspects == {p \in DOMAIN trust : ~ CanVerify(p) /\ trust[p] < Low}

\* verify_all; a chain that fails ends the round before the scores are looked
\* at.  Then the iterator over trust is made, which notes the size.
CheckChain(t) ==
  /\ pc[t] = "check"
  /\ IF chainOk
     THEN /\ Goto(t, "iterate")
          /\ todo' = [todo EXCEPT ![t] = DOMAIN trust]
          /\ size' = [size EXCEPT ![t] = Cardinality(DOMAIN trust)]
          /\ due' = [due EXCEPT ![t] = Suspects]
     ELSE Goto(t, "idle") /\ UNCHANGED <<todo, size, due>>
  /\ UNCHANGED <<peerVars, glitches, trust, known, own, score, cur, flags>>

Grown(t) == Cardinality(DOMAIN trust) # size[t]

\* What is left of a round when it ends.
EndRound(t) ==
  /\ Goto(t, "idle")
  /\ todo' = [todo EXCEPT ![t] = {}]
  /\ size' = [size EXCEPT ![t] = 0]
  /\ flags' = [flags EXCEPT ![t] = {}] /\ due' = [due EXCEPT ![t] = {}]
  /\ UNCHANGED <<peerVars, glitches, trust, known, chainOk, score, cur>>

\* A mutated form of Visit: who is reported is dropped from trust.
VisitDrops(t, p) ==
  /\ pc[t] = "iterate" /\ ~ Grown(t)
  /\ p \in todo[t]
  /\ todo' = [todo EXCEPT ![t] = @ \ {p}]
  /\ \/ /\ trust[p] <= Low /\ flags' = [flags EXCEPT ![t] = @ \cup {p}]
        /\ trust' = [q \in DOMAIN trust \ {p} |-> trust[q]]
     \/ trust[p] >= Low /\ UNCHANGED <<flags, trust>>
  /\ UNCHANGED <<peerVars, glitches, known, own, pc, score, cur, size, due>>

\* "score < 0.30" of a sum of floats that should be 0.30 may be either.
Visit(t, p) ==
  /\ pc[t] = "iterate" /\ ~ Grown(t)
  /\ p \in todo[t]
  /\ todo' = [todo EXCEPT ![t] = @ \ {p}]
  /\ \/ trust[p] <= Low /\ flags' = [flags EXCEPT ![t] = @ \cup {p}]
     \/ trust[p] >= Low /\ UNCHANGED flags
  /\ UNCHANGED <<peerVars, glitches, trust, known, own, pc, score, cur, size, due>>

\* The iterator finds that the dictionary has grown, at its end too.
Fail(t) ==
  /\ pc[t] = "iterate" /\ Grown(t)
  /\ fails' = [fails EXCEPT ![t] = @ + 1]
  /\ EndRound(t)

\* A mutated form of Finish: the loop ends one entry early.
FinishEarly(t) ==
  /\ pc[t] = "iterate" /\ ~ Grown(t) /\ Cardinality(todo[t]) <= 1
  /\ EndRound(t) /\ UNCHANGED fails

Finish(t) ==
  /\ pc[t] = "iterate" /\ ~ Grown(t) /\ todo[t] = {}
  /\ EndRound(t) /\ UNCHANGED fails

\* The window drops its first block, and verify_all fails from then on.
BreakChain ==
  /\ chainOk
  /\ chainOk' = FALSE
  /\ UNCHANGED <<peerVars, glitches, trust, known, fails, locals>>

Push(t)   == VerifyRight(t) \/ VerifyWrong(t) \/ Glitch(t)
Handle(t) ==
  \/ EarnTrust(t) \/ LoseTrust(t) \/ Accept(t) \/ Copy(t)
  \/ CheckChain(t) \/ Fail(t) \/ Finish(t)
  \/ \E p \in Peers : LoadScore(t, p) \/ StoreScore(t, p) \/ Visit(t, p)

Next ==
  \/ \E p \in Peers : \/ Start(p) \/ MakeKeys(p) \/ Kill(p) \/ Mute(p)
                      \/ Push(p) \/ Handle(p)
  \/ BreakChain

Spec == Init /\ [][Next]_vars

\* Running peers push forever and threads go on; nobody has to start a peer.
Runs(t)  == WF_vars(Push(t)) /\ WF_vars(Handle(t))
FairSpec == Spec /\ \A t \in Peers : Runs(t)

-----------------------------------------------------------------------------
TypeOK ==
  /\ keys \in [Peers -> 0 .. 4]
  /\ peer \in [Peers -> Processes]
  /\ crashes \in 0 .. MaxCrashes /\ glitches \in 0 .. MaxGlitches
  /\ trust \in UNION {[ps -> Scores] : ps \in SUBSET Peers}
  /\ known \subseteq Peers
  /\ chainOk \in BOOLEAN /\ fails \in [Peers -> Nat]
  /\ pc \in [Peers -> Positions]
  /\ score \in [Peers -> Scores]
  /\ cur \in [Peers -> SUBSET Peers] /\ todo \in [Peers -> SUBSET Peers]
  /\ size \in [Peers -> 0 .. Cardinality(Peers)]
  /\ flags \in [Peers -> SUBSET Peers] /\ due \in [Peers -> SUBSET Peers]

\* Nobody gets on record whose signatures cannot be verified: no restart, crash
\* or fault between the two key files makes other keys than the first ones
\* (integrity/signer.py:30-33, gossip/node.py:45).
OnlyVerifiedOnRecord == \A p \in known : CanVerify(p)

\* A peer whose signatures can be verified is never charged with more than one
\* penalty for each fault there was, however many threads store scores they had
\* read long before, and no round reports it for less than the faults that bring
\* full trust down to the limit (integrity/agent.py:166-173, 191, 202-205).
TrustFollowsFaults ==
  \A p \in Peers : CanVerify(p) =>
    /\ Score(p) >= TrustMax - Penalty * glitches
    /\ \A t \in Peers : p \in flags[t] => TrustMax - Penalty * glitches <= Low

\* The two sides of the judgement: whoever is on record has keys, and whoever
\* is reported lacks them or was hit by faults.
RecordFollowsKeys == OnlyVerifiedOnRecord /\ TrustFollowsFaults

\* A round that gets through its last loop reports every peer that nobody can
\* verify and whose score was too low when the loop began, whichever threads
\* changed trust meanwhile; a round that fails had met a new peer
\* (integrity/agent.py:202-205).
SuspectsAreReported ==
  [][\A t \in Peers : pc[t] = "iterate" /\ pc'[t] = "idle" =>
       due[t] \subseteq flags[t] \/ Grown(t)]_vars

\* Lost updates of trust only delay: a peer that keeps running with both its
\* keys ends on record with full trust for good, one that was killed between
\* the two files ends without any, and is never on record
\* (integrity/agent.py:166-173, 191, integrity/signer.py:24-27).
KeysDecideTrust ==
  \A p \in Peers :
    /\ <>[](peer[p] = "up" /\ CanVerify(p)) => <>[](p \in known /\ Score(p) = TrustMax)
    /\ <>[](peer[p] = "up" /\ ~ CanVerify(p)) => <>[](p \notin known /\ Score(p) = 0)

\* The last loop does not fail forever: however the threads interleave, the rounds
\* of one fail at most once for each other peer there is a score of, and the scores
\* are those of peers, so all rounds but a few that find the chain in order get
\* through and report (integrity/agent.py:202-205).
RoundsSeldomFail ==
  \A t \in Peers : fails[t] = 0 \/ fails[t] < Cardinality(DOMAIN trust)

\* Whoever has something to do can do it, whatever the other threads are doing:
\* a running peer that is idle pushes, and no thread that handles a push waits.
NeverWaits ==
  \A t \in Peers :
    /\ peer[t] = "up" /\ pc[t] = "idle" => ENABLED <<Push(t)>>_vars
    /\ pc[t] # "idle" => ENABLED <<Handle(t)>>_vars

\* "Consensus validated by peer responsiveness" (integrity/agent.py:178): a peer
\* that was on record and is down for good does not keep full trust while another
\* one's pushes go on.
TrustFollowsResponse ==
  \A p, q \in Peers :
    /\ <>(p \in known) /\ <>[](peer[p] = "down")
    /\ <>[](peer[q] = "up" /\ CanVerify(q))
    => <>[](Score(p) < TrustMax)

\* What the code does instead: a peer that is on record and stops for good gets
\* full trust from the pushes of another (gossip/node.py:45, integrity/agent.py:191).
TrustOutlivesPeer ==
  \A p, q \in Peers :
    /\ <>(p \in known) /\ <>[](peer[p] \in {"down", "mute"})
    /\ <>[](peer[q] = "up" /\ CanVerify(q))
    => <>[](Score(p) = TrustMax)
=============================================================================
