# Verification of the SDN controller integrity monitor

This directory holds TLA+ models of the integrity monitor under `src/`, the TLC
configurations that check them on small instances, and theorems about them that
TLAPS proves for every value of their constants. `PROJECT.json` lists the
components, the runs, the source lines each definition stands for, the hazards
and the theorems.

## 1. The system

Three Ryu controllers run as processes on one host or one network. Each embeds
an *integrity agent* which turns every network event into a block of a hash
chain, publishes the chain's head and a health verdict in a JSON file all
processes share, and exchanges signed heads with its peers by HTTP every five
seconds. A dashboard polls the shared files.

| Component | State it keeps | Operations | Correct when |
|---|---|---|---|
| `integrity/chain.py` | `head`, `height`, the last 1000 `blocks` | `add`, `verify_all` | blocks stay linked and unchanged; the window holds the newest; a change is noticed; an untouched chain verifies |
| `integrity/agent.py`, local part | the chain, `n_alert`, rate windows, `boot_grace_end` | the `on_*` hooks, `_flush`, `_alert`, `_heartbeat_flush`, `reset_alerts` | memory is bounded; no flush dies; a controller that counted two HIGH alerts is published as unhealthy |
| `integrity/agent.py`, peer part | `_peer_last_idx`, `trust` | `get_signed_state`, `verify_peer`, `run_consensus` | the index on record never decreases; trust stays in bounds and reflects who responds |
| `gossip/node.py`, `gossip/server.py` | `last_seen`, `peer_hashes` | `receive`, `_gossip_loop`, `_push`, `_hb_loop` | who was heard is not called offline; who died is; a restarted peer is accepted again |
| `STATE_FILE` | a document with one entry per controller | read-modify-write in `_flush`, by every thread of every controller; rewriting in place in `api_reset` and in the attack simulator | readers see whole documents; entries advance; damage heals |
| `ALERT_FILE` | a list of alerts, the last 500 after a controller's write | read-modify-write in place: `_alert` of the agents, which gives up when the list cannot be read; `_alert` of the simulator, which keeps every alert and begins a new list then; clearing in `api_reset` | it holds the newest alerts, whole |
| `dashboard/app.py` | `_prev_alert_n`, `_seen_alert_keys`, event and packet history | `_poller`, `api_reset`, socket handlers | every recorded alert is shown, once |
| `monitoring/audit.py` | `_prev`, the audit file of all controllers | `write`, `snapshot` | what is missing from the file shows |
| `monitoring/anomaly.py` | moving mean and deviation per process | `feed`, `check` | steady traffic is quiet, a spike is flagged, whatever was learnt |
| `integrity/signer.py` | two key files per controller | `generate_keys`, `ensure_keys`, `sign`, `verify` | what one controller signs its peers accept; who cannot be verified is never trusted |
| `controller/ryu_controller.py` | the MAC tables; the switches' rules | `_switch_up`, `_pkt_in`, `_flow` | tables and rules point to the host; frames arrive |
| `scripts/multi_controller.py` | the line of switches and their controllers | start-up | each switch outlives one of its controllers |
| `attacks/simulator.py` | a forged entry and the hash to put back | `compromise_controller`, `reset` | the next heartbeats repair what it did |


**How they interact.** The Ryu event thread calls `on_switch_up`,
`on_packet_in` and `on_flow_add`. `_heartbeat_flush` runs in a daemon thread of
the agent. The gossip node has a push loop and a TTL loop, each a thread, and
its HTTP server starts a thread for every request. All of them end in `_flush`,
most of them through `_alert`. `_lock` protects the counters; `_flush`, the
chain, `trust`, `_peer_last_idx`, `peer_hashes` and `last_seen` are used without
it. Processes meet in the two JSON files, in the audit
file, in the HTTP requests and at the switches, each of which is connected to
two of them.

**What is hard.** Unlocked code that several threads run (`chain.add`,
`_flush`, `verify_peer`), read-modify-write of files by several processes
through one temporary name, requests that outlive the sender's 3 s timeout,
restarts that bring a chain back to height 0, keys that are written in four
steps, scores and a dictionary several threads change, lines that are cut short
in a shared log, two controllers that answer for one switch, grace periods, and
limits: 1000 blocks, 500 alerts, 30 s and 60 s. `PROJECT.json` lists each
hazard at its line with the properties about it.

## 2. The modules

| Module | Models | Extends / uses |
|---|---|---|
| `ChainOps` | digest, block, trimming and `verify_all` as operators | |
| `HashChain` | `chain.py` with `add` in one step: the contract the agent is shown to keep | `ChainOps` |
| `IntegrityAgent` | one process: its threads, one shared access per step | `ChainOps`; refines `HashChain` |
| `Gossip` | what one controller learns of its peers through requests that may be lost, late or overlapping | |
| `Consensus` | whom one controller trusts: key files, verification, scores, rounds | |
| `SharedDocument` | what the state file promises: one document whose updates are atomic | |
| `StateFile` | the shared document: the threads of all controllers, contents, names, open handles, crashes, a full disk, rewriting in place | refines `SharedDocument` |
| `AlertFile` | the alert file: controllers and simulator as writers, the dashboard's poller, the reset | |
| `Anomaly`, `AuditLog` | the detector as operators; the audit file | |
| `Monitoring` | both as the agents use them | `AuditLog`, `Anomaly` |
| `LearningSwitch` | the controllers' tables and the switches they share | |
| `HashChainProofs`, `AgentProofs`, `GossipProofs`, `ConsensusProofs`, `StateFileProofs`, `AlertProofs`, `MonitoringProofs`, `LearningSwitchProofs` | theorems | their module, `TLAPS` |
| `Progress` | what the liveness theorems use of the natural numbers | |
| `MC*` | instances for TLC | their module |

Operators whose name says how a definition might go wrong (`TrimEarly`,
`ReceiveAnyIndex`, ...) are mutated forms. No specification uses them; putting
one in the place of the definition next to it breaks the property
`PROJECT.json` pairs it with.

### ChainOps and HashChain

A digest is modelled by the history it commits to: `Digest(s, prev)` appends `s`
to the sequence `prev`. That is injective in both arguments, which is what the
code assumes of SHA3-256, and keeps `verify_all` a computation that can fail.
`add` appends a block and drops the oldest when more than `MaxBlocks` are left.
`Restart` is a new process: nothing of the chain is stored, so it starts from
`GENESIS`. `verify_all` is translated as written, with `GENESIS` in front of
the oldest block in memory.

### IntegrityAgent

A thread has a list `todo` of calls it owes (`_flush`, or `_alert` which ends in
a `_flush`), a position `pc` and the locals `frame`. The sections under `_lock`
are one step each: the entry points and the counting in `_alert`. `_flush` and
`HashChain.add` hold no lock and are split at every access to the shared chain
and counters:

| Step | Code |
|---|---|
| `ComputeHash` | `new_hash = sha3_256(canon + self.head)` |
| `BuildBlock` | `block = {"idx": self.height, ...` |
| `LinkBlock` | `"prev": self.head, ...}` |
| `SetHead`, `LoadHeight`, `StoreHeight`, `AppendBlock` | the three assignments, `+=` as a load and a store |
| `TestLength`, `PopOldest` | `if len(self.blocks) > 1000: self.blocks.pop(0)` |
| `RaiseInSign` | `sign` raises between `add` and the payload (`agent.py:235`) |
| `JudgeHealth` | `self.n_alert < 2 and self.chain.verify_all()` |
| `Publish` | the entry is in the file |
| `FailWrite`, `LogFailure` | reading, writing or renaming raises; the exception ends the call |

Abstractions: the whole of `verify_all` is one step; the snapshot, whose
counters and height the thread reads here and there, is named by the thread that
takes it, since two snapshots differ at least in `ts`; the size of a rate window
after filtering is any size up to the old one plus one; the anomaly detector's
verdict is a free choice; `phase` is the age of the process (constructor
running, under 30 s, under 90 s, older); the entry of `_flush` in the state file
is one step here and many in `StateFile`. The load and the store of
`self.height += 1` can be separated by a thread switch on CPython 3.8 and 3.9,
both admitted by `pyproject.toml`; `NoFlushCountsTwice` says what that can cost:
counts are lost, and none is made twice.

`calm` is true until two `add`s of the process have overlapped. Until then the
agent implements `HashChain` (`ImplementsChain`), with any number of threads that
alert, judge, publish and fail meanwhile: the add takes effect at `SetHead`, from
where on `AbsHeight` and `AbsBlocks` show the chain as `add` will leave it. What
`HashChain` promises of memory is therefore true of the threads' chain as well
(`WindowIsChain`, `TamperEvident`).

### Gossip

One receiver and its peers. A request is a record that moves through the places
of its handler: `sent`, past the checks (`store`), index stored (`verify`),
signature verified (`accept`), hash stored (`vote`). Of a peer's chain the module
keeps `height`, which is what `get_signed_state` sends, and the run (`gen`) a
hash is of: the receiver only asks whether it has one. The peer's blocks are
added by its threads without a lock, so `GrowHeight` stores one more than any
height an add still under way may have loaded (`oldest` is the least of these)
and may set the height back; `fell` notes that it went back, by such a store or
by a restart, since the receiver started. Head and height of one push may be of
different blocks, any number apart; nothing on the receiver's side compares them.
Time is in ticks of one gossip interval; `lastSeen` is kept as an age. `Crash`,
`Recover`, `Reboot`, `Lose` and `RejectSignature` are the failures. `silent`
is what really happened, for comparison with `lastSeen`: the age of the latest
push that arrived. `Prompt` says that a request
ends before its sender's timeout, so that at most one per peer is under way
(`Slots` has one element); without it handlers overlap. Trust is an integer
scale with the same order of events; `_alert` calls change nothing here (they
are `IntegrityAgent!AccusePeer`); who is trusted in the end is `Consensus`'s
question. Clocks of the controllers are assumed to
agree. A cluster is one copy of this module per controller: nothing flows back
to the sender except an answer it ignores.

### Consensus

One controller as the judge of its peers. A peer's key files are the number of
the four calls of `generate_keys` made so far (open and write the private key,
open and write the public one), so a peer killed in between has an empty private
key and cannot start any more (`Start`: `_flush(BOOT)` signs and raises), or no
complete public one and runs unverifiable; `ensure_keys` looks for the private
key's name only. Each push is handled in a thread named after its peer: `verify`
(which turns every exception into False; `Glitch` is one that passes), the read
and the write of `trust` in two steps, the two steps of `receive`, and
`run_consensus` with one access to `trust` or `peer_hashes` per step. The last
loop of `run_consensus` iterates over the dictionary itself: `Grown` is the
condition under which Python raises `RuntimeError`, `Fail` the exception, after
which the request ends with its hash already accepted. `Mute` is an exception of
`get_signed_state`, caught nowhere: the peer's push thread ends while the peer
runs on. `BreakChain` is the own chain's verdict turning false, for good, as it
does at block 1001 at the latest: from then on `CheckChain` ends every round
before the scores are looked at (`agent.py:195-197`), and nobody is reported for
a low score any more. The branch for a missing hash (`agent.py:185-189`) is never
taken, because `receive` turns such a message down first. `due` is what the
properties compare `flags` with, the suspects when the loop began; `fails` counts
the rounds of a thread that `Fail` ended.

### SharedDocument and StateFile

`live` and `tmp` are the contents of `STATE_FILE` and `STATE_FILE.tmp`: missing,
empty, torn, or a document. A handle stays with the file it was opened on:
`Replace` turns handles to the temporary file into handles to the live one, and
those to the live one into handles to a file without a name. A controller
flushes from several threads (`Threads`, `Owner`): the heartbeat, the Ryu thread,
the TTL loop and the gossip handlers all run `agent.py:232-273`, on one temporary
name. A flush is `Payload` (the entry, with the verdict of that moment: `Judges`),
`Load` (what the file holds, or nothing, merged with the entry), `OpenTmp`,
`Write` or `FailWrite` (the disk is full), and `Replace`. `ResetLoad`,
`AttackLoad`, `RestoreLoad`, `ResetOpen` and `ResetWrite` are the calls of
whoever rewrites the document in place: `api_reset`, and the simulator,
which forges an entry and ten seconds later puts the hash it had read back into
whatever the document is by then. `GiveUp` is the simulator's look at a document
it cannot read. A document is written at offset 0 by one `write(2)`, because it
is smaller than the 8 KB buffer; written over a file that is not empty, it may
leave the tail of what was there. An entry is the number of the flush that made
it, saturating at `MaxSeq`, with its verdict; no restart resets the number, which
only tells entries apart. Controllers are killed and started between any two
calls, and so is the process that rewrites (`Abort`). `Together` is a bound: the
sets of threads that may be in a flush at once.

`Section` is the threads between their reading and their renaming of the file;
`Alone` says that at most one thread, or whoever rewrites, is in its section, and
that no controller has two flushes under way. `calm` says that this was so all
along and that no rewrite was cut short.

`SharedDocument` is the document without files: a controller makes entries
(`Make`), publishes its newest one, in one step that leaves the others alone, or
does not; is killed and forgets its verdict (`Forget`); whoever resets or attacks
changes entries in one step, too. `intact` ends the
promise. `ImplementsDocument` maps `calm` to it, and the document to what the
live file holds, or, while somebody rewrites that in place, to the document on
its way: the truncated file is hidden, and the update takes effect at the open.
What a controller does with the temporary file, what it has read and what is cut
off by a kill or a full disk are stutters.

### Anomaly, AuditLog and Monitoring

`feed` is translated to fixed point with `Scale` parts of a packet per second,
each result rounded down where the code rounds to a float; the comparison with
the deviation is squared, so no root is taken. `alpha` and `threshold` are the
defaults, because `check` passes no others. The audit file is the set of its
readable lines: a write succeeds, fails, or leaves part of a line, with which
the next line, often another process's, becomes unreadable. An entry's hash is
known by the run of the process and the number of the entry, `prev` is the one
before, and `Open` starts a run with zeros, because `_prev` is memory. In
`Monitoring`, `Packet` feeds a rate to the detector and writes the alarm, if
any; `lo`, `hi` and `last` are what the properties compare with: the least, the
greatest and the latest sample of the process.

### LearningSwitch

`multi_controller.py` connects every switch of a line to two controllers, called
primary and backup in its comment (lines 10-13). `ryu_controller.py` asks for no
role, so a switch sends each packet without a rule to both, and both flood it or
send it on: a frame becomes several copies, and a copy sent by one controller
meets the other's rules. `PktIn` is the whole of `_pkt_in`; `Raise` is the same
when `on_flow_add` raises between the rule and the packet out (its `_flush`
signs, and a key that cannot be read raises), `KillInHandler` when the process
dies there. A copy is the frame, the switch it reaches and the port it comes in
by; `wire` and `pend` count copies on links and packets in at a controller. The
switches are Open vSwitch as Mininet starts it (external): `Apply`, `PacketIn`,
`Drop`, `Expire`. `since` is what `NoFrameIsLost` needs to know: per frame, the
connections that have lasted since it was sent, without a handler breaking off.
Controllers share nothing but switches; what the handlers report to the agent is
`IntegrityAgent`'s. Messages between controller and switch take no time of their
own, and links lose nothing.

### AlertFile

`Load` is the part of `_alert` up to `json.load`; `Open` truncates the file,
`WritePiece` and `Finish` write it, in one or two pieces, since 500 alerts
exceed a buffer. `Outcomes` says what bytes of several handles make: a list
written over a longer content, or after a truncation, may be unreadable. The
writers are threads of controllers and runs of the attack simulator
(`Simulators`). A controller keeps the newest `Cap` alerts, and drops its alert
when it cannot load the list, because `_alert` swallows the exception; the
simulator (`simulator.py:58-81`) applies no cap and starts a new list then, which
makes the file readable again and loses what it held. `Longer` is what either
will write. `PollLoad` to `PollEnd` are the poller's accesses to `_prev_alert_n`
and `_seen_alert_keys`, which `ResetPrev` and `ResetSeen` replace from a request
thread. `PollBreak` is a round in which sending an alert raises: `_prev_alert_n`
has moved on by then (`app.py:90`), so what is left of the round's alerts is never
looked at again; `dropped` collects them. An alert is its number, standing for
the key (type, time) by which the poller knows it. `calm` is true as long as no
section of a writer or of a reset
met another, and no reset met a round of the poller; a round of the poller may
meet writers. The poller's first half reads `STATE_FILE` only to show it; that
it may raise and end the round is `PollFail`. One request to reset at a time is
modelled.

## 3. The runs

| Run | Question | Bounds |
|---|---|---|
| `agent` | which bounds of the unlocked chain survive every interleaving, what is one chain until two adds overlap, and what is published of a compromise | 2 threads, 4 flushes, window 3: both may trim at once; rate limits of zero |
| `chain_untouched` (violation) | does an untouched chain verify? | window 3, 7 blocks |
| `agent_verifies` (violation) | do two flushing threads keep the chain valid? | 2 threads, nothing trimmed |
| `gossip` | order, no false replay, no false alarm, detection, recovery | 1 peer, heights to 4 that stale stores set back, a restart on both sides, lost pushes, rejected signatures |
| `gossip_overtake` (violation) | order with overlapping handlers | 2 requests at once |
| `file` | are the files one document, and what heals? | 2 controllers, one with two flushing threads; it is accused and attacked; first flush against the later ones, 1 rewriting, kills and full disks at any point |
| `file_torn` (violation) | do readers see whole documents? | the same, nothing rewritten in place |
| `alerts` | what is lost, shown twice or never shown | a controller and a simulator, cap 2, 3 alerts, one reset: the cap is passed before and after it |
| `consensus` | who is on record, how often rounds fail, who is reported and trusted in the end | 2 peers, scores 0 to 5, 2 kills, one passing fault: both threads can be anywhere in a round |
| `trust` (violation) | does trust follow who responds? | the same |
| `monitoring` | what the log proves, what the detector flags | 2 processes, 5 entries, 2 lost lines; 4 rates below, inside and beyond the band, warm-up 3, 5 samples |
| `switch` | do shared switches loop, mislearn or lose? | 2 switches, 2 hosts, one controller for both and one that shares the second, 2 frames, 2 faults |

`CHECK_DEADLOCK FALSE` is given where the model may stop: `IntegrityAgent`,
whose bound `MaxAdds` ends it; `Consensus`, when every peer has died with an
empty private key and none can start again, as in the code; `Monitoring`, when
all processes are killed and the log is at its bound; `LearningSwitch`, when its
frames are sent and delivered.

**Why the bounds are enough.** The windows are the smallest that two threads
can overrun. The length of the block list, the TTL, the index on record and the
scores are compared with values below, equal and above. The rate limits are not:
in run `agent` every packet and every flow rule is over its limit, which is the
case that counts alerts, and those under it do what `SwitchEvent` does. Nor is the
replay window, in run `gossip`: with `Prompt` every request is handled before the clock ticks, so its
age stays 0. What requests that are handled late do is in `gossip_overtake`, and
in the theorem `NoFalseOffline`, which does not assume `Prompt`. Each failure can
happen in every state until its bound is used up, and the bounds let two of them
combine. `HeadIsKnown` needs a window of at least `2n - 1` blocks for `n` threads
and is run at that limit. In `file`, `Together` lets the heartbeat of the first
controller be in a flush together with the controller's other thread, and with
the other controller, but no three at once: with two, every call of one falls
between any two of the other, and what three leave behind is among what
`HeartbeatAlwaysHeals` starts from, which has no such bound. In
`switch` the second frame meets what the first one taught, and a copy of it the
rule another copy installed; a line of two is the shortest on which copies
travel. Symmetry is used for the two frames, which are alike until they are sent
and which no property but invariants is about. What has a theorem holds for all
bounds.

Some properties join facts that belong together: `TrimmingIsSafe` the two bounds
of the unlocked block list, `WindowIsChain` what the window holds (the newest
blocks, without a gap) and how they are linked, `RecordFollowsKeys` the two sides
of the judgement on a peer, `HeartbeatHeals` the verdict for good and the newest
entry again and again.

**Fairness.** `IntegrityAgent!FairSpec`: each thread that has a statement to
run runs it (the threads are OS threads). `Gossip!FairSpec`: time passes, a peer
that runs adds blocks (its heartbeat) and ends the adds it began, the
loops of running processes go on, handlers finish, of pushes sent forever one
arrives and of signatures verified forever one is valid (strong fairness of
`Receive` and `PassSignature`, because `Lose` and `RejectSignature` may
interfere: a network or a key that never works is not repaired by this code);
nobody is obliged to restart a process. `StateFile!FairSpec`: the heartbeat of a
running controller begins a flush again and again (`Beats`), a flush that began
goes on (`Runs`), a rewriting that began ends or is given up (`RewritesEnd`), and
of writes tried forever one finds room on the disk (strong fairness of
`Stores`); no other thread has to flush. `Consensus!FairSpec`: a peer whose
process runs and pushes does so
forever, and the threads that handle pushes go on; nobody has to start a peer.
`AlertFile!FairSpec`: the poller's rounds go on and are not all ended by the
state file, and sections and resets that began end; no alert has to be raised.
`Monitoring` and `LearningSwitch` state no fairness: nothing has to happen.

Two liveness properties also state what the code cannot give: `OfflineDetected`
that time passes, and `RecordedIsShown` that the poller keeps loading and the
writers' sections end (`RoundsGoOn`). `HeartbeatHeals` is about a controller that
stays up and sections that, from some time on, meet no more (`Undisturbed`): as
long as threads race on `STATE_FILE.tmp` the file may be torn again and again,
also when only one controller is left, and nothing is promised. The races
before may have left anything.

**What the violation runs show.**

- `chain_untouched`: `verify_all` starts from `GENESIS` although `add`
  dropped the block that followed it, so an untouched chain fails for good from
  block 1001 on. `tests/test_chain.py:39-42` asserts that a chain of 20 blocks
  verifies, lines 57-62 add 1200 blocks without asking, and `README.md:259` takes
  a failing `verify_all` for tampering. A controller that only
  sends heartbeats gets there in 84 minutes, one with traffic sooner, and is
  published unhealthy from then on.
- `agent_verifies`: two `add`s that overlap append blocks whose links do not
  follow each other; `verify_all` then fails without any tampering.
- `gossip_overtake`: two requests of one peer handled at once both pass the index
  check; the older one may store its index last.
- `file_torn`: a thread may rename the temporary file that another has just
  truncated.
- `trust`: `peer_hashes` never loses an entry, so a peer that was heard once and
  died for good ends with full trust, through the pushes of another, although
  consensus is "validated by peer responsiveness" (`agent.py:178`) and
  `tests/test_agent.py:111` tests the branch for a peer that did not respond,
  which no message can reach.

**What properties that hold say of the code.** Some of them state what a reader
of its documentation would not expect:

- `RepeatIsQuiet`: the deviation learns every anomaly, so a flood is one alarm at
  its first packet. That `anomaly.py:11` says a gradual drift is detected, too, is
  covered by no property: nothing in the repository says what a drift is.
- `KeysDecideTrust`: a controller killed between its two key files is never
  trusted again, and nothing repairs it.
- `LinkedRunIsComplete`: a gap in the audit file shows before a later entry of its
  run; entries lost at the end of a run leave none and are noticed by nobody.
- `RoundsSeldomFail`: the loop over a dictionary that grows raises at most once for
  each other peer.
- `NoFrameIsLost`: a frame is safe as long as one controller of each switch
  lasts; it says nothing of copies. With both controllers of a switch answering,
  hosts get several, though `multi_controller.py:10-13` speaks of a primary and a
  backup.

Met while modelling and left without a run: the vote of `run_consensus` is always
unanimous, because `receive` only counts peers whose hash it just accepted, and
its result is ignored (`node.py:47`), so the "2-of-3 majority" of the
repository's `README.md:8` decides nothing, and the edge where two of three is
below 0.67 is never met; from block 1001 on `run_consensus` returns before it
looks at the scores; overlapping sections of `_alert`
lose alerts (`CalmFileIsComplete` is only about sections that do not meet), and
while the alert file is unreadable every alert of a controller is dropped, until
a reset or until the simulator begins a new list, both of which lose the old one;
at the cap of 500 alerts the length stops changing and nothing new is
shown (the disjunct `raised - base > Cap` of `ShownOrLost`); a poller round that
raises while it sends drops the rest of its alerts; a reset that falls into a
round of the poller leaves a stale count, so the next alert may not be shown; two
overlapping `add`s may count once in `height` (and both publish one `idx`), never
twice (`NoFlushCountsTwice`), and a late store sets the height back, upon which
the next pushes of an honest peer are turned down as replays (`ReplayMeansFell`
says that nothing else does that); two threads may both pop
for one excess block; a peer that never pushed since the receiver started is
never reported offline, which `OfflineDetected` states with its second
disjunct; `api_reset` truncates the live document in place; a flush that judged
before the second alert may publish its healthy verdict after the alert's own
flush, until the next heartbeat (`CompromiseIsPublished` says what does hold).

What the properties with `calm` exclude is named there and nowhere claimed:
overlapping adds, sections and flushes have no safety property of their own but
the ones that hold throughout (`TrimmingIsSafe`, `HeadIsKnown`,
`NoFlushCountsTwice`, `ShownOnce`) and those that say the damage passes
(`HeartbeatHeals`, `RestartedPeerAccepted`).

## 4. What is proved

| Theorem | Says | From |
|---|---|---|
| `HashChainProofs!TypeCorrect`, `WindowCorrect`, `LinksCorrect`, `WindowIsAlwaysChain` | type, window, links of the chain | any `MaxBlocks >= 1`, any snapshots |
| `VerificationCorrect` | `verify_all` accepts an untouched chain iff nothing was dropped: how far `chain_untouched` reaches | the two invariants above |
| `TamperingIsEvident` | a changed state or link is noticed | the links |
| `HistoryCorrect` | no block is changed or dropped early | the window |
| `AgentProofs!AgentTypeCorrect`, `MemoryIsBounded`, `PopsAreSafe`, `TrimmingIsAlwaysSafe` | any number of threads overrun the window by at most the threads that are trimming, and never pop an empty list | at most `MaxBlocks` threads |
| `HeadIsAlwaysKnown` | the head is the hash of a block in memory or in the hands of the thread about to append it | `MaxBlocks >= 2n - 1` |
| `HeightIsEarned` | adds lose counts to each other and never gain one | any threads, alerts and restarts |
| `CalmAddIsAdd` | the agent implements `HashChain`: every statement of `add` is the abstract `Add` or a stutter | any threads, until two adds overlap |
| `CalmWindowIsChain`, `CalmTamperEvident` | what `HashChain` promises of memory is true of the threads' chain | the same |
| `TwoAlertsArePublished` | every flush that has yet to judge a controller with two HIGH alerts publishes it as unhealthy, or fails | threads run (`WF`), `[]NeverWaits` |
| `GossipProofs!GossipTypeCorrect` | records and trust keep their ranges | |
| `NoFalseOffline` | no false offline report, whatever is lost, however late requests are handled and however handlers overlap | |
| `IndexNeverRollsBack` | the index on record never decreases | requests of a peer do not overlap |
| `ReplayersFell` | only a peer whose height went back is turned down as a replayer | the same |
| `DeadPeersAreReported` | `OfflineDetected` | fairness, `[]NeverWaits`, `TimePasses`, counts settle |
| `RestartedPeersAreAccepted` | `RestartedPeerAccepted`: a hash of the peer's current run ends on record; the height on record is not part of it | `Prompt`, fairness, `[]NeverWaits`, counts settle |
| `ConsensusProofs!ConsensusTypeCorrect`, `RecordCorrect`, `RoundsReport` | scores stay in range; nobody on record without both keys; a round that ends reports its suspects | any peers, any scores, every race |
| `FaultsCorrect`, `RecordIsJust` | a peer with keys loses one penalty per fault at most, and is never reported for less | the same |
| `UnverifiedScoresFall` | the score of a peer nobody can verify never rises | the same |
| `RoundsFailSeldom` | a thread's rounds fail less often than there are peers with a score | the same |
| `KeysAlwaysDecide` | `KeysDecideTrust` | fairness, `[]NeverWaits`, counts settle |
| `TrustAlwaysOutlives` | a peer that was on record and stopped for good ends with full trust through the pushes of another: how far `trust` reaches | the same |
| `StateFileProofs!StateFileTypeCorrect`, `CalmFileCorrect`, `EntriesNeverGoBack` | sections that do not meet leave a whole document and only move entries on, killed anywhere | any controllers and threads |
| `FilesAreOneDocument` | the files refine `SharedDocument` | any controllers, threads, kills, full disks, until sections or flushes of a controller meet or a rewrite is cut short |
| `HeartbeatAlwaysHeals` | `HeartbeatHeals`: whatever the races of threads and controllers left, once they meet no more the heartbeat repairs the document | any controllers and threads, fairness, `[]NeverWaits` |
| `AlertProofs!AlertTypeCorrect`, `NoAlertTwice` | controllers write no list beyond the cap; nothing is shown twice between resets, whatever overlaps or fails | |
| `AlertProofs!CalmFileCorrect` | sections that do not meet leave the newest alerts, whole and in order, at least as many as the cap | any controllers and simulators |
| `PollerSkipsNone` | below the cap the poller has shown what it counted but for rounds that broke off, whatever it reads between a writer's calls | no section met another |
| `RecordedIsAlwaysShown` | `RecordedIsShown` | any writers, alerts and resets, fairness, `[]NeverWaits`, counts settle |
| `MonitoringProofs!MonitoringTypeCorrect`, `GapsShow` | a run whose entries on file follow one another has every entry up to the last one on file; a lost tail leaves no gap | any processes, any losses |
| `SteadyTrafficRaisesNone`, `SpikesAreFlagged`, `RepeatRaisesNone` | a band of three packets is quiet, a spike is flagged, its repetition is not | any precision of a tenth or finer, any warm-up of two or more, any rates |
| `LearningSwitchProofs!TypeCorrect`, `TablesCorrect`, `FramesCorrect` | tables and rules point to their hosts; no frame is lost that one lasting controller per switch could bring | any line, hosts, controllers and assignment |

**The arguments.** `WindowIsNewest` and `Linked` are inductive once the head is
known to be as deep as the height; verification then follows by induction over
the window's positions, unrolled by the links. `MemoryIsBounded` is not
inductive: a thread that has tested the length pops later, after others may have
popped. `AgentInv` adds `PopIsSafe`, which counts the threads that have decided
to pop, and `OwesFlush`, which ties a thread's position to the call it owes; the
steps then change a cardinality by at most one.

`HeadIsAlwaysKnown` rests on `HeadKept`: the blocks younger than the head's and
the threads that are in `add` are together fewer than the threads, and a pop
takes the oldest block of a list that is longer than the window, so it cannot
reach the head's. `HeightIsEarned` needs a count of what is still owed:
`Uncounted` is the set of flushes that wait for their `StoreHeight`, and
`CountInv` bounds the height by the flushes begun less those; a thread that loads
and stores an old height only widens the gap.

`CalmAddIsAdd`: while `calm` holds at most one thread is in `add` (`Alone`), and
`Established` says what its locals are at each statement, compared with the
chain. `AloneSees` computes from that what the mapping shows of the chain at each
statement; so `SetHead` is the abstract `Add` (`SetHeadAdds`) and every other
statement a stutter, of the other threads too, which touch no chain. What
`HashChainProofs` proves of one abstract step then carries over (`Laws`,
`SeenChain`) and gives `CalmWindowIsChain` and `CalmTamperEvident`.

For order in `Gossip`, `OrderInv` adds what a handler has established
(`RequestInv`: between the check and the store the index on record is not above
the request's, and after it they are equal) and that, of a peer whose height has
not gone back, no index on record and on its way is above the height
(`HeightInv`: `RisesOnly`). With one request per peer nobody else moves the
index in between, which is exactly what fails in `gossip_overtake`. For
`NoFalseOffline` the invariant is that `lastSeen` never exceeds `silent`.

`RecordCorrect` follows from the positions: a thread past `verify` belongs to a
peer with both files, and files only grow. `RoundsReport` follows the loop: while
the dictionary has the size it had when the iteration began, what is still to be
visited and what is flagged cover the suspects of the beginning. `FaultInv`
bounds the score on record and every score a thread
has in its hands by `TrustMax` less a penalty per fault; a stale store then
writes nothing lower, and a thread with a penalty at hand was given it by a fault
of its own. `UnverifiedScoresFall` needs that the thread of the peer itself is
the only one that stores its score, so what that thread has read is not stale.
`RoundsFailSeldom`: a round that iterates began with at least one entry more than
rounds of its thread had failed (`FailInv`), and fails only when there is one
more still.

`CalmFileCorrect` of the state file names at each position of the one thread in
its section what the two files hold and where its handle leads.
`FilesAreOneDocument` rests on `DocInv`, which extends this to
what the mapping hides: while a rewriting is under way, what its
handle will write; while a flush is under way, that its copy of the document
is the document with the newest entry of its controller put in (`Merged`), so
that `Replace` publishes one entry and loses none; and that no block in the file
is newer than the newest made (`Within`).

`CalmFileCorrect` of the alert file needs to know at each position of the one
active writer what the file and its document are (`CalmInv`), and that appending
to the newest alerts, with or without the cap, gives newest alerts, `Enough` of
them (`NewestGrows`). `NoAlertTwice` counts an alert once per reset and once more
while its key is known. `PollInv` extends this to the poller: below the cap the
list it holds is a
beginning of what was recorded (`LoadedIsRecorded`), its count is not beyond that
list, and every alert up to the count was shown, was in a round that broke off, or
is still in its hands. A writer that
truncates the file under the poller makes it read nothing or an error, never a
list that skips.

`GapsShow` would need an induction over the
entries of a run; it is avoided by the invariant that what is linked is
contiguous, which the next entry of a run extends by one. The detector's
theorems rest on one fact: mean and root of the variance stay inside the hull of
the samples, in fixed point and with rounding. `TablesCorrect` rests on `Placed`:
a copy of a frame is always on the side of a switch its source is on, since a
switch sends nothing back where it came from and the line has no cycle; so what
is learnt from a copy is true even when copies are many. `FramesCorrect` then
goes through the handlers: a copy on the way to a receiver is moved to the next
switch on the way by a rule or by any handler that completes.

**Progress.** Every liveness property of the passing runs has a theorem that
starts from the fairness of the specification, with two facts given to it.

- `[]NeverWaits`: fairness reaches a proof only through ENABLED, which the prover
  cannot evaluate. `NeverWaits` says in plain conditions on the state when a
  thread, a handler, a heartbeat or the poller can take a step. It is true by the
  shape of the actions: each is guarded by a position and assigns every
  variable, and no lock is held between two of them. So it says nothing about the
  code beyond the actions themselves, no run has it as a property, and the
  theorems only take it in place of the evaluation.
- *Counts settle* (`Settles` in `Progress`): a natural number that from some time
  on never rises changes no more in the end. That holds of every behaviour,
  whatever the specification, as long as the number depends on the variables
  only; it is an induction over temporal formulas, which the prover does not
  have. The theorems name the numbers (`CountsSettle`, or in the statement) and
  prove of each that it is natural and when it does not rise, which is where the
  interleavings are.

`TwoAlertsArePublished` walks a thread through its positions: its verdict cannot
turn back to healthy while the count stays, and no other thread moves it.

`DeadPeersAreReported`: a dead process sends nothing (`DeadSendsNothing`), what
it has on the way only gets less (`OnTheWay` settles), so in the end nothing of it
arrives, its age only grows (what lacks to the TTL, `SeenFor`, and to the end of
the grace period, `GraceLeft`, settles), and no sweep takes
the report back. `TimePasses` stays in front: a request that is under way may
hold back `Tick` under `Prompt`, so with several peers weak fairness of `Tick`
alone does not make time pass.
`RestartedPeersAreAccepted`: restarts of the receiver and of the peer come to an
end; stale stores set the height back, but the oldest height under way only rises
(`ToGrow` settles), so the chain gets as long as the model lets it (`Grown`);
handlers free their slot again and again (`HandlersEnd`), and what
is pushed from then on cannot be turned down (`Good`); strong fairness of
`Receive` and `PassSignature` brings one such push all the way to the record
(`PushesAreAccepted`), where every later one only confirms it.

In `Consensus` rounds end because what is left of one falls with every step of
its thread (`Left`), although others add peers meanwhile. The
half of `KeysAlwaysDecide` about a peer without keys: a score nobody can
raise settles, every push lowers it until it is zero.
`TrustAlwaysOutlives` and the other half of `KeysAlwaysDecide`: a
score on record may fall when a stale one is stored over it, so the proof does
not follow it. It follows the least of the scores on record and in any thread's
hands. Once nobody gives penalties any more that least score never falls
(`Lack` settles), every store is of a score above it, so the threads and the
record that still have it only get fewer (`Lowest` settles); if it were below
full trust, the next round of the peer that pushes would bring it up.

`HeartbeatAlwaysHeals`: once no sections meet, a heartbeat goes round its
positions (`AlwaysFlushes`), so its writes are tried again and again and strong
fairness finds one room. `Carries` says what every flush that begins and ends
apart from the others has in its hands, whatever the files were: no handle but its
own leads to them, so the next write and rename leave a readable document with
the controller's entry and verdict (`Due`, `Verdict`), and every later section,
of any controller, keeps them (`OneHeals`).
`RecordedIsAlwaysShown`: while sections do not meet, the one that began ends
without a second having begun (`SectionSteps`), alerts and resets of the model
come to an end, a file left alone can be read, and a round cannot show for ever
(`RoundsRepeat`: what it has in hand gets shorter). An alert in the file stays
there while it is due (`OnFileStays`), the next load takes it in hand, and the
round that has it in hand cannot end without showing or dropping it
(`InHandStays`).

**Only model-checked.** That time passes (`TimePasses`) where several peers share
it. Every property of the passing runs has a theorem; the violation runs have
none, for they refute their property. Nothing is defined with `RECURSIVE`,
so no module is closed to proofs.

## 5. What is not modelled

- ECDSA and SHA3 themselves: libraries, assumed sound and free of collisions.
- The logger; the metrics of `prometheus.py`, which nothing updates; the page, the
  socket handlers and the read-only routes, which change nothing others read; the
  agent's event post to the dashboard, which nothing waits for;
  `Audit.snapshot`, which nobody calls; `GossipNode.stop`, likewise.
- Of the simulator, its menu, and that its `reset` writes an empty list to the
  alert file itself (`simulator.py:199`), just before it asks the dashboard for the
  reset that does the same. Its alerts are writers of `AlertFile`, its attack and
  its `reset` of the state file are in `StateFile`.
- Start-up scripts and containers, and `mininet_topo.py`, a network with a single
  controller: no state of their own.
- The composition of the whole: every module is one place where the threads or
  processes meet, and the files, messages and switches between them carry what
  the neighbouring module leaves free (any verdict, any push, any packet).
- Overlapping messages between a controller and a switch: a rule takes effect
  when it is sent.
