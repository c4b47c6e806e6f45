----------------------------- MODULE StateFile ------------------------------
(***************************************************************************)
(* STATE_FILE, the JSON document all controllers and the dashboard share.  *)
(* A flush makes its controller's entry and merges it with a read-modify-  *)
(* write of the document (integrity/agent.py:237-273): it loads the        *)
(* document, opens STATE_FILE + ".tmp" for writing, writes, and renames    *)
(* the temporary file.  The heartbeat, Ryu, gossip and TTL threads of a    *)
(* controller all flush, no lock is held, and every thread of every        *)
(* controller uses the same temporary name.  The dashboard's api_reset and *)
(* the attack simulator rewrite STATE_FILE in place: the one marks every   *)
(* entry healthy, the other forges an entry and puts its old hash back ten *)
(* seconds later.  Readers open whatever the name STATE_FILE stands for at *)
(* that moment.                                                            *)
(*                                                                         *)
(* Opening a file makes a handle, which stays with the file when its name  *)
(* moves: a handle is to the file now named STATE_FILE ("live"), to the    *)
(* temporary one, or to one that lost its name, which nobody will read.    *)
(* A document is a few kilobytes and leaves the buffer in one write, at    *)
(* offset 0: written over a file that is not empty, a shorter document     *)
(* leaves the tail of the longer one behind it.                            *)
(***************************************************************************)
EXTENDS Integers, FiniteSets

CONSTANTS Writers,            \* the controllers
          Threads, Owner,     \* their flushing threads, and whose each is
          Heartbeats,         \* those of them that flush every 5 s
          Targets,            \* the controllers that are accused and attacked
          MaxSeq,             \* bound of the model: flushes told apart
          Together,           \* bound of the model: threads in a flush at once
          MaxRewrites         \* bound of the model: resets and attacks

ASSUME StateFileAssumption ==
  /\ IsFiniteSet(Writers) /\ Targets \subseteq Writers
  /\ IsFiniteSet(Threads) /\ Owner \in [Threads -> Writers]
  /\ Heartbeats \subseteq Threads /\ Together \subseteq SUBSET Threads
  /\ MaxSeq \in Nat \ {0} /\ MaxRewrites \in Nat

VARIABLES
  live, tmp,                  \* the contents of STATE_FILE and STATE_FILE.tmp
  up,                         \* the controllers that run
  alarmed,                    \* those that judged themselves unhealthy
  made,                       \* per controller: the newest entry it made
  pc, doc, fd,                \* per thread: position, document, handle
  rpc, rdoc, rfd,             \* the same of whoever rewrites in place
  rewrites, attack,           \* rewrites begun; the attack to be taken back
  calm                        \* whether so far no two sections or flushes of a
                              \* controller met and no rewriting process was killed

files == <<live, tmp>>
wVars == <<up, alarmed, made, pc, doc>>
rVars == <<rpc, rdoc, rewrites, attack>>
vars  == <<files, wVars, fd, rVars, rfd, calm>>

\* An entry: the block its hash and signature belong to, by the number of the
\* flush (which no restart resets: it only tells entries apart), and "healthy".
Forged  == -1
Entries == [block : Forged .. MaxSeq, ok : BOOLEAN]
NoEntry == [block |-> 0, ok |-> TRUE]

Docs  == [Writers -> Entries]
Blank == [w \in Writers |-> NoEntry]

\* The next entry of a controller: the hash of its new block and its verdict.
Later(n) == IF n < MaxSeq THEN n + 1 ELSE n
NextEntry(w) == [block |-> Later(made[w].block), ok |-> w \notin alarmed']

\* Since its last flush the controller may have counted its second HIGH alert, or
\* verify_all come to fail, which none of them takes back.
Judges(w) == alarmed' \in {alarmed, alarmed \cup ({w} \cap Targets)}

NoAttack == [target |-> {}, block |-> 0]

\* A file is missing or has a content; one that is no document makes json.load
\* raise an exception.
File   == [kind : {"missing", "empty", "torn", "json"}, doc : Docs]
Bad(k) == [kind |-> k, doc |-> Blank]
Json(d) == [kind |-> "json", doc |-> d]

Handles == {"none", "tmp", "live", "lost"}
Positions      == {"idle", "load", "open", "write", "replace"}
ResetPositions == {"idle", "open", "write"}

\* The threads between their reading and their renaming of the file are in its
\* section, and so is whoever rewrites it.  A second one there, or a second flush
\* of the same controller, makes the file's history not calm.
Flushing == {t \in Threads : pc[t] # "idle"}
Section == {t \in Threads : pc[t] \in {"open", "write", "replace"}}
Alone ==
  /\ \A t, u \in Section : t = u
  /\ rpc = "idle" \/ Section = {}
  /\ \A t, u \in Flushing : Owner[t] = Owner[u] => t = u
Note == calm' = (calm /\ Alone')

Init ==
  /\ live = Bad("missing") /\ tmp = Bad("missing")
  /\ up = Writers /\ alarmed = {}
  /\ made = Blank
  /\ pc = [t \in Threads |-> "idle"]
  /\ doc = [t \in Threads |-> Blank]
  /\ fd = [t \in Threads |-> "none"]
  /\ rpc = "idle" /\ rdoc = Blank /\ rfd = "none"
  /\ rewrites = 0 /\ attack = NoAttack
  /\ calm = TRUE

\* One write of d at offset 0 through handle h: over other content the longer of
\* the two decides what is left.
Overwritten(f, d) == {Json(d)} \cup {Bad("torn") : k \in {f.kind} \ {"empty"}}
WriteTo(h, d) ==
  \/ h = "live" /\ live' \in Overwritten(live, d) /\ tmp' = tmp
  \/ h = "tmp" /\ tmp' \in Overwritten(tmp, d) /\ live' = live
  \/ h = "lost" /\ UNCHANGED files

\* The temporary file takes the name STATE_FILE: what becomes of a handle.
Moved == [none |-> "none", tmp |-> "live", live |-> "lost", lost |-> "lost"]

-----------------------------------------------------------------------------
(* IntegrityAgent._flush, from the payload on.                             *)

MayBegin(t) ==
  pc[t] = "idle" /\ Owner[t] \in up /\ Flushing \cup {t} \in Together

\* A mutated form of Payload: a number past the ones told apart.
PayloadUncapped(t) ==
  LET w == Owner[t]
      e == [block |-> made[w].block + 1, ok |-> w \notin alarmed]
  IN
  /\ MayBegin(t)
  /\ made' = [made EXCEPT ![w] = e]
  /\ doc' = [doc EXCEPT ![t] = [Blank EXCEPT ![w] = e]]
  /\ pc' = [pc EXCEPT ![t] = "load"]
  /\ UNCHANGED <<files, up, alarmed, fd, rVars, rfd>>

\* payload = {self.cid: {...}}, with the verdict of this moment
Payload(t) ==
  LET w == Owner[t] IN
  /\ MayBegin(t)
  /\ Judges(w)
  /\ made' = [made EXCEPT ![w] = NextEntry(w)]
  /\ doc' = [doc EXCEPT ![t] = [Blank EXCEPT ![w] = NextEntry(w)]]
  /\ pc' = [pc EXCEPT ![t] = "load"]
  /\ UNCHANGED <<files, up, fd, rVars, rfd>>

\* Mutated forms of Load: no fallback for a document that cannot be read, and the
\* old document not merged.
LoadStrict(t) ==
  /\ pc[t] = "load"
  /\ IF live.kind \in {"json", "missing"}
     THEN /\ doc' = [doc EXCEPT ![t] = [live.doc EXCEPT ![Owner[t]] = doc[t][Owner[t]]]]
          /\ pc' = [pc EXCEPT ![t] = "open"]
     ELSE doc' = [doc EXCEPT ![t] = Blank] /\ pc' = [pc EXCEPT ![t] = "idle"]
  /\ UNCHANGED <<files, up, alarmed, made, fd, rVars, rfd>>
LoadOwnOnly(t) ==
  /\ pc[t] = "load"
  /\ pc' = [pc EXCEPT ![t] = "open"]
  /\ UNCHANGED <<files, up, alarmed, made, doc, fd, rVars, rfd>>

\* existing = json.load(...), or {} when it fails; existing.update(payload)
Load(t) ==
  /\ pc[t] = "load"
  /\ doc' = [doc EXCEPT ![t] = [live.doc EXCEPT ![Owner[t]] = doc[t][Owner[t]]]]
  /\ pc' = [pc EXCEPT ![t] = "open"]
  /\ UNCHANGED <<files, up, alarmed, made, fd, rVars, rfd>>

\* A mutated form of OpenTmp: STATE_FILE written in place.
OpenInPlace(t) ==
  /\ pc[t] = "open"
  /\ live' = Bad("empty")
  /\ fd' = [fd EXCEPT ![t] = "live"]
  /\ pc' = [pc EXCEPT ![t] = "write"]
  /\ UNCHANGED <<tmp, up, alarmed, made, doc, rVars, rfd>>

\* open(tmp, "w") truncates the temporary file, another thread's too.
OpenTmp(t) ==
  /\ pc[t] = "open"
  /\ tmp' = Bad("empty")
  /\ fd' = [fd EXCEPT ![t] = "tmp"]
  /\ pc' = [pc EXCEPT ![t] = "write"]
  /\ UNCHANGED <<live, up, alarmed, made, doc, rVars, rfd>>

\* json.dump, flush and fsync
Write(t) ==
  /\ pc[t] = "write"
  /\ WriteTo(fd[t], doc[t])
  /\ fd' = [fd EXCEPT ![t] = "none"]
  /\ doc' = [doc EXCEPT ![t] = Blank]
  /\ pc' = [pc EXCEPT ![t] = "replace"]
  /\ UNCHANGED <<up, alarmed, made, rVars, rfd>>

\* The disk is full: what the temporary file holds now is never renamed by this
\* section, and the exception is logged.
FailWrite(t) ==
  /\ pc[t] = "write"
  /\ IF fd[t] = "tmp" THEN tmp' \in {tmp, Bad("torn")} /\ UNCHANGED live
     ELSE IF fd[t] = "live" THEN live' \in {live, Bad("torn")} /\ UNCHANGED tmp
     ELSE UNCHANGED files
  /\ fd' = [fd EXCEPT ![t] = "none"]
  /\ doc' = [doc EXCEPT ![t] = Blank]
  /\ pc' = [pc EXCEPT ![t] = "idle"]
  /\ UNCHANGED <<up, alarmed, made, rVars, rfd>>

\* os.replace(tmp, STATE_FILE); without a temporary file it raises, and the
\* exception is logged.
Replace(t) ==
  /\ pc[t] = "replace"
  /\ IF tmp.kind = "missing" THEN UNCHANGED <<files, fd, rfd>>
     ELSE /\ live' = tmp /\ tmp' = Bad("missing")
          /\ fd' = [u \in Threads |-> Moved[fd[u]]]
          /\ rfd' = Moved[rfd]
  /\ pc' = [pc EXCEPT ![t] = "idle"]
  /\ UNCHANGED <<up, alarmed, made, doc, rVars>>

\* The controller dies at any point, and may be started again; n_alert and the
\* chain are gone with it.
Kill(w) ==
  /\ w \in up
  /\ up' = up \ {w} /\ alarmed' = alarmed \ {w}
  /\ pc' = [t \in Threads |-> IF Owner[t] = w THEN "idle" ELSE pc[t]]
  /\ fd' = [t \in Threads |-> IF Owner[t] = w THEN "none" ELSE fd[t]]
  /\ doc' = [t \in Threads |-> IF Owner[t] = w THEN Blank ELSE doc[t]]
  /\ UNCHANGED <<files, made, rVars, rfd>>

Start(w) ==
  /\ w \notin up
  /\ up' = up \cup {w}
  /\ UNCHANGED <<files, alarmed, made, pc, doc, fd, rVars, rfd>>

-----------------------------------------------------------------------------
(* Rewriting in place: dashboard/app.py and attacks/simulator.py load the  *)
(* document, edit it and write it back.  One of them at a time.            *)

Present == {w \in Writers : live.doc[w] # NoEntry}

\* A file that is missing or cannot be parsed is left alone by each of them.
Edit(d) ==
  /\ rpc = "idle"
  /\ live.kind = "json"
  /\ rdoc' = d
  /\ rpc' = "open"
  /\ UNCHANGED <<files, wVars, fd, rfd>>

Begin ==
  /\ rewrites < MaxRewrites
  /\ rewrites' = rewrites + 1

\* api_reset, and the simulator's reset: "healthy" and "alerts" of every entry.
ResetLoad ==
  /\ Begin
  /\ Edit([w \in Writers |-> [block |-> live.doc[w].block, ok |-> TRUE]])
  /\ UNCHANGED attack

\* compromise_controller: a forged hash and signature, and "healthy": False ...
AttackLoad(v) ==
  /\ Begin
  /\ attack = NoAttack
  /\ v \in Present \cap Targets
  /\ Edit([live.doc EXCEPT ![v] = [block |-> Forged, ok |-> FALSE]])
  /\ attack' = [target |-> {v}, block |-> live.doc[v].block]

\* ... and ten seconds later the hash and signature that were there before, put
\* into whatever the document is by then.
RestoreLoad ==
  /\ attack # NoAttack
  /\ Edit([w \in Writers |-> IF w \in attack.target \cap Present
                              THEN [block |-> attack.block, ok |-> TRUE]
                              ELSE live.doc[w]])
  /\ attack' = NoAttack
  /\ UNCHANGED rewrites

\* The simulator ended meanwhile, or could not read the file and exits.
GiveUp ==
  /\ attack # NoAttack
  /\ attack' = NoAttack
  /\ UNCHANGED <<files, wVars, fd, rpc, rdoc, rfd, rewrites>>

\* open(STATE_FILE, "w") truncates the document readers see.
ResetOpen ==
  /\ rpc = "open"
  /\ live' = Bad("empty")
  /\ rfd' = "live"
  /\ rpc' = "write"
  /\ UNCHANGED <<tmp, wVars, fd, rdoc, rewrites, attack>>

ResetWrite ==
  /\ rpc = "write"
  /\ WriteTo(rfd, rdoc)
  /\ rfd' = "none" /\ rdoc' = Blank
  /\ rpc' = "idle"
  /\ UNCHANGED <<wVars, fd, rewrites, attack>>

\* The process that rewrites is killed: the file stays empty.
Abort ==
  /\ rpc # "idle"
  /\ rfd' = "none" /\ rdoc' = Blank
  /\ rpc' = "idle"
  /\ calm' = FALSE
  /\ UNCHANGED <<files, wVars, fd, rewrites, attack>>

Proceed(t) == Load(t) \/ OpenTmp(t) \/ Write(t) \/ FailWrite(t) \/ Replace(t)

Begins(t) == Payload(t) /\ Note
GoesOn(t) == Proceed(t) /\ Note
Fates(w)  == (Kill(w) \/ Start(w)) /\ Note
Finish    == (ResetOpen \/ ResetWrite) /\ Note
Rewrite   == (ResetLoad \/ RestoreLoad \/ GiveUp \/ \E w \in Writers : AttackLoad(w)) /\ Note

Next ==
  \/ Rewrite \/ Finish \/ Abort
  \/ \E t \in Threads : Begins(t) \/ GoesOn(t)
  \/ \E w \in Writers : Fates(w)

Spec == Init /\ [][Next]_vars

\* Its document goes out.
Stores(t) == Write(t) /\ Note

\* A heartbeat begins a flush every 5 s, a flush or a rewrite once begun ends,
\* and of the writes tried forever one finds room on the disk.
Runs(t)     == WF_vars(GoesOn(t)) /\ SF_vars(Stores(t))
Beats(t)    == WF_vars(Begins(t))
RewritesEnd == WF_vars(Finish \/ Abort)
Fairness ==
  RewritesEnd /\ (\A t \in Threads : Runs(t)) /\ (\A t \in Heartbeats : Beats(t))

FairSpec == Spec /\ Fairness

-----------------------------------------------------------------------------
TypeOK ==
  /\ live \in File /\ tmp \in File
  /\ up \subseteq Writers /\ alarmed \subseteq Writers
  /\ made \in [Writers -> [block : 0 .. MaxSeq, ok : BOOLEAN]]
  /\ pc \in [Threads -> Positions]
  /\ doc \in [Threads -> Docs]
  /\ fd \in [Threads -> Handles]
  /\ rpc \in ResetPositions
  /\ rdoc \in Docs
  /\ rfd \in Handles
  /\ rewrites \in 0 .. MaxRewrites
  /\ attack \in [target : SUBSET Writers, block : Forged .. MaxSeq]
  /\ calm \in BOOLEAN

\* "Readers (the dashboard poller) never observe a half-written file"
\* (integrity/agent.py:254-256).
NeverHalfWritten == live.kind \in {"json", "missing"}

\* As long as no two sections or flushes of a controller have met and no rewrite
\* was cut short, wherever controllers were killed or the disk was full, readers
\* see a half-written file only while it is rewritten in place
\* (dashboard/app.py:151, attacks/simulator.py:104, 212).
CalmFileIsWhole == calm /\ rpc # "write" => NeverHalfWritten

\* What is published never goes back: as long as no two sections have met and
\* nothing was rewritten in place, a reader sees each controller's entry only
\* move to later blocks (integrity/agent.py:264, merge and replace).
EntriesAdvance ==
  [][calm' /\ rewrites' = 0 =>
       \A w \in Writers : live'.doc[w].block >= live.doc[w].block]_vars

\* The document readers find: while it is rewritten in place, the one they are
\* about to find.
AbsEntries == IF ~ calm THEN Blank ELSE IF rpc = "write" THEN rdoc ELSE live.doc

Document == INSTANCE SharedDocument WITH entries <- AbsEntries, intact <- calm

\* As long as no two sections or flushes of a controller meet and no rewrite is
\* cut short, four system calls on two files are one update of one document: a
\* controller's section changes its own entry, to its newest one, and nothing of
\* the others is lost, wherever controllers are killed or the disk is full
\* (integrity/agent.py:253-273).
ImplementsDocument == Document!Spec

\* What has begun can be gone on with, wherever a handle leads by then, and no
\* bound of the model keeps a heartbeat back.
CanGoOn(t) ==
  /\ pc[t] # "idle" => ENABLED <<GoesOn(t)>>_vars
  /\ pc[t] = "write" => ENABLED <<Stores(t)>>_vars
  /\ t \in Heartbeats /\ pc[t] = "idle" /\ Owner[t] \in up => ENABLED <<Begins(t)>>_vars
NeverWaits == \A t \in Threads : CanGoOn(t)

\* A controller with a heartbeat stays up, and from some time on sections and
\* flushes meet no more.
Undisturbed(w) ==
  /\ \E t \in Heartbeats : Owner[t] = w
  /\ <>[](w \in up /\ rpc = "idle" /\ Alone)

\* What readers get: for good a readable file with its verdict, and its newest
\* entry again and again.
Healed(w) ==
  /\ <>[](live.kind = "json" /\ live.doc[w].ok = (w \notin alarmed))
  /\ []<>(live.doc[w] = made[w])

\* However torn the file is and whatever was lost, reset, forged or put back late
\* while threads and controllers raced, once they race no more the heartbeat of a
\* controller brings back a readable file with its verdict for good, and its newest
\* entry again and again, whatever other controllers write and kill meanwhile: one
\* that counts two alerts is shown as unhealthy again after a reset
\* (integrity/agent.py:239, 305-316, dashboard/app.py:149).
HeartbeatHeals == \A w \in Writers : Undisturbed(w) => Healed(w)
=============================================================================
