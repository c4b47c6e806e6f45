------------------------ MODULE LearningSwitchProofs ------------------------
(***************************************************************************)
(* Proofs about LearningSwitch for every line of switches, every set of    *)
(* hosts, frames and controllers and every assignment of switches to       *)
(* controllers.  The inductive invariant of the tables is Placed: a copy   *)
(* of a frame is always on the side of a switch its source is on, so what  *)
(* a controller learns from it is true.  From it, that a copy sent on      *)
(* makes its way to every receiver follows handler by handler.             *)
(***************************************************************************)
EXTENDS LearningSwitch, TLAPS

\* Where the copies are: on the side of their source.
OnSide(k) == hdr[k.frame] # Unsent /\ k.in = Toward(k.at, hdr[k.frame].src)

Placed ==
  /\ \A k \in Copies :
       wire[k] > 0 \/ (\E c \in Controllers : pend[c][k] > 0) => OnSide(k)
  /\ \A x \in conn : x[2] \in miss

\* A frame is never sent to its sender.
Addressed == \A f \in Frames : hdr[f].src # hdr[f].dst \/ hdr[f] = Unsent

-----------------------------------------------------------------------------
(* The line.                                                               *)

\* The port towards a host is one the switch has.
LEMMA TowardPort ==
  ASSUME NEW s \in Switches, NEW h \in Hosts
  PROVE  Toward(s, h) \in PortsOf(s) /\ Toward(s, h) \in Ports /\ Toward(s, h) # Flood
BY SwitchAssumption DEF Toward, PortsOf, Ports, Switches, Flood

\* What leaves by another port than the one towards g arrives on the side of g.
LEMMA OnwardPlaced ==
  ASSUME NEW f \in Frames, NEW s \in Switches, NEW g \in Hosts, NEW ps,
         Toward(s, g) \notin ps, NEW k \in Onward(f, s, ps), k \in Copies
  PROVE  k.frame = f /\ k.in = Toward(k.at, g)
<1>0. At[g] \in 1 .. Length /\ s \in 1 .. Length /\ Length \in Nat /\ g \notin {"left", "right"}
  BY SwitchAssumption DEF Switches
<1>1. CASE k = [frame |-> f, at |-> s - 1, in |-> "right"] /\ "left" \in ps
  <2>1. At[g] >= s
    BY <1>0, <1>1 DEF Toward
  <2> QED  BY <1>0, <1>1, <2>1 DEF Toward
<1>2. CASE k = [frame |-> f, at |-> s + 1, in |-> "left"] /\ "right" \in ps
  <2>1. At[g] <= s
    BY <1>0, <1>2 DEF Toward
  <2> QED  BY <1>0, <1>2, <2>1 DEF Toward
<1> QED  BY <1>1, <1>2 DEF Onward

\* On the way from g to h the next port is not the one back to g ...
LEMMA NoWayBack ==
  ASSUME NEW s \in Switches, NEW g \in Hosts, NEW h \in Hosts, g # h, s \in Way(g, h)
  PROVE  Toward(s, h) # Toward(s, g)
<1>0. /\ At[g] \in 1 .. Length /\ At[h] \in 1 .. Length /\ s \in 1 .. Length
      /\ Length \in Nat /\ g \notin {"left", "right"} /\ h \notin {"left", "right"}
  BY SwitchAssumption DEF Switches
<1> QED  BY <1>0 DEF Toward, Way

\* ... and it leads to h or to a switch that is on the way, too.
LEMMA OnTheWay ==
  ASSUME NEW f \in Frames, NEW s \in Switches, NEW g \in Hosts, NEW h \in Hosts,
         s \in Way(g, h)
  PROVE  \/ Toward(s, h) = h
         \/ \E k \in Copies :
              /\ k \in Onward(f, s, {Toward(s, h)})
              /\ k.frame = f /\ k.at \in Way(g, h) /\ k.at # s
<1>0. /\ At[g] \in 1 .. Length /\ At[h] \in 1 .. Length /\ s \in 1 .. Length
      /\ Length \in Nat /\ g \notin {"left", "right"} /\ h \notin {"left", "right"}
  BY SwitchAssumption DEF Switches
<1>2. CASE At[h] = s
  BY <1>2 DEF Toward
<1>3. CASE At[h] < s
  <2> DEFINE k == [frame |-> f, at |-> s - 1, in |-> "right"]
  <2>1. Toward(s, h) = "left" /\ s - 1 \in Way(g, h)
    BY <1>0, <1>3 DEF Toward, Way, Switches
  <2>2. k \in Copies /\ k \in Onward(f, s, {Toward(s, h)})
    BY <1>0, <1>3, <2>1 DEF Copies, Onward, Switches, Ports
  <2>3. k.frame = f /\ k.at \in Way(g, h) /\ k.at # s
    BY <1>0, <2>1
  <2> HIDE DEF k
  <2> QED  BY <2>2, <2>3
<1>4. CASE At[h] > s
  <2> DEFINE k == [frame |-> f, at |-> s + 1, in |-> "left"]
  <2>1. Toward(s, h) = "right" /\ s + 1 \in Way(g, h)
    BY <1>0, <1>4 DEF Toward, Way, Switches
  <2>2. k \in Copies /\ k \in Onward(f, s, {Toward(s, h)})
    BY <1>0, <1>4, <2>1 DEF Copies, Onward, Switches, Ports
  <2>3. k.frame = f /\ k.at \in Way(g, h) /\ k.at # s
    BY <1>0, <2>1
  <2> HIDE DEF k
  <2> QED  BY <2>2, <2>3
<1>5. At[h] = s \/ At[h] < s \/ At[h] > s
  BY <1>0
<1> QED  BY <1>2, <1>3, <1>4, <1>5

-----------------------------------------------------------------------------
(* Bags of copies, and sending.                                            *)

LEMMA PlusFacts ==
  ASSUME NEW bag \in [Copies -> Nat], NEW ks
  PROVE  /\ Plus(bag, ks) \in [Copies -> Nat]
         /\ \A k \in Copies : /\ Plus(bag, ks)[k] >= bag[k]
                              /\ k \in ks => Plus(bag, ks)[k] > 0
                              /\ Plus(bag, ks)[k] > 0 => bag[k] > 0 \/ k \in ks
BY DEF Plus

LEMMA MinusFacts ==
  ASSUME NEW bag \in [Copies -> Nat], NEW k \in Copies, bag[k] > 0
  PROVE  /\ Minus(bag, k) \in [Copies -> Nat]
         /\ \A l \in Copies : /\ Minus(bag, k)[l] > 0 => bag[l] > 0
                              /\ l # k => Minus(bag, k)[l] = bag[l]
BY DEF Minus

LEMMA CopyFacts ==
  ASSUME NEW k \in Copies
  PROVE  k.frame \in Frames /\ k.at \in Switches /\ k.in \in Ports
BY DEF Copies

\* What sending does to the bags, whatever is sent.
LEMMA OutputFacts ==
  ASSUME NEW f \in Frames, NEW s \in Switches, NEW ps, NEW w \in [Copies -> Nat],
         got \in [Frames -> [Hosts -> Nat]], Output(f, s, ps, w)
  PROVE  /\ wire' \in [Copies -> Nat]
         /\ got' \in [Frames -> [Hosts -> Nat]]
         /\ \A k \in Copies : /\ wire'[k] >= w[k]
                              /\ k \in Onward(f, s, ps) => wire'[k] > 0
                              /\ wire'[k] > 0 => w[k] > 0 \/ k \in Onward(f, s, ps)
         /\ \A g \in Frames, h \in Hosts : got'[g][h] >= got[g][h]
         /\ \A h \in Hosts : h \in ps => got'[f][h] > 0
<1>1. wire' = Plus(w, Onward(f, s, ps))
  BY DEF Output
<1>2. got' = [got EXCEPT ![f] = [h \in Hosts |-> IF h \in ps THEN got[f][h] + 1 ELSE got[f][h]]]
  BY DEF Output
<1>3. got' \in [Frames -> [Hosts -> Nat]]
  BY <1>2
<1>4. \A g \in Frames, h \in Hosts : got'[g][h] >= got[g][h]
  BY <1>2
<1>5. \A h \in Hosts : h \in ps => got'[f][h] > 0
  BY <1>2
<1> QED  BY <1>1, <1>3, <1>4, <1>5, PlusFacts

-----------------------------------------------------------------------------
(* The invariant, and what it says of a packet in.                         *)

Inv == TypeOK /\ Addressed /\ Placed /\ TablesAreTrue

LEMMA SentFacts ==
  ASSUME Inv, NEW f \in Frames, hdr[f] # Unsent
  PROVE  hdr[f].src \in Hosts /\ hdr[f].dst \in Addresses /\ hdr[f].src # hdr[f].dst
BY DEF Inv, TypeOK, Addressed

\* A copy on the wire.
LEMMA WireFacts ==
  ASSUME Inv, NEW k \in Copies, wire[k] > 0
  PROVE  /\ hdr[k.frame] # Unsent /\ hdr[k.frame].src \in Hosts
         /\ k.in = Toward(k.at, hdr[k.frame].src)
         /\ Minus(wire, k) \in [Copies -> Nat]
<1>1. hdr[k.frame] # Unsent /\ k.in = Toward(k.at, hdr[k.frame].src)
  BY DEF Inv, Placed, OnSide
<1>2. Minus(wire, k) \in [Copies -> Nat]
  BY MinusFacts DEF Inv, TypeOK
<1> QED  BY <1>1, <1>2, SentFacts, CopyFacts

\* What a handler makes of a packet in: its table stays true, and the packet
\* goes to every port or to the one towards its destination.
LEMMA HandlerFacts ==
  ASSUME Inv, NEW c \in Controllers, NEW k \in Copies, pend[c][k] > 0,
         NEW out, out = Lookup(Learn(c, k), k.at, hdr[k.frame].dst)
  PROVE  /\ hdr[k.frame] # Unsent /\ hdr[k.frame].src \in Hosts
         /\ k.in = Toward(k.at, hdr[k.frame].src)
         /\ Learn(c, k) \in [Switches -> [Hosts -> Ports \cup {Flood}]]
         /\ \A s \in Switches, h \in Hosts : Learn(c, k)[s][h] \in {Flood, Toward(s, h)}
         /\ out # Flood =>
              hdr[k.frame].dst \in Hosts /\ out = Toward(k.at, hdr[k.frame].dst)
<1> DEFINE g == hdr[k.frame].src
<1>1. hdr[k.frame] # Unsent /\ k.in = Toward(k.at, g)
  BY DEF Inv, Placed, OnSide
<1>2. g \in Hosts /\ k.at \in Switches /\ k.in \in Ports
  BY <1>1, SentFacts, CopyFacts
<1>3. macToPort[c] \in [Switches -> [Hosts -> Ports \cup {Flood}]]
  BY DEF Inv, TypeOK
<1>4. \A s \in Switches, h \in Hosts : macToPort[c][s][h] \in {Flood, Toward(s, h)}
  BY DEF Inv, TablesAreTrue
<1>5. Learn(c, k) = [macToPort[c] EXCEPT ![k.at] = [macToPort[c][k.at] EXCEPT ![g] = k.in]]
  BY <1>3 DEF Learn
<1> HIDE DEF g
<1>6. Learn(c, k) \in [Switches -> [Hosts -> Ports \cup {Flood}]]
  BY <1>2, <1>3, <1>5
<1>7. \A s \in Switches, h \in Hosts : Learn(c, k)[s][h] \in {Flood, Toward(s, h)}
  <2> TAKE s \in Switches, h \in Hosts
  <2>1. CASE s = k.at /\ h = g
    BY <1>1, <1>2, <1>3, <1>5, <2>1
  <2>2. CASE s # k.at \/ h # g
    <3>1. Learn(c, k)[s][h] = macToPort[c][s][h]
      BY <1>2, <1>3, <1>5, <2>2
    <3> QED  BY <1>4, <3>1
  <2> QED  BY <2>1, <2>2
<1>8. out # Flood =>
        hdr[k.frame].dst \in Hosts /\ out = Toward(k.at, hdr[k.frame].dst)
  BY <1>2, <1>7 DEF Lookup
<1> QED  BY <1>1, <1>2, <1>6, <1>7, <1>8 DEF g

\* The rules stay well-formed and true when a handler adds one.
LEMMA RuleFacts ==
  ASSUME Inv, NEW c \in Controllers, NEW k \in Copies, pend[c][k] > 0,
         NEW out, out = Lookup(Learn(c, k), k.at, hdr[k.frame].dst), AddRule(k, out)
  PROVE  /\ rules' \in [Switches -> SUBSET Rules]
         /\ \A s \in Switches : \A r \in rules'[s] : r.out = Toward(s, r.dst)
<1> DEFINE r == [in |-> k.in, src |-> hdr[k.frame].src, dst |-> hdr[k.frame].dst, out |-> out]
<1>0. /\ rules \in [Switches -> SUBSET Rules]
      /\ \A s \in Switches : \A q \in rules[s] : q.out = Toward(s, q.dst)
  BY DEF Inv, TypeOK, TablesAreTrue
<1>1. CASE out = Flood
  BY <1>0, <1>1 DEF AddRule
<1>2. CASE out # Flood
  <2>1. /\ hdr[k.frame].src \in Hosts /\ hdr[k.frame].dst \in Hosts
        /\ out = Toward(k.at, hdr[k.frame].dst) /\ k.at \in Switches /\ k.in \in Ports
    BY <1>2, HandlerFacts, CopyFacts
  <2>2. r \in Rules /\ r.out = Toward(k.at, r.dst)
    BY <2>1, TowardPort DEF Rules
  <2>3. rules' = [rules EXCEPT ![k.at] = (rules[k.at] \ Matching(k)) \cup {r}]
    BY <1>0, <1>2 DEF AddRule
  <2> HIDE DEF r
  <2> QED  BY <1>0, <2>1, <2>2, <2>3
<1> QED  BY <1>1, <1>2

\* So do the tables of the controller that handles it.
LEMMA TableFacts ==
  ASSUME Inv, NEW c \in Controllers, NEW k \in Copies, pend[c][k] > 0,
         macToPort' = [macToPort EXCEPT ![c] = Learn(c, k)]
  PROVE  /\ macToPort' \in [Controllers -> [Switches -> [Hosts -> Ports \cup {Flood}]]]
         /\ \A d \in Controllers, s \in Switches, h \in Hosts :
              macToPort'[d][s][h] \in {Flood, Toward(s, h)}
<1>1. /\ Learn(c, k) \in [Switches -> [Hosts -> Ports \cup {Flood}]]
      /\ \A s \in Switches, h \in Hosts : Learn(c, k)[s][h] \in {Flood, Toward(s, h)}
  BY HandlerFacts
<1>2. macToPort \in [Controllers -> [Switches -> [Hosts -> Ports \cup {Flood}]]]
  BY DEF Inv, TypeOK
<1>3. \A d \in Controllers : macToPort'[d] = IF d = c THEN Learn(c, k) ELSE macToPort[d]
  BY <1>2
<1> QED  BY <1>1, <1>2, <1>3 DEF Inv, TablesAreTrue

\* The tables of a controller that died are empty.
LEMMA DieFacts ==
  ASSUME Inv, NEW c \in Controllers, Die(c)
  PROVE  /\ macToPort' \in [Controllers -> [Switches -> [Hosts -> Ports \cup {Flood}]]]
         /\ \A d \in Controllers, s \in Switches, h \in Hosts :
              macToPort'[d][s][h] \in {Flood, Toward(s, h)}
         /\ pend' \in [Controllers -> [Copies -> Nat]]
         /\ \A d \in Controllers, k \in Copies :
              pend'[d][k] = IF d = c THEN 0 ELSE pend[d][k]
<1>1. /\ macToPort' = [macToPort EXCEPT ![c] = EmptyTable]
      /\ pend' = [pend EXCEPT ![c] = Nothing]
  BY DEF Die
<1>2. /\ macToPort \in [Controllers -> [Switches -> [Hosts -> Ports \cup {Flood}]]]
      /\ pend \in [Controllers -> [Copies -> Nat]]
  BY DEF Inv, TypeOK
<1>3. \A d \in Controllers : macToPort'[d] = IF d = c THEN EmptyTable ELSE macToPort[d]
  BY <1>1, <1>2
<1>4. EmptyTable \in [Switches -> [Hosts -> Ports \cup {Flood}]]
  BY DEF EmptyTable
<1>5. \A s \in Switches, h \in Hosts : EmptyTable[s][h] = Flood
  BY DEF EmptyTable
<1>6. Nothing \in [Copies -> Nat] /\ \A k \in Copies : Nothing[k] = 0
  BY DEF Nothing
<1>7. macToPort' \in [Controllers -> [Switches -> [Hosts -> Ports \cup {Flood}]]]
  BY <1>1, <1>2, <1>4
<1>8. \A d \in Controllers, s \in Switches, h \in Hosts :
        macToPort'[d][s][h] \in {Flood, Toward(s, h)}
  BY <1>3, <1>5 DEF Inv, TablesAreTrue
<1>9. pend' \in [Controllers -> [Copies -> Nat]]
  BY <1>1, <1>2, <1>6
<1> QED  BY <1>1, <1>2, <1>6, <1>7, <1>8, <1>9

-----------------------------------------------------------------------------
(* The types.                                                              *)

\* A packet goes on to the controllers that are connected.
LEMMA PacketInFacts ==
  ASSUME Inv, NEW k \in Copies, PacketIn(k)
  PROVE  /\ pend' \in [Controllers -> [Copies -> Nat]]
         /\ \A c \in Controllers, l \in Copies :
              /\ pend'[c][l] >= pend[c][l]
              /\ l = k /\ <<c, k.at>> \in conn => pend'[c][l] > 0
              /\ pend'[c][l] > 0 => pend[c][l] > 0 \/ l = k
<1>1. \A c \in Controllers : pend[c] \in [Copies -> Nat]
  BY DEF Inv, TypeOK
<1>2. pend' = [c \in Controllers |->
                 IF <<c, k.at>> \in conn THEN Plus(pend[c], {k}) ELSE pend[c]]
  BY DEF PacketIn
<1>3. \A c \in Controllers : Plus(pend[c], {k}) \in [Copies -> Nat]
  BY <1>1, PlusFacts
<1>4. pend' \in [Controllers -> [Copies -> Nat]]
  BY <1>1, <1>2, <1>3
<1>5. ASSUME NEW c \in Controllers, NEW l \in Copies
      PROVE  /\ pend'[c][l] >= pend[c][l]
             /\ l = k /\ <<c, k.at>> \in conn => pend'[c][l] > 0
             /\ pend'[c][l] > 0 => pend[c][l] > 0 \/ l = k
  <2>1. CASE <<c, k.at>> \in conn
    <3>1. pend'[c] = Plus(pend[c], {k})
      BY <1>2, <2>1
    <3> QED  BY <1>1, <3>1, PlusFacts
  <2>2. CASE <<c, k.at>> \notin conn
    <3>1. pend'[c] = pend[c]
      BY <1>2, <2>2
    <3> QED  BY <1>1, <2>2, <3>1
  <2> QED  BY <2>1, <2>2
<1> QED  BY <1>4, <1>5

\* A packet in that is handled.
Taken(c, k) == pend[c][k] > 0 /\ pend' = [pend EXCEPT ![c] = Minus(@, k)]

LEMMA TakenFacts ==
  ASSUME Inv, NEW c \in Controllers, NEW k \in Copies, Taken(c, k)
  PROVE  /\ pend' \in [Controllers -> [Copies -> Nat]]
         /\ \A d \in Controllers, l \in Copies :
              /\ pend'[d][l] > 0 => pend[d][l] > 0
              /\ d # c \/ l # k => pend'[d][l] = pend[d][l]
<1>1. pend \in [Controllers -> [Copies -> Nat]] /\ pend[c] \in [Copies -> Nat]
  BY DEF Inv, TypeOK
<1>2. \A d \in Controllers : pend'[d] = IF d = c THEN Minus(pend[c], k) ELSE pend[d]
  BY <1>1 DEF Taken
<1>3. Minus(pend[c], k) \in [Copies -> Nat]
  BY <1>1, MinusFacts DEF Taken
<1>4. pend' \in [Controllers -> [Copies -> Nat]]
  BY <1>1, <1>3 DEF Taken
<1> QED  BY <1>1, <1>2, <1>4, MinusFacts DEF Taken

LEMMA TypeStep ==
  ASSUME Inv, [Next]_vars
  PROVE  TypeOK'
<1> USE DEF Inv
<1>0. TypeOK
  OBVIOUS
<1>1. ASSUME NEW f \in Frames, NEW h \in Hosts, NEW d \in Addresses, Send(f, h, d)
      PROVE  TypeOK'
  <2>1. hdr' \in [Frames -> {Unsent} \cup [src : Hosts, dst : Addresses]]
    BY <1>0, <1>1 DEF Send, TypeOK, Header
  <2>2. wire' \in [Copies -> Nat]
    BY <1>0, <1>1, PlusFacts DEF Send, TypeOK
  <2>3. since' \in [Frames -> SUBSET conn']
    BY <1>0, <1>1 DEF Send, TypeOK
  <2> QED  BY <1>0, <1>1, <2>1, <2>2, <2>3 DEF Send, TypeOK
<1>2. ASSUME NEW k \in Copies, Apply(k) PROVE TypeOK'
  <2>1. PICK r \in Matching(k) : Output(k.frame, k.at, {r.out} \ {k.in}, Minus(wire, k))
    BY <1>2 DEF Apply
  <2>2. wire' \in [Copies -> Nat] /\ got' \in [Frames -> [Hosts -> Nat]]
    BY <1>0, <1>2, <2>1, WireFacts, CopyFacts, OutputFacts DEF Apply, TypeOK
  <2> QED  BY <1>0, <1>2, <2>2 DEF Apply, TypeOK
<1>3. ASSUME NEW k \in Copies, PacketIn(k) PROVE TypeOK'
  <2>1. wire' \in [Copies -> Nat]
    BY <1>3, WireFacts DEF PacketIn
  <2> QED  BY <1>0, <1>3, <2>1, PacketInFacts DEF PacketIn, TypeOK
<1>4. ASSUME NEW k \in Copies, Drop(k) PROVE TypeOK'
  <2>1. wire' \in [Copies -> Nat]
    BY <1>4, WireFacts DEF Drop
  <2> QED  BY <1>0, <1>4, <2>1 DEF Drop, TypeOK
<1>5. ASSUME NEW c \in Controllers, NEW k \in Copies, PktIn(c, k) PROVE TypeOK'
  <2> DEFINE out == Lookup(Learn(c, k), k.at, hdr[k.frame].dst)
  <2>1. pend[c][k] > 0 /\ AddRule(k, out) /\ Output(k.frame, k.at, PortsFor(k.at, k.in, out), wire)
    BY <1>5 DEF PktIn
  <2>2. rules' \in [Switches -> SUBSET Rules]
    BY <2>1, RuleFacts
  <2>3. wire' \in [Copies -> Nat] /\ got' \in [Frames -> [Hosts -> Nat]]
    BY <1>0, <2>1, CopyFacts, OutputFacts DEF TypeOK
  <2>4. macToPort' \in [Controllers -> [Switches -> [Hosts -> Ports \cup {Flood}]]]
    BY <1>5, <2>1, TableFacts DEF PktIn
  <2>5. pend' \in [Controllers -> [Copies -> Nat]]
    BY <1>5, <2>1, TakenFacts DEF PktIn, Taken
  <2> QED  BY <1>0, <1>5, <2>2, <2>3, <2>4, <2>5 DEF PktIn, TypeOK
<1>6. ASSUME NEW c \in Controllers, NEW k \in Copies, Raise(c, k) PROVE TypeOK'
  <2> DEFINE out == Lookup(Learn(c, k), k.at, hdr[k.frame].dst)
  <2>1. pend[c][k] > 0 /\ AddRule(k, out)
    BY <1>6 DEF Raise
  <2>2. rules' \in [Switches -> SUBSET Rules]
    BY <2>1, RuleFacts
  <2>3. macToPort' \in [Controllers -> [Switches -> [Hosts -> Ports \cup {Flood}]]]
    BY <1>6, <2>1, TableFacts DEF Raise
  <2>4. pend' \in [Controllers -> [Copies -> Nat]]
    BY <1>6, <2>1, TakenFacts DEF Raise, Taken
  <2>5. faults' \in 0 .. MaxFaults
    BY <1>0, <1>6, SwitchAssumption DEF Raise, TypeOK
  <2>6. since' \in [Frames -> SUBSET conn']
    BY <1>0, <1>6, CopyFacts DEF Raise, TypeOK
  <2> QED  BY <1>0, <1>6, <2>2, <2>3, <2>4, <2>5, <2>6 DEF Raise, TypeOK
<1>7. ASSUME NEW c \in Controllers, Die(c), rules' \in [Switches -> SUBSET Rules]
      PROVE  TypeOK'
  <2>1. faults' \in 0 .. MaxFaults
    BY <1>0, <1>7, SwitchAssumption DEF Die, TypeOK
  <2>2. since' \in [Frames -> SUBSET conn']
    BY <1>0, <1>7 DEF Die, TypeOK
  <2>3. up' \subseteq Controllers /\ conn' \subseteq Controllers \X Switches
    BY <1>0, <1>7 DEF Die, TypeOK
  <2> QED  BY <1>0, <1>7, <2>1, <2>2, <2>3, DieFacts DEF Die, TypeOK
<1>8. ASSUME NEW c \in Controllers, Kill(c) PROVE TypeOK'
  BY <1>0, <1>7, <1>8 DEF Kill, TypeOK
<1>9. ASSUME NEW c \in Controllers, NEW k \in Copies, KillInHandler(c, k) PROVE TypeOK'
  BY <1>7, <1>9, RuleFacts DEF KillInHandler
<1>10. ASSUME NEW s \in Switches, NEW r \in rules[s], Expire(s, r) PROVE TypeOK'
  <2>1. rules' \in [Switches -> SUBSET Rules]
    BY <1>0, <1>10 DEF Expire, TypeOK
  <2> QED  BY <1>0, <1>10, <2>1 DEF Expire, TypeOK, netVars
<1>11. ASSUME NEW c \in Controllers, NEW s \in Switches, SwitchUp(c, s) PROVE TypeOK'
  <2>1. since' \in [Frames -> SUBSET conn']
    BY <1>0, <1>11 DEF SwitchUp, TypeOK
  <2> QED  BY <1>0, <1>11, <2>1 DEF SwitchUp, TypeOK, netVars
<1>12. ASSUME NEW c \in Controllers, Start(c) PROVE TypeOK'
  BY <1>0, <1>12 DEF Start, TypeOK, netVars
<1>13. CASE UNCHANGED vars
  BY <1>0, <1>13 DEF vars, netVars, TypeOK
<1> QED
  BY <1>1, <1>2, <1>3, <1>4, <1>5, <1>6, <1>8, <1>9, <1>10, <1>11, <1>12, <1>13
  DEF Next, Forward

-----------------------------------------------------------------------------
(* The tables.                                                             *)

LEMMA TablesStep ==
  ASSUME Inv, [Next]_vars
  PROVE  TablesAreTrue'
<1>0. TablesAreTrue
  BY DEF Inv
<1>1. ASSUME NEW c \in Controllers, NEW k \in Copies, PktIn(c, k) \/ Raise(c, k)
      PROVE  TablesAreTrue'
  <2> DEFINE out == Lookup(Learn(c, k), k.at, hdr[k.frame].dst)
  <2>1. pend[c][k] > 0 /\ AddRule(k, out) /\ macToPort' = [macToPort EXCEPT ![c] = Learn(c, k)]
    BY <1>1 DEF PktIn, Raise
  <2> QED  BY <2>1, RuleFacts, TableFacts DEF TablesAreTrue
<1>2. ASSUME NEW c \in Controllers, Kill(c) PROVE TablesAreTrue'
  BY <1>0, <1>2, DieFacts DEF Kill, TablesAreTrue
<1>3. ASSUME NEW c \in Controllers, NEW k \in Copies, KillInHandler(c, k)
      PROVE  TablesAreTrue'
  BY <1>3, DieFacts, RuleFacts DEF KillInHandler, TablesAreTrue
<1>4. ASSUME NEW s \in Switches, NEW r \in rules[s], Expire(s, r) PROVE TablesAreTrue'
  <2>1. rules \in [Switches -> SUBSET Rules]
    BY DEF Inv, TypeOK
  <2>2. \A z \in Switches : rules'[z] \subseteq rules[z]
    BY <1>4, <2>1 DEF Expire
  <2> QED  BY <1>0, <1>4, <2>2 DEF Expire, TablesAreTrue
<1>5. CASE UNCHANGED <<macToPort, rules>>
  BY <1>0, <1>5 DEF TablesAreTrue
<1> QED
  BY <1>1, <1>2, <1>3, <1>4, <1>5
  DEF Next, Forward, Send, Apply, PacketIn, Drop, SwitchUp, Start, vars

-----------------------------------------------------------------------------
(* The copies.                                                             *)

\* What a switch sends on is on the side of its source, too.
LEMMA OnwardOnSide ==
  ASSUME Inv, NEW k \in Copies, OnSide(k), NEW ps, k.in \notin ps,
         NEW l \in Onward(k.frame, k.at, ps), l \in Copies
  PROVE  OnSide(l)
<1>1. k.frame \in Frames /\ k.at \in Switches /\ hdr[k.frame].src \in Hosts
  BY SentFacts, CopyFacts DEF OnSide
<1> QED  BY <1>1, OnwardPlaced DEF OnSide

LEMMA PlacedStep ==
  ASSUME Inv, [Next]_vars
  PROVE  Addressed' /\ Placed'
<1>0. /\ TypeOK /\ Addressed /\ Placed /\ wire \in [Copies -> Nat]
      /\ hdr \in [Frames -> {Unsent} \cup [src : Hosts, dst : Addresses]]
  BY DEF Inv, TypeOK
<1>1. ASSUME NEW f \in Frames, NEW h \in Hosts, NEW d \in Addresses, Send(f, h, d)
      PROVE  Addressed' /\ Placed'
  <2> DEFINE k0 == [frame |-> f, at |-> At[h], in |-> h]
  <2>1. /\ hdr[f] = Unsent /\ h # d /\ hdr' = [hdr EXCEPT ![f] = Header(h, d)]
        /\ wire' = Plus(wire, {k0}) /\ pend' = pend /\ conn' = conn /\ miss' = miss
    BY <1>1 DEF Send
  <2>2. /\ hdr'[f] = [src |-> h, dst |-> d]
        /\ \A g \in Frames : g # f => hdr'[g] = hdr[g]
    BY <1>0, <2>1 DEF Header
  <2>3. hdr'[f] # Unsent /\ hdr'[f].src = h /\ hdr'[f].dst = d
    BY <2>2, SwitchAssumption DEF Unsent, Header
  <2>4. Addressed'
    BY <1>0, <2>1, <2>2, <2>3 DEF Addressed
  <2>5. \A k \in Copies : OnSide(k) => k.frame # f /\ OnSide(k)'
    BY <2>1, <2>2, CopyFacts DEF OnSide
  <2>6. OnSide(k0)'
    BY <2>3 DEF OnSide, Toward
  <2>7. \A k \in Copies : wire'[k] > 0 => wire[k] > 0 \/ k = k0
    BY <1>0, <2>1, PlusFacts
  <2> HIDE DEF k0
  <2> QED  BY <1>0, <2>1, <2>4, <2>5, <2>6, <2>7 DEF Placed
<1>2. ASSUME hdr' = hdr, \A x \in conn' : x[2] \in miss',
             \A k \in Copies : wire'[k] > 0 => OnSide(k),
             \A k \in Copies, c \in Controllers : pend'[c][k] > 0 => OnSide(k)
      PROVE  Addressed' /\ Placed'
  BY <1>0, <1>2 DEF Addressed, Placed, OnSide
<1>3. /\ \A x \in conn : x[2] \in miss
      /\ \A k \in Copies : wire[k] > 0 => OnSide(k)
      /\ \A k \in Copies, c \in Controllers : pend[c][k] > 0 => OnSide(k)
  BY <1>0 DEF Placed
<1>4. ASSUME NEW k \in Copies, Apply(k) PROVE Addressed' /\ Placed'
  <2>1. PICK r \in Matching(k) : Output(k.frame, k.at, {r.out} \ {k.in}, Minus(wire, k))
    BY <1>4 DEF Apply
  <2>2. OnSide(k) /\ Minus(wire, k) \in [Copies -> Nat] /\ wire[k] > 0
    BY <1>3, <1>4, WireFacts DEF Apply
  <2>3. \A l \in Copies : wire'[l] > 0 => wire[l] > 0 \/ l \in Onward(k.frame, k.at, {r.out} \ {k.in})
    BY <1>0, <2>1, <2>2, OutputFacts, MinusFacts, CopyFacts DEF TypeOK
  <2>4. \A l \in Copies : wire'[l] > 0 => OnSide(l)
    BY <1>3, <2>2, <2>3, OnwardOnSide
  <2> QED  BY <1>2, <1>3, <1>4, <2>4 DEF Apply
<1>5. ASSUME NEW k \in Copies, PacketIn(k) PROVE Addressed' /\ Placed'
  <2>1. OnSide(k) /\ \A l \in Copies : wire'[l] > 0 => wire[l] > 0
    BY <1>0, <1>3, <1>5, MinusFacts DEF PacketIn
  <2> QED  BY <1>2, <1>3, <1>5, <2>1, PacketInFacts DEF PacketIn
<1>6. ASSUME NEW k \in Copies, Drop(k) PROVE Addressed' /\ Placed'
  <2>1. \A l \in Copies : wire'[l] > 0 => wire[l] > 0
    BY <1>0, <1>6, MinusFacts DEF Drop
  <2> QED  BY <1>2, <1>3, <1>6, <2>1 DEF Drop
<1>7. ASSUME NEW c \in Controllers, NEW k \in Copies, PktIn(c, k) PROVE Addressed' /\ Placed'
  <2> DEFINE out == Lookup(Learn(c, k), k.at, hdr[k.frame].dst)
             ps == PortsFor(k.at, k.in, out)
  <2>1. pend[c][k] > 0 /\ OnSide(k) /\ Output(k.frame, k.at, ps, wire) /\ k.in \notin ps
    BY <1>3, <1>7 DEF PktIn, PortsFor
  <2> HIDE DEF ps
  <2>2. \A l \in Copies : wire'[l] > 0 => wire[l] > 0 \/ l \in Onward(k.frame, k.at, ps)
    BY <1>0, <2>1, OutputFacts, CopyFacts DEF TypeOK
  <2>3. \A l \in Copies : wire'[l] > 0 => OnSide(l)
    BY <1>3, <2>1, <2>2, OnwardOnSide
  <2>4. \A l \in Copies, d \in Controllers : pend'[d][l] > 0 => pend[d][l] > 0
    BY <1>7, <2>1, TakenFacts DEF PktIn, Taken
  <2> QED  BY <1>2, <1>3, <1>7, <2>3, <2>4 DEF PktIn
<1>8. ASSUME NEW c \in Controllers, NEW k \in Copies, Raise(c, k) PROVE Addressed' /\ Placed'
  <2>1. \A l \in Copies, d \in Controllers : pend'[d][l] > 0 => pend[d][l] > 0
    BY <1>8, TakenFacts DEF Raise, Taken
  <2> QED  BY <1>2, <1>3, <1>8, <2>1 DEF Raise
<1>9. ASSUME NEW c \in Controllers, Die(c) PROVE Addressed' /\ Placed'
  <2>1. \A l \in Copies, d \in Controllers : pend'[d][l] > 0 => pend[d][l] > 0
    BY <1>9, DieFacts
  <2>2. conn' \subseteq conn /\ miss' = miss /\ hdr' = hdr /\ wire' = wire
    BY <1>9 DEF Die
  <2> QED  BY <1>2, <1>3, <2>1, <2>2
<1>10. ASSUME NEW c \in Controllers, NEW s \in Switches, SwitchUp(c, s)
       PROVE  Addressed' /\ Placed'
  BY <1>2, <1>3, <1>10 DEF SwitchUp, netVars
<1>11. CASE UNCHANGED <<hdr, wire, pend, conn, miss>>
  BY <1>2, <1>3, <1>11
<1> QED
  BY <1>1, <1>4, <1>5, <1>6, <1>7, <1>8, <1>9, <1>10, <1>11
  DEF Next, Forward, Kill, KillInHandler, Expire, Start, vars, netVars

-----------------------------------------------------------------------------
(* The frames.                                                             *)

\* From a switch on the way to a receiver a copy that leaves by the port
\* towards it gets there or to the next switch on the way.
LEMMA Advance ==
  ASSUME Inv, NEW f \in Frames, NEW h \in Receivers(f), NEW k \in Copies,
         k.frame = f, k.at \in Way(hdr[f].src, h),
         NEW ps, Toward(k.at, h) \in ps, NEW w \in [Copies -> Nat], Output(f, k.at, ps, w)
  PROVE  \/ got'[f][h] > 0
         \/ \E l \in Copies :
              l.frame = f /\ l.at \in Way(hdr[f].src, h) /\ wire'[l] > 0
<1>1. h \in Hosts /\ hdr[f] # Unsent /\ hdr[f].src \in Hosts /\ hdr[f].src # h
  BY SentFacts DEF Receivers
<1>2. got \in [Frames -> [Hosts -> Nat]]
  BY DEF Inv, TypeOK
<1>3. CASE Toward(k.at, h) = h
  BY <1>1, <1>2, <1>3, OutputFacts, CopyFacts
<1>4. CASE \E l \in Copies :
             /\ l \in Onward(f, k.at, {Toward(k.at, h)})
             /\ l.frame = f /\ l.at \in Way(hdr[f].src, h) /\ l.at # k.at
  <2>1. PICK l \in Copies : /\ l \in Onward(f, k.at, {Toward(k.at, h)})
                            /\ l.frame = f /\ l.at \in Way(hdr[f].src, h)
    BY <1>4
  <2>2. l \in Onward(f, k.at, ps)
    BY <2>1 DEF Onward
  <2>3. wire'[l] > 0
    BY <1>2, <2>2, OutputFacts, CopyFacts
  <2> QED  BY <2>1, <2>3
<1> QED  BY <1>1, <1>3, <1>4, OnTheWay, CopyFacts

\* The port towards a receiver is not the one the frame came in by.
LEMMA NotBack ==
  ASSUME Inv, NEW f \in Frames, NEW h \in Receivers(f), NEW k \in Copies,
         k.frame = f, k.at \in Way(hdr[f].src, h), OnSide(k)
  PROVE  Toward(k.at, h) # k.in
<1>1. h \in Hosts /\ hdr[f] # Unsent /\ hdr[f].src \in Hosts /\ hdr[f].src # h
  BY SentFacts DEF Receivers
<1>2. k.at \in Switches /\ k.in = Toward(k.at, hdr[f].src)
  BY CopyFacts DEF OnSide
<1>3. Toward(k.at, h) # Toward(k.at, hdr[f].src)
  BY <1>1, <1>2, NoWayBack
<1> QED  BY <1>2, <1>3

\* A handler sends a copy towards each receiver it is on the way to.
LEMMA HandlerSends ==
  ASSUME Inv, NEW f \in Frames, NEW h \in Receivers(f), NEW c \in Controllers,
         NEW k \in Copies, pend[c][k] > 0,
         k.frame = f, k.at \in Way(hdr[f].src, h),
         NEW out, out = Lookup(Learn(c, k), k.at, hdr[k.frame].dst)
  PROVE  Toward(k.at, h) \in PortsFor(k.at, k.in, out)
<1>1. h \in Hosts /\ hdr[f].dst \in {h, "broadcast"} /\ "broadcast" \notin Hosts
  BY SwitchAssumption DEF Receivers
<1>2. Toward(k.at, h) # k.in
  BY NotBack DEF Inv, Placed
<1>3. CASE out = Flood
  BY <1>1, <1>2, <1>3, TowardPort, CopyFacts DEF PortsFor
<1>4. CASE out # Flood
  <2>1. out = Toward(k.at, h)
    BY <1>1, <1>4, HandlerFacts
  <2> QED  BY <1>2, <1>4, <2>1 DEF PortsFor
<1> QED  BY <1>3, <1>4

\* A rule does, too.
LEMMA RuleSends ==
  ASSUME Inv, NEW f \in Frames, NEW h \in Receivers(f), NEW k \in Copies, wire[k] > 0,
         k.frame = f, k.at \in Way(hdr[f].src, h), NEW r \in Matching(k)
  PROVE  Toward(k.at, h) \in {r.out} \ {k.in}
<1>1. h \in Hosts /\ hdr[f].dst \in {h, "broadcast"} /\ "broadcast" \notin Hosts
  BY SwitchAssumption DEF Receivers
<1>2. Toward(k.at, h) # k.in
  BY NotBack DEF Inv, Placed
<1>3. r \in rules[k.at] /\ r \in Rules /\ Header(r.src, r.dst) = hdr[f]
  BY CopyFacts DEF Matching, Inv, TypeOK
<1>4. r.dst = h
  BY <1>1, <1>3 DEF Header, Rules
<1>5. r.out = Toward(k.at, h)
  BY <1>3, <1>4, CopyFacts DEF Inv, TablesAreTrue
<1> QED  BY <1>2, <1>5

\* Frame f has reached h, or the controllers ch will bring it there.
Kept(f, h, ch) == got[f][h] > 0 \/ Coming(f, h, ch)

LEMMA FramesStep ==
  ASSUME Inv, NoFrameIsLost, [Next]_vars
  PROVE  NoFrameIsLost'
<1>0. /\ TypeOK /\ Placed /\ wire \in [Copies -> Nat] /\ got \in [Frames -> [Hosts -> Nat]]
      /\ pend \in [Controllers -> [Copies -> Nat]] /\ since \in [Frames -> SUBSET conn]
      /\ wire' \in [Copies -> Nat] /\ got' \in [Frames -> [Hosts -> Nat]]
      /\ pend' \in [Controllers -> [Copies -> Nat]]
  BY TypeStep DEF Inv, TypeOK
<1>1. ASSUME NEW f \in Frames, NEW h \in Hosts, NEW d \in Addresses, Send(f, h, d)
      PROVE  NoFrameIsLost'
  <2> DEFINE k0 == [frame |-> f, at |-> At[h], in |-> h]
  <2>1. /\ hdr[f] = Unsent /\ hdr' = [hdr EXCEPT ![f] = Header(h, d)]
        /\ wire' = Plus(wire, {k0}) /\ pend' = pend /\ got' = got
        /\ since' = [since EXCEPT ![f] = conn]
    BY <1>1 DEF Send
  <2>2. /\ hdr'[f] = [src |-> h, dst |-> d]
        /\ \A g \in Frames : g # f => hdr'[g] = hdr[g] /\ since'[g] = since[g]
    BY <1>0, <2>1 DEF Header, TypeOK
  <2>3. k0 \in Copies /\ k0.frame = f /\ k0.at = At[h]
    BY SwitchAssumption DEF Copies, Ports
  <2>4. wire'[k0] > 0 /\ \A k \in Copies : wire'[k] >= wire[k]
    BY <1>0, <2>1, <2>3, PlusFacts
  <2> HIDE DEF k0
  <2> SUFFICES ASSUME NEW g \in Frames, NEW i \in Receivers(g)', NEW ch \in [Switches -> Controllers],
                      \A s \in Switches : <<ch[s], s>> \in since'[g]
               PROVE  Kept(g, i, ch)'
    BY DEF NoFrameIsLost, Kept
  <2>5. CASE g = f
    <3>1. At[h] \in Way(h, i) /\ hdr'[f].src = h
      BY <2>2, <2>5, SwitchAssumption DEF Way, Receivers, Switches
    <3> QED  BY <2>3, <2>4, <2>5, <3>1 DEF Kept, Coming
  <2>6. CASE g # f
    <3>1. i \in Receivers(g) /\ Kept(g, i, ch)
      BY <2>2, <2>6 DEF NoFrameIsLost, Kept, Receivers
    <3>2. hdr'[g] = hdr[g] /\ \A k \in Copies : wire[k] > 0 => wire'[k] > 0
      BY <1>0, <2>2, <2>4, <2>6
    <3> QED  BY <2>1, <3>1, <3>2 DEF Kept, Coming
  <2> QED  BY <2>5, <2>6
<1> DEFINE sends == \E f \in Frames, h \in Hosts, d \in Addresses : Send(f, h, d)
<1>2. CASE ~ sends
  <2>0. hdr' = hdr /\ \A g \in Frames : since'[g] \subseteq since[g]
    <3>1. ASSUME NEW k \in Copies, Forward(k) PROVE hdr' = hdr /\ since' = since
      BY <3>1 DEF Forward, Apply, PacketIn, Drop
    <3>2. ASSUME NEW c \in Controllers, NEW k \in Copies, PktIn(c, k)
          PROVE  hdr' = hdr /\ since' = since
      BY <3>2 DEF PktIn
    <3>3. ASSUME NEW c \in Controllers, NEW k \in Copies, Raise(c, k)
          PROVE  hdr' = hdr /\ \A g \in Frames : since'[g] \subseteq since[g]
      BY <1>0, <3>3 DEF Raise
    <3>4. ASSUME NEW c \in Controllers, Die(c)
          PROVE  hdr' = hdr /\ \A g \in Frames : since'[g] \subseteq since[g]
      BY <3>4 DEF Die
    <3>5. ASSUME NEW c \in Controllers, Start(c) \/ \E s \in Switches : SwitchUp(c, s)
          PROVE  hdr' = hdr /\ since' = since
      BY <3>5 DEF Start, SwitchUp, netVars
    <3>6. ASSUME NEW s \in Switches, NEW r \in rules[s], Expire(s, r)
          PROVE  hdr' = hdr /\ since' = since
      BY <3>6 DEF Expire, netVars
    <3>7. CASE UNCHANGED vars
      BY <3>7 DEF vars, netVars
    <3> QED
      BY <1>2, <3>1, <3>2, <3>3, <3>4, <3>5, <3>6, <3>7 DEF Next, Kill, KillInHandler
  <2>1. \A f \in Frames : Receivers(f)' = Receivers(f)
    BY <2>0 DEF Receivers
  <2> SUFFICES ASSUME NEW f \in Frames, NEW h \in Receivers(f)', NEW ch \in [Switches -> Controllers],
                      \A s \in Switches : <<ch[s], s>> \in since'[f]
               PROVE  Kept(f, h, ch)'
    BY DEF NoFrameIsLost, Kept
  <2> h \in Receivers(f)
    BY <2>1
  <2>2. since'[f] \subseteq since[f]
    BY <2>0
  <2>3. Kept(f, h, ch)
    BY <2>2 DEF NoFrameIsLost, Kept
  <2>4. /\ h \in Hosts /\ \A s \in Switches : <<ch[s], s>> \in conn /\ s \in miss
        /\ hdr'[f].src = hdr[f].src
    BY <1>0, <2>0, <2>2 DEF Receivers, Placed
  \* A copy that was coming still is when no bag shrinks at it.
  <2>5. ASSUME NEW k \in Copies, k.frame = f, k.at \in Way(hdr[f].src, h),
               wire'[k] > 0 \/ pend'[ch[k.at]][k] > 0
        PROVE  Kept(f, h, ch)'
    BY <2>4, <2>5 DEF Kept, Coming
  <2>6. ASSUME \A g \in Frames, i \in Hosts : got'[g][i] >= got[g][i],
               \A k \in Copies : /\ k.frame = f /\ k.at \in Way(hdr[f].src, h)
                                 /\ wire[k] > 0 \/ pend[ch[k.at]][k] > 0
                                 => Kept(f, h, ch)'
        PROVE  Kept(f, h, ch)'
    BY <1>0, <2>3, <2>4, <2>6 DEF Kept, Coming
  <2>7. ASSUME NEW k \in Copies, Apply(k) PROVE Kept(f, h, ch)'
    <3>1. PICK r \in Matching(k) : Output(k.frame, k.at, {r.out} \ {k.in}, Minus(wire, k))
      BY <2>7 DEF Apply
    <3>2. Minus(wire, k) \in [Copies -> Nat] /\ k.frame \in Frames /\ k.at \in Switches /\ wire[k] > 0
      BY <2>7, WireFacts, CopyFacts DEF Apply
    <3>3. /\ \A g \in Frames, i \in Hosts : got'[g][i] >= got[g][i]
          /\ \A l \in Copies : wire'[l] >= Minus(wire, k)[l]
      BY <1>0, <3>1, <3>2, OutputFacts
    <3>4. ASSUME k.frame = f, k.at \in Way(hdr[f].src, h)
          PROVE  Kept(f, h, ch)'
      <4>1. Toward(k.at, h) \in {r.out} \ {k.in}
        BY <3>2, <3>4, RuleSends
      <4>2. \/ got'[f][h] > 0
            \/ \E l \in Copies : l.frame = f /\ l.at \in Way(hdr[f].src, h) /\ wire'[l] > 0
        BY <3>1, <3>2, <3>4, <4>1, Advance
      <4> QED  BY <2>5, <4>2 DEF Kept
    <3>5. ASSUME NEW l \in Copies, l # k, wire[l] > 0 PROVE wire'[l] > 0
      <4>1. Minus(wire, k)[l] = wire[l]
        BY <1>0, <3>2, <3>5, MinusFacts
      <4> QED  BY <1>0, <3>3, <3>5, <4>1
    <3>6. ASSUME NEW l \in Copies, l.frame = f, l.at \in Way(hdr[f].src, h),
                 wire[l] > 0 \/ pend[ch[l.at]][l] > 0
          PROVE  Kept(f, h, ch)'
      <4>1. pend' = pend
        BY <2>7 DEF Apply
      <4> QED  BY <2>5, <3>4, <3>5, <3>6, <4>1
    <3> QED  BY <2>6, <3>3, <3>6
  <2>8. ASSUME NEW k \in Copies, PacketIn(k) PROVE Kept(f, h, ch)'
    <3>1. wire' = Minus(wire, k) /\ wire[k] > 0 /\ got' = got /\ k.at \in Switches
      BY <2>8, CopyFacts DEF PacketIn
    <3>2. \A l \in Copies : l # k => wire'[l] = wire[l]
      BY <1>0, <3>1, MinusFacts
    <3>3. pend'[ch[k.at]][k] > 0
      BY <2>4, <2>8, <3>1, PacketInFacts
    <3>4. ASSUME NEW l \in Copies, pend[ch[l.at]][l] > 0 PROVE pend'[ch[l.at]][l] > 0
      <4>1. ch[l.at] \in Controllers
        BY CopyFacts
      <4>2. pend'[ch[l.at]][l] >= pend[ch[l.at]][l]
        BY <2>8, <4>1, PacketInFacts
      <4> QED  BY <1>0, <3>4, <4>1, <4>2
    <3>5. \A g \in Frames, i \in Hosts : got'[g][i] >= got[g][i]
      BY <1>0, <3>1
    <3>6. ASSUME NEW l \in Copies, l.frame = f, l.at \in Way(hdr[f].src, h),
                 wire[l] > 0 \/ pend[ch[l.at]][l] > 0
          PROVE  Kept(f, h, ch)'
      BY <2>5, <3>2, <3>3, <3>4, <3>6
    <3> QED  BY <2>6, <3>5, <3>6
  <2>9. ASSUME NEW k \in Copies, Drop(k) PROVE Kept(f, h, ch)'
    BY <2>4, <2>9, CopyFacts DEF Drop
  <2>10. ASSUME NEW c \in Controllers, NEW k \in Copies, PktIn(c, k) PROVE Kept(f, h, ch)'
    <3> DEFINE out == Lookup(Learn(c, k), k.at, hdr[k.frame].dst)
               ps == PortsFor(k.at, k.in, out)
    <3>1. /\ pend[c][k] > 0 /\ Output(k.frame, k.at, ps, wire)
          /\ k.frame \in Frames /\ k.at \in Switches
      BY <2>10, CopyFacts DEF PktIn
    <3>2. k.frame = f /\ k.at \in Way(hdr[f].src, h) => Toward(k.at, h) \in ps
      BY <3>1, HandlerSends
    <3> HIDE DEF ps
    <3>3. /\ \A g \in Frames, i \in Hosts : got'[g][i] >= got[g][i]
          /\ \A l \in Copies : wire'[l] >= wire[l]
      BY <1>0, <3>1, OutputFacts
    <3>4. ASSUME k.frame = f, k.at \in Way(hdr[f].src, h)
          PROVE  Kept(f, h, ch)'
      <4>1. \/ got'[f][h] > 0
            \/ \E l \in Copies : l.frame = f /\ l.at \in Way(hdr[f].src, h) /\ wire'[l] > 0
        BY <1>0, <3>1, <3>2, <3>4, Advance
      <4> QED  BY <2>5, <4>1 DEF Kept
    <3>5. \A l \in Copies : wire[l] > 0 => wire'[l] > 0
      BY <1>0, <3>3
    <3>6. \A d \in Controllers, l \in Copies : l # k => pend'[d][l] = pend[d][l]
      <4>1. Taken(c, k)
        BY <2>10 DEF PktIn, Taken
      <4> QED  BY <4>1, TakenFacts
    <3>7. ASSUME NEW l \in Copies, l.frame = f, l.at \in Way(hdr[f].src, h),
                 wire[l] > 0 \/ pend[ch[l.at]][l] > 0
          PROVE  Kept(f, h, ch)'
      <4>1. CASE l = k
        BY <3>4, <3>7, <4>1
      <4>2. CASE l # k
        BY <2>5, <3>5, <3>6, <3>7, <4>2, CopyFacts
      <4> QED  BY <4>1, <4>2
    <3> QED  BY <2>6, <3>3, <3>7
  <2>11. ASSUME NEW c \in Controllers, NEW k \in Copies, Raise(c, k) PROVE Kept(f, h, ch)'
    <3>1. /\ pend[c][k] > 0 /\ wire' = wire /\ got' = got
          /\ since' = [since EXCEPT ![k.frame] = @ \ {<<c, k.at>>}]
          /\ k.frame \in Frames /\ k.at \in Switches
      BY <2>11, CopyFacts DEF Raise
    <3>2. k.frame = f => ch[k.at] # c
      BY <1>0, <3>1
    <3>3. \A d \in Controllers, l \in Copies : d # c \/ l # k => pend'[d][l] = pend[d][l]
      <4>1. Taken(c, k)
        BY <2>11 DEF Raise, Taken
      <4> QED  BY <4>1, TakenFacts
    <3>4. \A l \in Copies : l.frame = f => pend'[ch[l.at]][l] = pend[ch[l.at]][l]
      BY <3>2, <3>3, CopyFacts
    <3>5. \A g \in Frames, i \in Hosts : got'[g][i] >= got[g][i]
      BY <1>0, <3>1
    <3>6. ASSUME NEW l \in Copies, l.frame = f, l.at \in Way(hdr[f].src, h),
                 wire[l] > 0 \/ pend[ch[l.at]][l] > 0
          PROVE  Kept(f, h, ch)'
      BY <2>5, <3>1, <3>4, <3>6
    <3> QED  BY <2>6, <3>5, <3>6
  <2>12. ASSUME NEW c \in Controllers, Die(c) PROVE Kept(f, h, ch)'
    <3>1. wire' = wire /\ got' = got /\ since' = [g \in Frames |-> {x \in since[g] : x[1] # c}]
      BY <2>12 DEF Die
    <3>2. \A s \in Switches : ch[s] # c
      BY <3>1
    <3>3. \A l \in Copies : pend'[ch[l.at]][l] = pend[ch[l.at]][l]
      BY <2>12, <3>2, CopyFacts, DieFacts
    <3>4. \A g \in Frames, i \in Hosts : got'[g][i] >= got[g][i]
      BY <1>0, <3>1
    <3>5. ASSUME NEW l \in Copies, l.frame = f, l.at \in Way(hdr[f].src, h),
                 wire[l] > 0 \/ pend[ch[l.at]][l] > 0
          PROVE  Kept(f, h, ch)'
      BY <2>5, <3>1, <3>3, <3>5
    <3> QED  BY <2>6, <3>4, <3>5
  <2>13. CASE UNCHANGED <<wire, pend, got>>
    BY <2>3, <2>4, <2>13 DEF Kept, Coming
  <2> QED
    BY <1>2, <2>7, <2>8, <2>9, <2>10, <2>11, <2>12, <2>13
    DEF Next, Forward, Kill, KillInHandler, Expire, SwitchUp, Start, vars, netVars
<1> QED  BY <1>1, <1>2

-----------------------------------------------------------------------------
(* The theorems.                                                           *)

LEMMA InitInv == Init => Inv
<1> SUFFICES ASSUME Init PROVE Inv
  OBVIOUS
<1>1. Nothing \in [Copies -> Nat] /\ \A k \in Copies : Nothing[k] = 0
  BY DEF Nothing
<1>2. EmptyTable \in [Switches -> [Hosts -> Ports \cup {Flood}]]
  BY DEF EmptyTable
<1>3. TypeOK
  BY <1>1, <1>2, SwitchAssumption DEF Init, TypeOK
<1>4. Addressed
  BY DEF Init, Addressed
<1>5. Placed
  BY <1>1 DEF Init, Placed
<1>6. TablesAreTrue
  BY DEF Init, TablesAreTrue, EmptyTable
<1> QED  BY <1>3, <1>4, <1>5, <1>6 DEF Inv

LEMMA InvStep == Inv /\ [Next]_vars => Inv'
BY TypeStep, TablesStep, PlacedStep DEF Inv

LEMMA Invariance == Spec => []Inv
<1> QED  BY InitInv, InvStep, PTL DEF Spec

\* Types of the controllers' memory, the switches' and the network's
\* (controller/ryu_controller.py:40).
THEOREM TypeCorrect == Spec => []TypeOK
<1>1. Inv => TypeOK
  BY DEF Inv
<1> QED  BY <1>1, Invariance, PTL

\* Whatever the order in which the controllers of a switch handle the copies of
\* a frame, and whichever of them die, what they learn and install leads to the
\* host (controller/ryu_controller.py:78-84).
THEOREM TablesCorrect == Spec => []TablesAreTrue
<1>1. Inv => TablesAreTrue
  BY DEF Inv
<1> QED  BY <1>1, Invariance, PTL

\* A controller that dies, forgets or breaks off takes no frame with it that
\* another controller of its switch has been connected for
\* (controller/ryu_controller.py:77-90).
THEOREM FramesCorrect == Spec => []NoFrameIsLost
<1>1. Init => NoFrameIsLost
  BY DEF Init, NoFrameIsLost, Receivers
<1>2. Inv /\ NoFrameIsLost /\ [Next]_vars => NoFrameIsLost'
  BY FramesStep
<1> QED  BY <1>1, <1>2, Invariance, PTL DEF Spec
=============================================================================
