--------------------------- MODULE LearningSwitch ---------------------------
(***************************************************************************)
(* SecureController as an L2 learning switch                               *)
(* (controller/ryu_controller.py:40, 53-97) in the network                 *)
(* scripts/multi_controller.py builds: a line of switches, each connected  *)
(* to more than one controller.  No controller ever asks for a role, so a  *)
(* switch treats all of them alike: each gets every packet the switch has  *)
(* no rule for, learns from it, may install a rule and sends the packet    *)
(* on, and what one of them sends on is a packet of its own for the next   *)
(* switch.  The controllers share nothing; a table is memory of a process, *)
(* the rules are the switch's.  What the handlers report to the integrity  *)
(* agent is IntegrityAgent's: it returns nothing, but it may raise.        *)
(*                                                                         *)
(* The switches are Open vSwitch as Mininet starts it: what finds neither  *)
(* rule nor controller is dropped, and no packet leaves by the port it     *)
(* came in.  Links deliver; frames that are on their way are counted, for  *)
(* there may be several copies of one.                                     *)
(***************************************************************************)
EXTENDS Integers, FiniteSets

CONSTANTS Hosts, At,          \* the hosts, and the switch each is linked to
          Length,             \* the switches are 1 .. Length, in a line
          Controllers, Serves,   \* the controllers, and the switches of each
          Frames, MaxFaults   \* bounds of the model

Switches == 1 .. Length

ASSUME SwitchAssumption ==
  /\ Length \in Nat \ {0}
  /\ At \in [Hosts -> Switches]
  /\ Serves \in [Controllers -> SUBSET Switches]
  /\ {"left", "right", "flood", "broadcast", "none"} \cap Hosts = {}
  /\ MaxFaults \in Nat

VARIABLES
  up, conn,                   \* the controllers that run; their switches
  faults,                     \* deaths and handlers that raised
  macToPort,                  \* per controller and switch: the tables
  miss, rules,                \* per switch: table-miss rule, flow rules
  hdr,                        \* per frame: source and destination, once sent
  wire, pend,                 \* copies that reach a switch; packets in, by
                              \* controller
  got,                        \* per frame and host: copies received
  since                       \* per frame: the connections that have lasted
                              \* since it was sent, their handlers unbroken

netVars == <<hdr, wire, pend, got>>
vars == <<up, conn, faults, macToPort, miss, rules, netVars, since>>

\* A port is known by what is at the other end of its link.
Ports == Hosts \cup {"left", "right"}
PortsOf(s) ==
  {h \in Hosts : At[h] = s} \cup {p \in {"left"} : s > 1} \cup {p \in {"right"} : s < Length}

Flood == "flood"              \* OFPP_FLOOD, or an address not in a table
Rules == [in : Ports, src : Hosts, dst : Hosts, out : Ports]
Addresses == Hosts \cup {"broadcast"}
Header(h, d) == [src |-> h, dst |-> d]
Unsent == Header("none", "none")
Copies == [frame : Frames, at : Switches, in : Ports]

Nothing == [k \in Copies |-> 0]
Plus(bag, ks) == [k \in Copies |-> IF k \in ks THEN bag[k] + 1 ELSE bag[k]]
Minus(bag, k) == [bag EXCEPT ![k] = @ - 1]

EmptyTable == [s \in Switches |-> [h \in Hosts |-> Flood]]

Init ==
  /\ up = Controllers /\ conn = {} /\ faults = 0
  /\ macToPort = [c \in Controllers |-> EmptyTable]
  /\ miss = {} /\ rules = [s \in Switches |-> {}]
  /\ hdr = [f \in Frames |-> Unsent]
  /\ wire = Nothing
  /\ pend = [c \in Controllers |-> Nothing]
  /\ got = [f \in Frames |-> [h \in Hosts |-> 0]]
  /\ since = [f \in Frames |-> {}]

\* The copies of frame f that arrive at the next switches when switch s sends
\* it out of the ports ps.
Onward(f, s, ps) ==
  {[frame |-> f, at |-> s - 1, in |-> "right"] : p \in ps \cap {"left"}}
  \cup {[frame |-> f, at |-> s + 1, in |-> "left"] : p \in ps \cap {"right"}}

\* Frame f leaves switch s by the ports ps; w is what else is on its way.
Output(f, s, ps, w) ==
  /\ wire' = Plus(w, Onward(f, s, ps))
  /\ got' = [got EXCEPT ![f] = [h \in Hosts |-> IF h \in ps THEN @[h] + 1 ELSE @[h]]]

-----------------------------------------------------------------------------
(* Hosts and switches.                                                     *)

\* Host h sends a frame to d, a host or the broadcast address.
Send(f, h, d) ==
  /\ hdr[f] = Unsent /\ h # d
  /\ hdr' = [hdr EXCEPT ![f] = Header(h, d)]
  /\ since' = [since EXCEPT ![f] = conn]
  /\ wire' = Plus(wire, {[frame |-> f, at |-> At[h], in |-> h]})
  /\ UNCHANGED <<up, conn, faults, macToPort, miss, rules, pend, got>>

Matching(k) ==
  {r \in rules[k.at] : r.in = k.in /\ Header(r.src, r.dst) = hdr[k.frame]}

\* A copy meets a rule ...
Apply(k) ==
  /\ wire[k] > 0
  /\ \E r \in Matching(k) : Output(k.frame, k.at, {r.out} \ {k.in}, Minus(wire, k))
  /\ UNCHANGED <<up, conn, faults, macToPort, miss, rules, hdr, pend, since>>

\* ... or the table-miss rule, and goes to every controller connected ...
PacketIn(k) ==
  /\ wire[k] > 0 /\ Matching(k) = {} /\ k.at \in miss
  /\ wire' = Minus(wire, k)
  /\ pend' = [c \in Controllers |->
                IF <<c, k.at>> \in conn THEN Plus(pend[c], {k}) ELSE pend[c]]
  /\ UNCHANGED <<up, conn, faults, macToPort, miss, rules, hdr, got, since>>

\* ... or none, and is dropped.
Drop(k) ==
  /\ wire[k] > 0 /\ Matching(k) = {} /\ k.at \notin miss
  /\ wire' = Minus(wire, k)
  /\ UNCHANGED <<up, conn, faults, macToPort, miss, rules, hdr, pend, got, since>>

\* A rule that matched nothing for 30 s is removed.
Expire(s, r) ==
  /\ r \in rules[s]
  /\ rules' = [rules EXCEPT ![s] = @ \ {r}]
  /\ UNCHANGED <<up, conn, faults, macToPort, miss, netVars, since>>

-----------------------------------------------------------------------------
(* The controller.                                                         *)

\* _switch_up: a switch connects and gets the table-miss rule.
SwitchUp(c, s) ==
  /\ c \in up /\ s \in Serves[c] /\ <<c, s>> \notin conn
  /\ conn' = conn \cup {<<c, s>>}
  /\ miss' = miss \cup {s}
  /\ UNCHANGED <<up, faults, macToPort, rules, netVars, since>>

\* A mutated form of Learn: one table for all switches.
LearnOnce(c, k) ==
  [macToPort[c] EXCEPT ![1][hdr[k.frame].src] = k.in]

\* self.mac_to_port.setdefault(dpid, {})[src] = in_port
Learn(c, k) ==
  [macToPort[c] EXCEPT ![k.at][hdr[k.frame].src] = k.in]

\* .get(dst, of.OFPP_FLOOD): of a table, for an address
Lookup(t, s, d) == IF d \in Hosts THEN t[s][d] ELSE Flood

\* Where a packet out goes.
PortsFor(s, in, out) == (IF out = Flood THEN PortsOf(s) ELSE {out}) \ {in}

\* A mutated form of AddRule: a flood gets a rule, too.
AddRuleAlways(k, out) ==
  LET h == hdr[k.frame]
      r == [in |-> k.in, src |-> h.src, dst |-> h.dst, out |-> out]
  IN  rules' = [rules EXCEPT ![k.at] = (@ \ Matching(k)) \cup {r}]

\* _flow: a rule replaces one for the same packets.
AddRule(k, out) ==
  LET h == hdr[k.frame]
      r == [in |-> k.in, src |-> h.src, dst |-> h.dst, out |-> out]
  IN  rules' = IF out = Flood THEN rules
               ELSE [rules EXCEPT ![k.at] = (@ \ Matching(k)) \cup {r}]

\* A mutated form of PktIn: a packet that gets a rule is not sent on.
PktInRuleOnly(c, k) ==
  LET out == Lookup(Learn(c, k), k.at, hdr[k.frame].dst)
  IN  /\ c \in up /\ pend[c][k] > 0
      /\ macToPort' = [macToPort EXCEPT ![c] = Learn(c, k)]
      /\ AddRule(k, out)
      /\ Output(k.frame, k.at, IF out = Flood THEN PortsFor(k.at, k.in, out) ELSE {}, wire)
      /\ pend' = [pend EXCEPT ![c] = Minus(@, k)]
      /\ UNCHANGED <<up, conn, faults, miss, hdr, since>>

\* _pkt_in
PktIn(c, k) ==
  LET out == Lookup(Learn(c, k), k.at, hdr[k.frame].dst)
  IN  /\ c \in up /\ pend[c][k] > 0
      /\ macToPort' = [macToPort EXCEPT ![c] = Learn(c, k)]
      /\ AddRule(k, out)
      /\ Output(k.frame, k.at, PortsFor(k.at, k.in, out), wire)
      /\ pend' = [pend EXCEPT ![c] = Minus(@, k)]
      /\ UNCHANGED <<up, conn, faults, miss, hdr, since>>

\* The process dies, with its tables and connections; the switches keep their
\* rules.
Die(c) ==
  /\ c \in up /\ faults < MaxFaults
  /\ faults' = faults + 1
  /\ up' = up \ {c}
  /\ conn' = {x \in conn : x[1] # c}
  /\ since' = [f \in Frames |-> {x \in since[f] : x[1] # c}]
  /\ macToPort' = [macToPort EXCEPT ![c] = EmptyTable]
  /\ pend' = [pend EXCEPT ![c] = Nothing]
  /\ UNCHANGED <<miss, hdr, wire, got>>

Kill(c) == Die(c) /\ UNCHANGED rules

\* It dies in _pkt_in, with the rule installed and the packet not sent on.
KillInHandler(c, k) ==
  /\ pend[c][k] > 0
  /\ AddRule(k, Lookup(Learn(c, k), k.at, hdr[k.frame].dst))
  /\ Die(c)

\* agent.on_flow_add raises, for it signs and the key cannot be read: Ryu drops
\* the event, with the rule installed and the packet not sent on.
Raise(c, k) ==
  LET out == Lookup(Learn(c, k), k.at, hdr[k.frame].dst)
  IN  /\ c \in up /\ pend[c][k] > 0 /\ out # Flood /\ faults < MaxFaults
      /\ faults' = faults + 1
      /\ macToPort' = [macToPort EXCEPT ![c] = Learn(c, k)]
      /\ AddRule(k, out)
      /\ pend' = [pend EXCEPT ![c] = Minus(@, k)]
      /\ since' = [since EXCEPT ![k.frame] = @ \ {<<c, k.at>>}]
      /\ UNCHANGED <<up, conn, miss, hdr, wire, got>>

Start(c) ==
  /\ c \notin up
  /\ up' = up \cup {c}
  /\ UNCHANGED <<conn, faults, macToPort, miss, rules, netVars, since>>

Forward(k) == Apply(k) \/ PacketIn(k) \/ Drop(k)

Next ==
  \/ \E f \in Frames, h \in Hosts, d \in Addresses : Send(f, h, d)
  \/ \E k \in Copies :
       Forward(k) \/ \E c \in Controllers : PktIn(c, k) \/ Raise(c, k) \/ KillInHandler(c, k)
  \/ \E s \in Switches : \E r \in rules[s] : Expire(s, r)
  \/ \E c \in Controllers : Kill(c) \/ Start(c) \/ \E s \in Switches : SwitchUp(c, s)

Spec == Init /\ [][Next]_vars

-----------------------------------------------------------------------------
TypeOK ==
  /\ up \subseteq Controllers /\ conn \subseteq Controllers \X Switches
  /\ faults \in 0 .. MaxFaults
  /\ macToPort \in [Controllers -> [Switches -> [Hosts -> Ports \cup {Flood}]]]
  /\ miss \subseteq Switches /\ rules \in [Switches -> SUBSET Rules]
  /\ hdr \in [Frames -> {Unsent} \cup [src : Hosts, dst : Addresses]]
  /\ wire \in [Copies -> Nat]
  /\ pend \in [Controllers -> [Copies -> Nat]]
  /\ got \in [Frames -> [Hosts -> Nat]]
  /\ since \in [Frames -> SUBSET conn]

\* The port of s towards h, and the switches on the way from g to h.
Toward(s, h) == IF At[h] = s THEN h ELSE IF At[h] < s THEN "left" ELSE "right"
Way(g, h) ==
  {s \in Switches : (At[g] <= s /\ s <= At[h]) \/ (At[h] <= s /\ s <= At[g])}

\* However many copies of a frame several controllers flood along the line, no
\* table and no rule ever points another way than to the host, at no switch
\* and after no crash (controller/ryu_controller.py:78-84).
TablesAreTrue ==
  /\ \A c \in Controllers, s \in Switches, h \in Hosts :
       macToPort[c][s][h] \in {Flood, Toward(s, h)}
  /\ \A s \in Switches : \A r \in rules[s] : r.out = Toward(s, r.dst)

Receivers(f) ==
  {h \in Hosts : hdr[f] # Unsent /\ h # hdr[f].src /\ hdr[f].dst \in {h, "broadcast"}}

\* Of frame f, a copy is on its way to h that the controllers ch will bring there.
Coming(f, h, ch) ==
  \E k \in Copies :
    /\ k.frame = f /\ k.at \in Way(hdr[f].src, h)
    /\ (wire[k] > 0 \/ pend[ch[k.at]][k] > 0)

\* A controller that dies with packets in its hands loses none of them: what is
\* sent while one and the same controller stays connected to each switch, and
\* does not break its handler off, has arrived or is on its way, whatever the
\* others do, learn or forget (controller/ryu_controller.py:77-90,
\* scripts/multi_controller.py:112-114).
NoFrameIsLost ==
  \A f \in Frames : \A h \in Receivers(f) : \A ch \in [Switches -> Controllers] :
    (\A s \in Switches : <<ch[s], s>> \in since[f])
      => (got[f][h] > 0 \/ Coming(f, h, ch))
=============================================================================
