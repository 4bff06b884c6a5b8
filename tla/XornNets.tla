------------------------------ MODULE XornNets ------------------------------
(***************************************************************************)
(* How the Xorn netlister groups the net pieces of all sheets into nets    *)
(* (xorn/src/gaf/netlist/net.py), connects the ports of subsheets          *)
(* (pp_hierarchy.py), leaves out graphical components (pp_graphical.py),   *)
(* groups pins into package pins (package.py), and which nets it keeps     *)
(* (the constructor in netlist.py).                                        *)
(*                                                                         *)
(* The sheets are instantiated already: a design says what they contain.   *)
(* Net pieces (LocalNet) with the same name are one net; the names come    *)
(* from netname= attributes, or from net= attributes and power symbols, and*)
(* each of the two may be valid in one sheet or in all of them ("flat").   *)
(* Each action is one round of a loop in the code.  Net objects are        *)
(* numbered in the order of their creation, which is their order in the    *)
(* list netlist.nets until the netlister is through with naming them.      *)
(***************************************************************************)
EXTENDS Integers, FiniteSets, Sequences

CONSTANTS
  LocalNets,    \* net pieces of all sheets
  NumPins,      \* component pins are numbered in the order of netlist.components
  Spaces,       \* namespaces of sheets
  NoSpace,      \* the namespace None
  LabelNames,   \* names that attributes give to nets
  PackagePins,  \* pairs of a package and a pin number
  NoPackage,    \* the package pin of a component without refdes=
  MaxNets,      \* how many Net objects there may be
  Designs       \* what the sheets contain

Pins == 1..NumPins
NetIds == 1..MaxNets
NoNet == 0

Label == [net : LocalNets, name : LabelNames, from_netattrib : BOOLEAN]
Link == [pin : Pins, ports : SUBSET Pins]

(* labels    the names in the order in which they are considered           *)
(* space     the namespace of the sheet of a net piece                     *)
(* local_net, segments   the net piece of a pin; pieces with net segments  *)
(* links     per pin of a composite component, in order: the pins of the   *)
(*           ports in its subsheets that have the name of its label        *)
(* graphical, package_pin   pins of graphical components; of packages      *)
(* flat, prefer_netname_attribute   options: a common namespace for names  *)
(*           (not) from net= attributes; netname= before net= attributes   *)
(* asserts   Python checks assertions (no -O)                              *)
Design ==
  [labels : Seq(Label), space : [LocalNets -> Spaces],
   local_net : [Pins -> LocalNets], segments : SUBSET LocalNets,
   links : Seq(Link), graphical : SUBSET Pins,
   package_pin : [Pins -> PackagePins \cup {NoPackage}],
   flat : [BOOLEAN -> BOOLEAN], prefer_netname_attribute : BOOLEAN,
   asserts : BOOLEAN]

ASSUME NetsAssumption ==
  /\ NumPins \in Nat /\ MaxNets \in Nat
  /\ NoSpace \notin Spaces /\ NoPackage \notin PackagePins
  /\ \A d \in Designs : d \in Design /\ Len(d.labels) + NumPins <= MaxNets

VARIABLES
  design,          \* the design, which does not change
  phase, at,       \* the loop that is running, and its next round
  created,         \* the number of Net objects there are
  nets,            \* netlist.nets
  net,             \* per net piece: LocalNet.net, or NoNet
  local_nets,      \* per net: its net pieces
  names,           \* per net: its names, by origin
  net_dict,        \* the net of a name
  title,           \* per net: namespace and unmangled_name
  counter,         \* unnamed_net_bus_counter[False] and unnamed_pin_counter
  is_unconnected,  \* nets with is_unconnected_pin
  component_pins,  \* per net: its pins
  connections,     \* per net: its package pins
  package_net      \* per package pin: its net, or NoNet

naming == <<names, net_dict, title, counter>>
packaging == <<connections, package_net>>
vars == <<design, phase, at, created, nets, net, local_nets, naming,
          is_unconnected, component_pins, packaging>>

Kinds == {"unnamed_net", "unconnected_pin-"}
GeneratedNames == Kinds \X Nat
QNames == (Spaces \cup {NoSpace}) \X (LabelNames \cup GeneratedNames)
NoTitle == << >>

Init ==
  /\ design \in Designs
  /\ phase = "names" /\ at = 1
  /\ created = 0 /\ nets = {}
  /\ net = [l \in LocalNets |-> NoNet]
  /\ local_nets = [n \in NetIds |-> {}]
  /\ names = [n \in NetIds |-> [f \in BOOLEAN |-> {}]]
  /\ net_dict = [q \in {} |-> NoNet]
  /\ title = [n \in NetIds |-> NoTitle]
  /\ counter = [k \in Kinds |-> 1]
  /\ is_unconnected = {}
  /\ component_pins = [n \in NetIds |-> {}]
  /\ connections = [n \in NetIds |-> {}]
  /\ package_net = [a \in PackagePins |-> NoNet]

-----------------------------------------------------------------------------
(* Net.merge_into, for all nets of the set gone.                           *)

\* What the nets of gone have, dst gets.
Moved(f, gone, dst) ==
  [n \in NetIds |-> IF n = dst THEN f[n] \cup UNION {f[g] : g \in gone}
                    ELSE IF n \in gone THEN {} ELSE f[n]]

MovedNames(nm, gone, dst) ==
  [n \in NetIds |-> [f \in BOOLEAN |->
     IF n = dst THEN nm[n][f] \cup UNION {nm[g][f] : g \in gone}
     ELSE IF n \in gone THEN {} ELSE nm[n][f]]]

\* Mutant: the net pieces are handed over but not told so.
NotRedirected(lnets, gone, dst) == net
Redirected(lnets, gone, dst) ==
  [l \in LocalNets |-> IF l \in UNION {lnets[g] : g \in gone} THEN dst ELSE net[l]]

-----------------------------------------------------------------------------
(* Naming nets (gaf.netlist.net.postproc_instances).                       *)

QName(d, lab) ==
  <<IF d.flat[lab.from_netattrib] THEN NoSpace ELSE d.space[lab.net], lab.name>>

NamesOf(nm, n) == nm[n][FALSE] \cup nm[n][TRUE]

\* Mutant: names of the net that was merged still lead to it.
RenamedOnlyOne(dict, q, n, moved, dst) ==
  [x \in DOMAIN dict \cup {q} |-> IF x = q THEN dst ELSE dict[x]]
\* The dictionary with q for the net n, after dst took over the names moved.
Renamed(dict, q, n, moved, dst) ==
  [x \in DOMAIN dict \cup {q} |->
     IF x \in moved THEN dst ELSE IF x = q THEN n ELSE dict[x]]

(* A name of a net piece: the net of that name, a new one if there is none,*)
(* and the net that the piece has already, become one, the older of them.  *)
NameNet ==
  /\ phase = "names" /\ at <= Len(design.labels)
  /\ LET lab == design.labels[at]
         l == lab.net
         q == QName(design, lab)
         n == IF q \in DOMAIN net_dict THEN net_dict[q] ELSE created + 1
         dst == IF net[l] = NoNet \/ n <= net[l] THEN n ELSE net[l]
         gone == {n, net[l]} \ {dst, NoNet}
         named == [names EXCEPT ![n][lab.from_netattrib] = @ \cup {q}]
         joined == [local_nets EXCEPT ![n] = @ \cup (IF net[l] = NoNet THEN {l} ELSE {})]
     IN  /\ created' = IF q \in DOMAIN net_dict THEN created ELSE n
         /\ nets' = (nets \cup {n}) \ gone
         /\ net' = [Redirected(joined, gone, dst) EXCEPT
                      ![l] = IF net[l] = NoNet THEN n ELSE @]
         /\ local_nets' = Moved(joined, gone, dst)
         /\ names' = MovedNames(named, gone, dst)
         /\ net_dict' = Renamed(net_dict, q, n, UNION {NamesOf(named, g) : g \in gone}, dst)
  /\ at' = at + 1
  /\ UNCHANGED <<design, phase, title, counter, is_unconnected, component_pins, packaging>>

\* The names from which the one that is shown is taken.
Preferred(n) ==
  LET prio == ~design.prefer_netname_attribute
  IN  IF names[n][prio] # {} THEN names[n][prio] ELSE names[n][~prio]

(* Of several names the code takes the last in its list, with a warning.   *)
PrioritizeNames ==
  /\ phase = "names" /\ at = Len(design.labels) + 1
  /\ \E pick \in {f \in [nets -> UNION {Preferred(n) : n \in nets}] :
                    \A n \in nets : f[n] \in Preferred(n)} :
       title' = [n \in NetIds |-> IF n \in nets THEN pick[n] ELSE NoTitle]
  /\ phase' = "pins" /\ at' = 1
  /\ UNCHANGED <<design, created, nets, net, local_nets, names, net_dict, counter,
                 is_unconnected, component_pins, packaging>>

PinsOf(l) == {p \in Pins : design.local_net[p] = l}

\* Mutant: the name is not looked up.
NumberUnchecked(space, kind, k) == k = counter[kind]
\* The first number from the counter that makes a name nobody has.
Number(space, kind, k) ==
  /\ k \in Nat /\ k >= counter[kind]
  /\ <<space, <<kind, k>>>> \notin DOMAIN net_dict
  /\ \A j \in counter[kind]..k - 1 : <<space, <<kind, j>>>> \in DOMAIN net_dict

(* A pin of a net piece that has no net yet gets a net with a new name.    *)
NamePin ==
  /\ phase = "pins" /\ at <= NumPins
  /\ LET l == design.local_net[at]
         n == created + 1
         kind == IF PinsOf(l) = {at} /\ l \notin design.segments
                   THEN "unconnected_pin-" ELSE "unnamed_net"
         space == IF design.flat[FALSE] THEN NoSpace ELSE design.space[l]
     IN  \/ /\ net[l] # NoNet
            /\ UNCHANGED <<created, nets, net, local_nets, naming, is_unconnected>>
         \/ /\ net[l] = NoNet
            /\ created' = n
            /\ nets' = nets \cup {n}
            /\ net' = [net EXCEPT ![l] = n]
            /\ local_nets' = [local_nets EXCEPT ![n] = {l}]
            /\ is_unconnected' = IF kind = "unnamed_net" THEN is_unconnected
                                 ELSE is_unconnected \cup {n}
            /\ \E k \in counter[kind]..counter[kind] + Cardinality(DOMAIN net_dict) :
                 /\ Number(space, kind, k)
                 /\ counter' = [counter EXCEPT ![kind] = k + 1]
                 /\ title' = [title EXCEPT ![n] = <<space, <<kind, k>>>>]
                 /\ net_dict' = Renamed(net_dict, <<space, <<kind, k>>>>, n, {}, n)
            /\ UNCHANGED names
  /\ at' = at + 1
  /\ UNCHANGED <<design, phase, component_pins, packaging>>

(* Nets with a pin are kept, and get their pins.  The assertion sorts them,*)
(* and a Net cannot be compared with another one in Python 3.              *)
ReorderNets ==
  /\ phase = "pins" /\ at = NumPins + 1
  /\ LET used == {net[design.local_net[p]] : p \in Pins}
     IN  IF design.asserts /\ Cardinality(used) > 1
           THEN phase' = "TypeError" /\ UNCHANGED <<at, nets, component_pins>>
           ELSE /\ phase' = "ports" /\ at' = 1
                /\ nets' = used
                /\ component_pins' = [n \in NetIds |->
                     {p \in Pins : net[design.local_net[p]] = n}]
  /\ UNCHANGED <<design, created, net, local_nets, naming, is_unconnected, packaging>>

-----------------------------------------------------------------------------
(* Subsheets (gaf.netlist.pp_hierarchy.postproc_instances).                *)

\* Mutant: the pins stay with the net that is merged.
PinsLeftBehind(cpins, gone, dst) == cpins
PinsMoved(cpins, gone, dst) == Moved(cpins, gone, dst)

(* A pin of a composite component and the ports in its subsheets: their    *)
(* nets become one, and the pins themselves are removed.                   *)
ConnectPorts ==
  /\ phase = "ports" /\ at <= Len(design.links)
  /\ LET link == design.links[at]
         dest == net[design.local_net[link.pin]]
         gone == {net[design.local_net[p]] : p \in link.ports} \ {dest}
     IN  /\ nets' = nets \ gone
         /\ net' = Redirected(local_nets, gone, dest)
         /\ local_nets' = Moved(local_nets, gone, dest)
         /\ names' = MovedNames(names, gone, dest)
         /\ component_pins' = [PinsMoved(component_pins, gone, dest) EXCEPT
                                 ![dest] = @ \ ({link.pin} \cup link.ports)]
  /\ at' = at + 1
  /\ UNCHANGED <<design, phase, created, net_dict, title, counter, is_unconnected, packaging>>

-----------------------------------------------------------------------------
(* Packages and the nets that are kept.                                    *)

\* Pins of components that are still in the netlist.
Hierarchical(d) == UNION {{d.links[i].pin} \cup d.links[i].ports : i \in DOMAIN d.links}
Remaining(d) == Pins \ (Hierarchical(d) \cup d.graphical)
PinsOfPackagePin(d, a) == {p \in Remaining(d) : d.package_pin[p] = a}

\* Mutant: components without refdes= are counted as well.
PackagePinsWithoutRefdes(S) == {design.package_pin[p] : p \in S}
PackagePinsOf(S) == {design.package_pin[p] : p \in S} \ {NoPackage}

First(S) == CHOOSE p \in S : \A q \in S : p <= q

\* The nets of the pins in S other than unconnected pins, or all if there is no other.
Candidates(S) ==
  LET connected == {p \in S : net[design.local_net[p]] \notin is_unconnected}
  IN  IF connected # {} THEN connected ELSE S

\* Mutant: a net that began as an unconnected pin is dropped whatever it connects now.
KeptNeverUnconnected(n, conns) == n \notin is_unconnected
\* An unconnected pin of a subsheet may connect several pins inside of it.
Kept(n, conns) == n \in is_unconnected => Cardinality(conns[n]) > 1

(* pp_graphical.postproc_instances and package.postproc_instances, and then*)
(* the nets of unconnected pins are removed.                               *)
Package ==
  /\ phase = "ports" /\ at = Len(design.links) + 1
  /\ component_pins' = [n \in NetIds |-> component_pins[n] \ design.graphical]
  /\ connections' = [n \in NetIds |-> PackagePinsOf(component_pins'[n])]
  /\ package_net' = [a \in PackagePins |->
       LET S == PinsOfPackagePin(design, a)
       IN  IF S = {} THEN NoNet ELSE net[design.local_net[First(Candidates(S))]]]
  /\ nets' = {n \in nets : Kept(n, connections')}
  /\ phase' = "done"
  /\ UNCHANGED <<design, at, created, net, local_nets, naming, is_unconnected>>

Finished ==
  /\ phase \in {"done", "TypeError"}
  /\ UNCHANGED vars

Next == NameNet \/ PrioritizeNames \/ NamePin \/ ReorderNets \/ ConnectPorts \/ Package
        \/ Finished

Spec == Init /\ [][Next]_vars
-----------------------------------------------------------------------------
(* Properties.                                                             *)

TypeOK ==
  /\ design \in Design
  /\ phase \in {"names", "pins", "ports", "done", "TypeError"}
  /\ at \in Nat \ {0}
  /\ created \in 0..MaxNets
  /\ nets \subseteq 1..created
  /\ net \in [LocalNets -> 0..created]
  /\ local_nets \in [NetIds -> SUBSET LocalNets]
  /\ names \in [NetIds -> [BOOLEAN -> SUBSET QNames]]
  /\ DOMAIN net_dict \subseteq QNames /\ net_dict \in [DOMAIN net_dict -> NetIds]
  /\ title \in [NetIds -> QNames \cup {NoTitle}]
  /\ counter \in [Kinds -> Nat]
  /\ is_unconnected \subseteq NetIds
  /\ component_pins \in [NetIds -> SUBSET Pins]
  /\ connections \in [NetIds -> SUBSET PackagePins]
  /\ package_net \in [PackagePins -> NetIds \cup {NoNet}]

(* The net of a name has that name, and a name of a net leads to it; a net *)
(* that was merged into another one has nothing any more (the assertions   *)
(* "net_dict[name] == src" and "local_net.net == self").                   *)
NamesLeadToNets ==
  /\ phase = "names" =>
       /\ \A q \in DOMAIN net_dict : net_dict[q] \in nets /\ q \in NamesOf(names, net_dict[q])
       /\ \A n \in nets : \A q \in NamesOf(names, n) : q \in DOMAIN net_dict /\ net_dict[q] = n
  /\ \A n \in 1..created : local_nets[n] = {l \in LocalNets : net[l] = n}

\* The names and links considered so far.
LabelsDone == IF phase = "names" THEN 1..at - 1 ELSE DOMAIN design.labels
LinksDone == IF phase = "ports" THEN 1..at - 1
             ELSE IF phase = "done" THEN DOMAIN design.links ELSE {}

(* A set of net pieces that contains with a piece those which share a name *)
(* or a port with it.  Two pieces are connected if no such set divides     *)
(* them.                                                                   *)
Closed(d, S, I, J) ==
  /\ \A i, j \in I : QName(d, d.labels[i]) = QName(d, d.labels[j])
                       => (d.labels[i].net \in S <=> d.labels[j].net \in S)
  /\ \A j \in J : \A p \in d.links[j].ports :
       d.local_net[d.links[j].pin] \in S <=> d.local_net[p] \in S
Undivided == {S \in SUBSET LocalNets : Closed(design, S, LabelsDone, LinksDone)}
Connected(US, l, m) == \A S \in US : l \in S <=> m \in S

(* Two net pieces are in one net if and only if names and ports connect    *)
(* them, over any number of other pieces, in whatever order the names came *)
(* and the nets were merged.                                               *)
NetsAreComponents ==
  LET US == Undivided
  IN  \A l, m \in LocalNets : net[l] # NoNet => (net[l] = net[m] <=> Connected(US, l, m))

(* No two nets have the same name in the same namespace, also if a user    *)
(* gives a net a name as it is generated for unnamed ones.                 *)
TitlesUnique ==
  phase \in {"pins", "ports", "done"} =>
    \A n, m \in nets : title[n] = title[m] => n = m

(* No connection is lost with the nets of unconnected pins ("these need to *)
(* be preserved or the internal connections in the subsheet will be lost").*)
NoConnectionLost ==
  phase = "done" =>
    LET US == Undivided
    IN  \A a, b \in PackagePins : \A p \in PinsOfPackagePin(design, a) :
          \A q \in PinsOfPackagePin(design, b) :
            a # b /\ Connected(US, design.local_net[p], design.local_net[q])
              => \E n \in nets : {a, b} \subseteq connections[n]

(* The net of a package pin is one that lists it, unless it has no net left*)
(* or an error was reported because it is connected to several.            *)
PackagePinsAgree ==
  phase = "done" =>
    \A n \in nets : \A a \in connections[n] :
      \/ package_net[a] = n
      \/ \E m \in nets : m # n /\ a \in connections[m]

(* The netlister is not stopped by its own assertion.                      *)
AssertionHolds == phase # "TypeError"
=============================================================================
