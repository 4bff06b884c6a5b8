-------------------------- MODULE XornConnections ---------------------------
(***************************************************************************)
(* How the Xorn netlister finds out which net segments and pins of one     *)
(* sheet are connected (ConnectionMap in xorn/src/gaf/netlist/conn.py) and *)
(* divides them into visually connected pieces (traverse_net and Schematic *)
(* in blueprint.py).                                                       *)
(*                                                                         *)
(* A sheet is a sequence of nets and components.  A net instance is a pair:*)
(* of the index of a net and 0, or of the index of a component and the     *)
(* number of a pin in its symbol.  Components with the same library symbol *)
(* share its objects.  All net objects in symbols are pins: making a       *)
(* Component stops the netlister if one is not ("assert pin_data.is_pin"). *)
(* ConnectionMap.goto is called once for a map, when it is made.           *)
(***************************************************************************)
EXTENDS Integers, FiniteSets, Sequences

CONSTANTS
  Symbols,         \* symbols, by the revision that contains their objects
  SheetRevision,   \* the revision of the sheet
  SymbolPins,      \* per symbol, the sequence of its objects
  Sheets,          \* the sheets that are read
  RecursionLimit   \* how deep function calls may be nested

(* The data of a net object: an end, the distance to the other end, and    *)
(* whether it is a bus (or bus pin) and a pin.                             *)
NetData == [x : Int, y : Int, width : Int, height : Int, is_bus : BOOLEAN, is_pin : BOOLEAN]
Component == [x : Int, y : Int, angle : {0, 90, 180, 270}, mirror : BOOLEAN, symbol : Symbols]

ASSUME ConnectionsAssumption ==
  /\ SheetRevision \notin Symbols
  /\ SymbolPins \in [Symbols -> Seq(NetData)]
  /\ \A s \in Symbols : \A j \in DOMAIN SymbolPins[s] : SymbolPins[s][j].is_pin
  /\ Sheets \subseteq Seq(NetData \cup Component)
  /\ RecursionLimit \in Nat

VARIABLES
  sheet,        \* the sheet, which does not change
  phase,        \* the loop that is running
  todo,         \* instances that loop has yet to consider
  connections,  \* ConnectionMap.connections
  group,        \* netsY_by_instance: the number of the piece, or 0
  groups,       \* the number of pieces there are
  stack         \* per call of traverse_net: the instances that it has yet to call itself for

vars == <<sheet, phase, todo, connections, group, groups, stack>>

IsComponent(i) == "symbol" \in DOMAIN sheet[i]

\* all_net_instances_in_revision
Instances ==
  {<<i, 0>> : i \in {k \in DOMAIN sheet : ~IsComponent(k)}} \cup
  UNION {{<<i, j>> : j \in DOMAIN SymbolPins[sheet[i].symbol]} :
           i \in {k \in DOMAIN sheet : IsComponent(k)}}

InSymbol(n) == n[2] # 0
Data(n) == IF InSymbol(n) THEN SymbolPins[sheet[n[1]].symbol][n[2]] ELSE sheet[n[1]]
\* The object of an instance (ObjectProxy), by which the code compares instances.
Ob(n) == IF InSymbol(n) THEN <<sheet[n[1]].symbol, n[2]>> ELSE <<SheetRevision, n[1]>>

Init ==
  /\ sheet \in Sheets
  /\ phase = "connect" /\ todo = Instances
  /\ connections = {}
  /\ group = [n \in Instances |-> 0] /\ groups = 0
  /\ stack = << >>

-----------------------------------------------------------------------------
(* Geometry.                                                               *)

Point(px, py) == [x |-> px, y |-> py]

\* A point of a symbol, in the sheet.
Rotated(angle, p) ==
  CASE angle = 0 -> p
    [] angle = 90 -> Point(-p.y, p.x)
    [] angle = 180 -> Point(-p.x, -p.y)
    [] angle = 270 -> Point(p.y, -p.x)
Placed(c, p) ==
  LET r == Rotated(c.angle, Point(IF c.mirror THEN -p.x ELSE p.x, p.y))
  IN  Point(r.x + c.x, r.y + c.y)

\* endpoints: the two ends of an instance, 0 and 1.
Endpoint(n, end) ==
  LET d == Data(n)
      p == IF end = 0 THEN Point(d.x, d.y) ELSE Point(d.x + d.width, d.y + d.height)
  IN  IF InSymbol(n) THEN Placed(sheet[n[1]], p) ELSE p

\* Only one end of a pin can be connected.
Ends(n) == IF Data(n).is_pin THEN {0} ELSE {0, 1}

Between(v, a, b) == (a < v /\ v < b) \/ (b < v /\ v < a)

\* s_conn_check_midpoint: horizontal or vertical, and strictly between the ends.
OnMiddle(n, p) ==
  LET a == Endpoint(n, 0)
      b == Endpoint(n, 1)
  IN  \/ a.x = p.x /\ b.x = p.x /\ Between(p.y, a.y, b.y)
      \/ a.y = p.y /\ b.y = p.y /\ Between(p.x, a.x, b.x)

-----------------------------------------------------------------------------
(* Connections.                                                            *)

(* Inside of symbols, only pins can be connected.  The exception for two   *)
(* objects of the same symbol holds for the first one only, since "or"     *)
(* binds less than "and".                                                  *)
CanConnect(n, m) ==
  /\ InSymbol(n) /\ InSymbol(m) => (n[1] = m[1] \/ Data(n).is_pin) /\ Data(m).is_pin
  /\ InSymbol(n) /\ ~InSymbol(m) => Data(n).is_pin
  /\ ~InSymbol(n) /\ InSymbol(m) => Data(m).is_pin

Connection(type, n, e, m, f) ==
  [type |-> type, from |-> n, whichend0 |-> e, to |-> m, whichend1 |-> f]
Reversed(c) == Connection(c.type, c.to, c.whichend1, c.from, c.whichend0)

EndpointConnections(n, m) ==
  {Connection("endpoint", n, x[1], m, x[2]) :
     x \in {y \in Ends(n) \X Ends(m) : /\ Endpoint(n, y[1]) = Endpoint(m, y[2])
                                       /\ Data(n).is_bus = Data(m).is_bus}}

\* Nets may end in the middle of buses, otherwise both must be buses or none.
MidpointConnections(n, m) ==
  {Connection("midpoint", n, e, m, -1) :
     e \in {y \in Ends(n) : /\ ~Data(m).is_pin /\ OnMiddle(m, Endpoint(n, y))
                            /\ \/ ~Data(n).is_pin /\ ~Data(n).is_bus /\ Data(m).is_bus
                               \/ Data(n).is_bus = Data(m).is_bus}}

\* Mutant: connections are only entered for the instance that is updated.
FoundOneWay(n) ==
  UNION {EndpointConnections(n, m) \cup MidpointConnections(n, m) :
           m \in {x \in Instances : Ob(x) # Ob(n) /\ CanConnect(n, x)}}
\* s_conn_update_line_object: the connections of n, in both directions.
Found(n) ==
  LET found == UNION {EndpointConnections(n, m) \cup MidpointConnections(n, m) :
                        m \in {x \in Instances : Ob(x) # Ob(n) /\ CanConnect(n, x)}}
  IN  found \cup {Reversed(c) : c \in found}

(* The second loop of ConnectionMap.goto over the added instances; the first*)
(* one has put all of them in the dictionaries where others look for them. *)
Connect ==
  /\ phase = "connect"
  /\ \E n \in todo :
       /\ connections' = connections \cup Found(n)
       /\ IF todo = {n} THEN phase' = "traverse" /\ todo' = Instances
                        ELSE todo' = todo \ {n} /\ UNCHANGED phase
  /\ UNCHANGED <<sheet, group, groups, stack>>

-----------------------------------------------------------------------------
(* Visually connected pieces.                                              *)

\* Mutant: who ends on the middle of an instance is not connected to it.
ConnectedToEnds(n) == {c.to : c \in {x \in connections : x.from = n /\ x.whichend0 # -1}}
connected_to(n) == {c.to : c \in {x \in connections : x.from = n}}

Visited(n) == group[n] # 0

\* Mutant: the new piece is not counted yet.
NextPiece == groups + 1
CurrentPiece == groups

\* The loop over all instances: one that has no piece yet begins a new one.
StartPiece ==
  /\ phase = "traverse" /\ stack = << >>
  /\ \E n \in todo :
       /\ todo' = todo \ {n}
       /\ IF group[n] # 0 THEN UNCHANGED <<groups, stack>>
                          ELSE groups' = groups + 1 /\ stack' = <<{n}>>
  /\ UNCHANGED <<sheet, phase, connections, group>>

\* A call of traverse_net.
Traverse ==
  /\ phase = "traverse" /\ stack # << >> /\ Head(stack) # {}
  /\ \E n \in Head(stack) :
       LET rest == <<Head(stack) \ {n}>> \o Tail(stack)
       IN  \/ /\ Len(stack) > RecursionLimit
              /\ phase' = "RecursionError"
              /\ UNCHANGED <<group, stack>>
           \/ /\ Len(stack) <= RecursionLimit /\ Visited(n)
              /\ stack' = rest
              /\ UNCHANGED <<phase, group>>
           \/ /\ Len(stack) <= RecursionLimit /\ ~Visited(n)
              /\ group' = [group EXCEPT ![n] = CurrentPiece]
              /\ stack' = <<connected_to(n)>> \o rest
              /\ UNCHANGED phase
  /\ UNCHANGED <<sheet, todo, connections, groups>>

\* It returns.
Return ==
  /\ phase = "traverse" /\ stack # << >> /\ Head(stack) = {}
  /\ stack' = Tail(stack)
  /\ UNCHANGED <<sheet, phase, todo, connections, group, groups>>

Piece(k) == {n \in Instances : group[n] = k}

\* Net.__init__ for each piece: "assert ob.data().is_bus == self.is_bus".
MakeNets ==
  /\ phase = "traverse" /\ stack = << >> /\ todo = {}
  /\ phase' = IF \A k \in 1..groups : \A n, m \in Piece(k) : Data(n).is_bus = Data(m).is_bus
                THEN "done" ELSE "AssertionError"
  /\ UNCHANGED <<sheet, todo, connections, group, groups, stack>>

Finished ==
  /\ phase \in {"done", "AssertionError", "RecursionError"}
  /\ UNCHANGED vars

Next == Connect \/ StartPiece \/ Traverse \/ Return \/ MakeNets \/ Finished

Spec == Init /\ [][Next]_vars
-----------------------------------------------------------------------------
(* Properties.                                                             *)

TypeOK ==
  /\ sheet \in Seq(NetData \cup Component)
  /\ phase \in {"connect", "traverse", "done", "AssertionError", "RecursionError"}
  /\ todo \subseteq Instances
  /\ \A c \in connections : c.from \in Instances /\ c.to \in Instances
  /\ group \in [Instances -> 0..groups] /\ groups \in Nat
  /\ stack \in Seq(SUBSET Instances)

(* Where two instances touch, described without regard to how the code     *)
(* looks for it: an end that connects is at an end of the other one that   *)
(* connects, or within the other one.                                      *)
Touching(n, m) ==
  \E e \in Ends(n) :
    \/ /\ Data(n).is_bus = Data(m).is_bus
       /\ \/ \E f \in Ends(m) : Endpoint(n, e) = Endpoint(m, f)
          \/ ~Data(m).is_pin /\ OnMiddle(m, Endpoint(n, e))
    \/ /\ ~Data(n).is_pin /\ ~Data(n).is_bus /\ ~Data(m).is_pin /\ Data(m).is_bus
       /\ OnMiddle(m, Endpoint(n, e))
Touch(n, m) == Touching(n, m) \/ Touching(m, n)

TouchOther(n, m) == Ob(n) # Ob(m) /\ Touch(n, m)

(* Every place where two objects touch is found, from whichever of the two *)
(* it can be seen, although objects are only looked for at their ends; and *)
(* no other place.                                                         *)
ConnectionsAreTouches ==
  phase \in {"done", "AssertionError"} =>
    \A n, m \in Instances :
      (\E c \in connections : c.from = n /\ c.to = m) <=> TouchOther(n, m)

(* A piece contains with an instance those which are connected to it, and  *)
(* no set that does so divides it: the pieces are the connected components,*)
(* in whatever order instances are visited.                                *)
PiecesAreComponents ==
  phase \in {"done", "AssertionError"} =>
    /\ \A c \in connections : group[c.from] = group[c.to]
    /\ \A S \in SUBSET Instances :
         (\A c \in connections : c.from \in S <=> c.to \in S)
           => \A n, m \in Instances : group[n] = group[m] => (n \in S <=> m \in S)

(* Loops do not keep the traversal going: it needs no more nested calls    *)
(* than one for each instance and one that finds it has been visited.      *)
DepthBounded == phase = "RecursionError" => RecursionLimit <= Cardinality(Instances)

(* Instances at the same place are connected, also if they are the same pin*)
(* of two components with the same symbol ("searches for all geometrical   *)
(* conections ... to all other connectable objects in the revision").      *)
SamePinsConnected ==
  phase = "done" => \A n, m \in Instances : Touch(n, m) => group[n] = group[m]

(* A piece does not contain nets and buses.                                *)
BusesSeparate == phase # "AssertionError"
=============================================================================
