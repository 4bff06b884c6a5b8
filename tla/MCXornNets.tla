----------------------------- MODULE MCXornNets -----------------------------
(* Small designs for XornNets: a sheet with a component and a composite    *)
(* component, whose subsheet has ports and another component.              *)
EXTENDS XornNets, TLC, SequencesExt

CONSTANT a           \* a name given by an attribute
Unnamed1 == <<"unnamed_net", 1>>

MCLocalNets == 1..4    \* two in the sheet, two in the subsheet
MCSpace == <<"top", "top", "sub", "sub">>

\* The names of one net piece: netname= attributes come first.
NamesGiven(S) ==
  {<< >>} \cup {<<x>> : x \in S \X BOOLEAN}
    \cup {<<x, y>> : x \in S \X {FALSE}, y \in S \X BOOLEAN}
    \cup {<<x, y>> : x \in S \X {TRUE}, y \in S \X {TRUE}}
Labels(given) ==
  FlattenSeq([l \in MCLocalNets |->
    [i \in DOMAIN given[l] |->
       [net |-> l, name |-> given[l][i][1], from_netattrib |-> given[l][i][2]]]])
Size(given) == Len(given[1]) + Len(given[2]) + Len(given[3]) + Len(given[4])

\* Pin 1: R1.  Pins 2, 3: composite U1.  Pins 4, 5: ports of its subsheet.
\* Pins 6, 7, 8: components in the subsheet.
FlatPins == <<1, 1, 2, 3, 3, 3, 4, 4>>
OwnPackagePin ==
  <<"R1.1", NoPackage, NoPackage, NoPackage, NoPackage, "Q1.1", "Q1.2", "Q2.1">>

\* Up to three names, or four from netname= attributes, no hierarchy.
Named ==
  {[labels |-> Labels(g), space |-> MCSpace, local_net |-> FlatPins, segments |-> {},
    links |-> << >>, graphical |-> {}, package_pin |-> OwnPackagePin,
    flat |-> fl, prefer_netname_attribute |-> (Size(g) = 3), asserts |-> (Size(g) = 0)] :
      g \in {x \in [MCLocalNets -> NamesGiven({a, Unnamed1})] :
               /\ Size(x) <= 4
               /\ \A l \in MCLocalNets : Len(x[l]) < 2 \/ x[l][1] # x[l][2]
               /\ Size(x) = 4 => \A l \in MCLocalNets : \A i \in DOMAIN x[l] : ~x[l][i][2]},
      fl \in [BOOLEAN -> BOOLEAN]}

\* Up to one name, any connection of the pins to the net pieces of their sheet.
Hierarchies ==
  {[labels |-> Labels(g), space |-> MCSpace,
    local_net |-> <<x[1], 1, x[2], 3, x[3], 4, x[4], 3>>, segments |-> seg,
    links |-> <<[pin |-> 2, ports |-> IF x[5] = 1 THEN {4} ELSE {4, 5}],
                [pin |-> 3, ports |-> IF x[5] = 1 THEN {5} ELSE {}]>>,
    graphical |-> IF x[6] = 1 THEN {} ELSE {1},
    package_pin |-> [OwnPackagePin EXCEPT ![7] = IF x[7] = 1 THEN "Q1.1" ELSE @],
    flat |-> [f \in BOOLEAN |-> fl], prefer_netname_attribute |-> FALSE,
    asserts |-> FALSE] :
      g \in {y \in [MCLocalNets -> {<< >>, <<<<a, FALSE>>>>, <<<<Unnamed1, TRUE>>>>}] :
               Size(y) <= 1},
      x \in {1, 2} \X {1, 2} \X {3, 4} \X {3, 4} \X {1, 2} \X {1, 2} \X {1, 2},
      seg \in {{}, {1, 2, 3, 4}},
      fl \in BOOLEAN}

MCDesigns == Named \cup Hierarchies
MCLabelNames == {a, Unnamed1}
MCSpaces == {"top", "sub"}
MCPackagePins == {"R1.1", "Q1.1", "Q1.2", "Q2.1"}
=============================================================================
