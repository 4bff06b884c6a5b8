------------------------ MODULE MCXornConnections ---------------------------
(* Sheets of up to four objects for XornConnections.                       *)
EXTENDS XornConnections, TLC

Net(x, y, w, h, bus) ==
  [x |-> x, y |-> y, width |-> w, height |-> h, is_bus |-> bus, is_pin |-> FALSE]
Pin(x, y, w, bus) ==
  [x |-> x, y |-> y, width |-> w, height |-> 0, is_bus |-> bus, is_pin |-> TRUE]
Place(x, y, angle, mirror, s) ==
  [x |-> x, y |-> y, angle |-> angle, mirror |-> mirror, symbol |-> s]

\* A resistor from the library, an embedded copy of it, and a symbol with a bus pin.
MCSymbols == {"R", "embedded R", "B"}
MCSymbolPins ==
  [s \in MCSymbols |-> IF s = "B" THEN <<Pin(0, 0, 1, TRUE)>>
                       ELSE <<Pin(0, 0, 1, FALSE), Pin(2, 0, -1, FALSE)>>]

Nets ==
  <<Net(0, 0, 2, 0, FALSE), Net(0, 0, 0, 2, FALSE), Net(0, 2, 2, -2, FALSE),
    Net(1, 0, 0, 2, FALSE), Net(1, 0, 0, 0, FALSE), Net(2, 2, -2, 0, FALSE),
    Net(0, 0, 2, 0, TRUE), Net(1, 2, 0, -2, TRUE)>>
Components ==
  <<Place(0, 0, 0, FALSE, "R"), Place(2, 0, 0, TRUE, "R"), Place(0, 0, 90, FALSE, "R"),
    Place(2, 2, 180, FALSE, "R"), Place(1, 2, 270, TRUE, "R"),
    Place(0, 0, 0, FALSE, "embedded R"), Place(1, 0, 90, FALSE, "B"),
    Place(2, 0, 180, TRUE, "B")>>
Catalog == Nets \o Components

Choice == DOMAIN Catalog
MCSheets ==
  {<<Catalog[i], Catalog[j]>> : i, j \in Choice} \cup
  {<<Catalog[x[1]], Catalog[x[2]], Catalog[x[3]]>> :
     x \in {y \in Choice \X Choice \X Choice : y[1] <= y[2] /\ y[2] < y[3]}} \cup
  {<<Catalog[x[1]], Catalog[x[2]], Catalog[x[3]], Catalog[x[4]]>> :
     x \in {y \in Choice \X Choice \X Choice \X Choice :
              y[1] < y[2] /\ y[2] < y[3] /\ y[3] < y[4] /\ y[3] <= Len(Nets) /\ y[4] # 2}}
=============================================================================
