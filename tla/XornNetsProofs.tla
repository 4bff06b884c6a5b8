--------------------------- MODULE XornNetsProofs ---------------------------
(***************************************************************************)
(* What holds of the netlister for any designs: that names lead to nets,   *)
(* that nets are the connected components of net pieces under names and    *)
(* ports, that titles are unique, and that no connection is lost.          *)
(*                                                                         *)
(* NetsInv says what each loop relies on of the loops before it: while     *)
(* names are given, the dictionary leads from every name considered so far *)
(* to the net of its piece, and holds no other name; afterwards titles     *)
(* are among its names; when ports are connected, every pin has a net.     *)
(* Components are proved from both sides: the pieces of one net are not    *)
(* closed off from those they share a name or port with (LabelsAgree,      *)
(* LinksAgree), and no closed set divides them (Together).                 *)
(***************************************************************************)
EXTENDS XornNets, FiniteSetTheorems, WellFoundedInduction, TLAPS

-----------------------------------------------------------------------------
(* The inductive invariant.                                                *)

\* The rounds of each loop, which bound the number of nets.
RoundsOK ==
  /\ design \in Designs
  /\ phase = "names" => at <= Len(design.labels) + 1 /\ created <= at - 1
  /\ phase = "pins" => at <= NumPins + 1 /\ created <= Len(design.labels) + at - 1
  /\ phase = "ports" => at <= Len(design.links) + 1

\* A net knows the pieces that know it.
PiecesListed == \A n \in NetIds : local_nets[n] = {l \in LocalNets : net[l] = n}

NameOf(i) == QName(design, design.labels[i])
NetOf(i) == net[design.labels[i].net]
NetOfPin(p) == net[design.local_net[p]]

\* While names are given, the dictionary has those considered and no other.
NamesLead ==
  phase = "names" =>
    /\ \A q \in DOMAIN net_dict : net_dict[q] \in nets /\ q \in NamesOf(names, net_dict[q])
    /\ \A n \in NetIds : \A q \in NamesOf(names, n) : q \in DOMAIN net_dict /\ net_dict[q] = n
    /\ \A i \in LabelsDone : NameOf(i) \in DOMAIN net_dict /\ NetOf(i) = net_dict[NameOf(i)]
    /\ \A q \in DOMAIN net_dict : \E i \in LabelsDone : q = NameOf(i)

LabelsAgree ==
  /\ \A i \in LabelsDone : NetOf(i) # NoNet
  /\ \A i, j \in LabelsDone : NameOf(i) = NameOf(j) => NetOf(i) = NetOf(j)

LinksAgree ==
  \A j \in LinksDone : \A p \in design.links[j].ports : NetOfPin(design.links[j].pin) = NetOfPin(p)

\* No closed set of pieces divides a net.
Together ==
  \A S \in SUBSET LocalNets : Closed(design, S, LabelsDone, LinksDone) =>
    \A l, m \in LocalNets : net[l] # NoNet /\ net[l] = net[m] => (l \in S <=> m \in S)

\* The nets that pieces have are on the list.
NetsListed ==
  /\ phase \in {"names", "pins"} => \A l \in LocalNets : net[l] # NoNet => net[l] \in nets
  /\ phase = "pins" => \A p \in 1..at - 1 : NetOfPin(p) # NoNet
  /\ phase \in {"ports", "done"} => \A p \in Pins : NetOfPin(p) # NoNet
  /\ phase = "ports" => \A p \in Pins : NetOfPin(p) \in nets

TitlesKnown ==
  phase \in {"pins", "ports", "done"} =>
    /\ \A n \in nets : title[n] \in DOMAIN net_dict
    /\ \A n, m \in nets : title[n] = title[m] => n = m

\* A net has its pins, other than those of the hierarchy.
PinsListed ==
  phase = "ports" =>
    \A p \in Pins \ Hierarchical(design) : p \in component_pins[NetOfPin(p)]

NetsInv ==
  /\ TypeOK /\ RoundsOK /\ PiecesListed /\ NamesLead /\ LabelsAgree /\ LinksAgree
  /\ Together /\ NetsListed /\ TitlesKnown /\ PinsListed /\ NoConnectionLost

-----------------------------------------------------------------------------
(* Finite sets.                                                            *)

\* The pin that comes first is one of them.
LEMMA FirstPin ==
  ASSUME NEW S \in SUBSET Pins, S # {}
  PROVE  First(S) \in S
<1> DEFINE R == OpToRel(<, Nat)
<1>1. IsWellFoundedOn(R, Nat)
  BY NatLessThanWellFounded, Zenon
<1>2. \A a, b \in Nat : a < b => <<a, b>> \in R
  BY SMT DEF OpToRel
<1>3. S \subseteq Nat
  BY NetsAssumption DEF Pins
<1> HIDE DEF R
<1>4. PICK x \in S : \A y \in S : ~ (<<y, x>> \in R)
  BY <1>1, <1>3, WFMin
<1>5. \A y \in S : x <= y
  <2> SUFFICES ASSUME NEW y \in S PROVE x <= y
    OBVIOUS
  <2>1. x \in Nat /\ y \in Nat /\ ~ (<<y, x>> \in R)
    BY <1>3, <1>4
  <2>2. ~ (y < x)
    BY <1>2, <2>1, Zenon
  <2> QED BY <2>1, <2>2
<1> QED BY <1>4, <1>5 DEF First

\* Two package pins of some pins are two of finitely many.
LEMMA TwoPackagePins ==
  ASSUME NEW d \in Design, NEW S \in SUBSET Pins,
         NEW a, NEW b, a # b,
         a \in {d.package_pin[p] : p \in S} \ {NoPackage},
         b \in {d.package_pin[p] : p \in S} \ {NoPackage}
  PROVE  Cardinality({d.package_pin[p] : p \in S} \ {NoPackage}) > 1
<1> DEFINE f == [p \in S |-> d.package_pin[p]]
           T == {d.package_pin[p] : p \in S}
           U == T \ {NoPackage}
<1>1. IsFiniteSet(Pins)
  BY NetsAssumption, FS_Interval DEF Pins
<1>2. IsFiniteSet(S)
  BY <1>1, FS_Subset
<1>3. f \in Surjection(S, T)
  BY DEF Surjection
<1>4. IsFiniteSet(T)
  <2> HIDE DEF f, T
  <2> QED BY <1>2, <1>3, FS_Surjection
<1>5. U \in SUBSET T /\ a \in U /\ b \in U
  OBVIOUS
<1> HIDE DEF T, U
<1>6. IsFiniteSet(U)
  BY <1>4, <1>5, FS_Subset
<1>7. IsFiniteSet({b}) /\ Cardinality({b}) = 1
  BY FS_Singleton
<1>8. IsFiniteSet({b} \cup {a}) /\ Cardinality({b} \cup {a}) = 2
  <2>1. a \notin {b}
    OBVIOUS
  <2>2. /\ IsFiniteSet({b} \cup {a})
        /\ Cardinality({b} \cup {a}) = IF a \in {b} THEN Cardinality({b}) ELSE Cardinality({b}) + 1
    BY <1>7, FS_AddElement
  <2> QED BY <1>7, <2>1, <2>2
<1>9. {b} \cup {a} \in SUBSET U
  BY <1>5
<1>10. Cardinality({b} \cup {a}) <= Cardinality(U) /\ Cardinality(U) \in Nat
  BY <1>6, <1>9, FS_Subset, FS_CardinalityType
<1> QED BY <1>8, <1>10 DEF U, T

-----------------------------------------------------------------------------
(* Designs.                                                                *)

LEMMA DesignKnown ==
  ASSUME design \in Designs
  PROVE  /\ design \in Design
         /\ design.labels \in Seq(Label) /\ design.links \in Seq(Link)
         /\ Len(design.labels) \in Nat /\ Len(design.links) \in Nat
         /\ DOMAIN design.labels = 1..Len(design.labels)
         /\ DOMAIN design.links = 1..Len(design.links)
         /\ Len(design.labels) + NumPins <= MaxNets
         /\ \A i \in 1..Len(design.labels) :
              /\ design.labels[i].net \in LocalNets
              /\ design.labels[i].from_netattrib \in BOOLEAN
              /\ NameOf(i) \in QNames
         /\ \A j \in 1..Len(design.links) :
              /\ design.links[j].pin \in Pins
              /\ design.links[j].ports \in SUBSET Pins
         /\ \A p \in Pins : design.local_net[p] \in LocalNets
         /\ \A l \in LocalNets : design.space[l] \in Spaces
         /\ \A p \in Pins : design.package_pin[p] \in PackagePins \cup {NoPackage}
<1>1. design \in Design /\ Len(design.labels) + NumPins <= MaxNets
  BY NetsAssumption
<1>2. /\ design.labels \in Seq(Label) /\ design.links \in Seq(Link)
      /\ design.local_net \in [Pins -> LocalNets]
      /\ design.space \in [LocalNets -> Spaces]
      /\ design.package_pin \in [Pins -> PackagePins \cup {NoPackage}]
  BY <1>1 DEF Design
<1>3. ASSUME NEW i \in 1..Len(design.labels)
      PROVE  /\ design.labels[i].net \in LocalNets
             /\ design.labels[i].from_netattrib \in BOOLEAN
             /\ design.labels[i].name \in LabelNames
  <2>1. design.labels[i] \in Label
    BY <1>2
  <2> QED BY <2>1 DEF Label
<1>4. \A i \in 1..Len(design.labels) : NameOf(i) \in QNames
  BY <1>2, <1>3 DEF NameOf, QName, QNames
<1>5. ASSUME NEW j \in 1..Len(design.links)
      PROVE  design.links[j].pin \in Pins /\ design.links[j].ports \in SUBSET Pins
  <2>1. design.links[j] \in Link
    BY <1>2
  <2> QED BY <2>1 DEF Link
<1> QED BY <1>1, <1>2, <1>3, <1>4, <1>5

LEMMA InitInv == Init => NetsInv
<1> SUFFICES ASSUME Init PROVE NetsInv
  OBVIOUS
<1> USE DEF Init
<1>1. TypeOK
  BY NetsAssumption DEF TypeOK, NetIds, Kinds, NoNet
<1>2. RoundsOK
  BY DesignKnown DEF RoundsOK
<1>3. PiecesListed
  BY NetsAssumption DEF PiecesListed, NetIds, NoNet
<1>4. LabelsDone = {} /\ LinksDone = {}
  BY DEF LabelsDone, LinksDone
<1>5. NamesLead
  BY <1>4 DEF NamesLead, NamesOf
<1>6. LabelsAgree /\ LinksAgree /\ Together
  BY <1>4 DEF LabelsAgree, LinksAgree, Together
<1>7. NetsListed /\ TitlesKnown /\ PinsListed /\ NoConnectionLost
  BY DEF NetsListed, TitlesKnown, PinsListed, NoConnectionLost
<1> QED BY <1>1, <1>2, <1>3, <1>5, <1>6, <1>7 DEF NetsInv

-----------------------------------------------------------------------------
(* A round of the loop over names.                                         *)

Piece == design.labels[at].net
TheName == NameOf(at)
\* The net of the name, the net that stays, and the one that goes, if any.
Named == IF TheName \in DOMAIN net_dict THEN net_dict[TheName] ELSE created + 1
Older == IF net[Piece] = NoNet \/ Named <= net[Piece] THEN Named ELSE net[Piece]
Gone == {Named, net[Piece]} \ {Older, NoNet}
Through(n) == IF n \in Gone THEN Older ELSE n

LEMMA RoundNets ==
  ASSUME NetsInv, NameNet
  PROVE  /\ at \in 1..Len(design.labels) /\ at' = at + 1
         /\ UNCHANGED <<design, phase>> /\ phase = "names"
         /\ Piece \in LocalNets /\ TheName \in QNames
         /\ created \in Nat /\ created' \in Nat /\ created <= created'
         /\ created' <= at /\ created' <= MaxNets
         /\ Named \in 1..created' /\ Older \in 1..created' /\ 1..created' \subseteq NetIds
         /\ net[Piece] \in 0..created
         /\ Gone \subseteq 1..created' /\ Older \notin Gone /\ Through(NoNet) = NoNet
         /\ Through(Named) = Older /\ (net[Piece] # NoNet => Through(net[Piece]) = Older)
         /\ (net[Piece] = NoNet => Gone = {} /\ Older = Named)
         /\ nets' = (nets \cup {Named}) \ Gone
<1> USE DEF NetsInv
<1>1. /\ at \in 1..Len(design.labels) /\ at' = at + 1
      /\ UNCHANGED <<design, phase>> /\ phase = "names"
  <2>1. Len(design.labels) \in Nat
    BY DesignKnown DEF RoundsOK
  <2>2. /\ phase = "names" /\ at <= Len(design.labels) /\ at' = at + 1
        /\ UNCHANGED <<design, phase>>
    BY DEF NameNet
  <2>3. at \in Nat \ {0}
    BY DEF TypeOK
  <2> QED BY <2>1, <2>2, <2>3
<1>2. Piece \in LocalNets /\ TheName \in QNames
  BY <1>1, DesignKnown DEF RoundsOK, Piece, TheName
<1>3. created \in Nat /\ MaxNets \in Nat /\ created <= at - 1 /\ at <= MaxNets /\ created <= MaxNets
  BY <1>1, DesignKnown, NetsAssumption DEF RoundsOK, TypeOK
<1>4. created' = IF TheName \in DOMAIN net_dict THEN created ELSE Named
  BY DEF NameNet, TheName, NameOf, Named
<1>5. Named \in 1..created'
  <2>1. CASE TheName \in DOMAIN net_dict
    <3>1. net_dict[TheName] \in nets
      BY <2>1, <1>1 DEF NamesLead
    <3> QED BY <2>1, <3>1, <1>4 DEF Named, TypeOK
  <2>2. CASE TheName \notin DOMAIN net_dict
    BY <2>2, <1>3, <1>4 DEF Named
  <2> QED BY <2>1, <2>2
<1>6. /\ created' \in Nat /\ created <= created' /\ created' <= at /\ created' <= MaxNets
  BY <1>3, <1>4, <1>1 DEF Named
<1>7. net[Piece] \in 0..created
  BY <1>2 DEF TypeOK
<1>8. Older \in 1..created' /\ Gone \subseteq 1..created' /\ Older \notin Gone
  BY <1>3, <1>5, <1>6, <1>7 DEF Older, Gone, NoNet
<1>9. /\ Through(NoNet) = NoNet /\ Through(Named) = Older
      /\ (net[Piece] # NoNet => Through(net[Piece]) = Older)
      /\ (net[Piece] = NoNet => Gone = {} /\ Older = Named)
  BY <1>3, <1>5, <1>6, <1>7, <1>8 DEF Through, Older, Gone, NoNet
<1>10. 1..created' \subseteq NetIds
  BY <1>6, <1>3 DEF NetIds
<1>11. nets' = (nets \cup {Named}) \ Gone
  BY DEF NameNet, Named, TheName, NameOf, Gone, Older, Piece
<1> QED
  BY <1>1, <1>2, <1>3, <1>5, <1>6, <1>7, <1>8, <1>9, <1>10, <1>11

(* Every piece, and every name, goes where its net went.                   *)
LEMMA RoundPieces ==
  ASSUME NetsInv, NameNet
  PROVE  /\ net' = [m \in LocalNets |-> IF m = Piece THEN Older ELSE Through(net[m])]
         /\ local_nets' \in [NetIds -> SUBSET LocalNets]
         /\ PiecesListed'
<1> USE DEF NetsInv
<1> USE RoundNets
<1> DEFINE joined == [local_nets EXCEPT ![Named] =
                        @ \cup (IF net[Piece] = NoNet THEN {Piece} ELSE {})]
<1>1. /\ net' = [Redirected(joined, Gone, Older) EXCEPT
                   ![Piece] = IF net[Piece] = NoNet THEN Named ELSE @]
      /\ local_nets' = Moved(joined, Gone, Older)
  BY DEF NameNet, Named, TheName, NameOf, Gone, Older, Piece
<1>2. joined \in [NetIds -> SUBSET LocalNets]
  BY DEF TypeOK
<1>3. \A g \in Gone : joined[g] = {l \in LocalNets : net[l] = g}
  <2> SUFFICES ASSUME NEW g \in Gone PROVE joined[g] = {l \in LocalNets : net[l] = g}
    OBVIOUS
  <2>1. net[Piece] # NoNet
    OBVIOUS
  <2>2. joined[g] = local_nets[g]
    BY <2>1 DEF TypeOK
  <2>3. g \in NetIds
    OBVIOUS
  <2> QED BY <2>2, <2>3 DEF PiecesListed
<1> HIDE DEF joined
<1>4. \A l \in LocalNets : l \in UNION {joined[g] : g \in Gone} <=> net[l] \in Gone
  BY <1>3
<1>5. ASSUME NEW m \in LocalNets
      PROVE  net'[m] = IF m = Piece THEN Older ELSE Through(net[m])
  <2>1. Redirected(joined, Gone, Older)[m] = Through(net[m])
    BY <1>4 DEF Redirected, Through
  <2>2. Redirected(joined, Gone, Older) = [l \in LocalNets |-> Redirected(joined, Gone, Older)[l]]
    BY DEF Redirected
  <2>3. CASE m # Piece
    BY <2>1, <2>2, <2>3, <1>1
  <2>4. CASE m = Piece /\ net[Piece] = NoNet
    <3>1. net'[m] = Named
      BY <2>2, <2>4, <1>1
    <3> QED BY <3>1, <2>4
  <2>5. CASE m = Piece /\ net[Piece] # NoNet
    <3>1. net'[m] = Redirected(joined, Gone, Older)[m]
      BY <2>2, <2>5, <1>1
    <3> QED BY <3>1, <2>1, <2>5
  <2> QED BY <2>3, <2>4, <2>5
<1>6. net' = [m \in LocalNets |-> IF m = Piece THEN Older ELSE Through(net[m])]
  <2>1. net' = [m \in LocalNets |-> net'[m]]
    BY <1>1 DEF Redirected
  <2> QED BY <2>1, <1>5
<1>7. local_nets' \in [NetIds -> SUBSET LocalNets]
  <2>1. UNION {joined[g] : g \in Gone} \in SUBSET LocalNets
    BY <1>2
  <2> QED BY <2>1, <1>1, <1>2 DEF Moved
<1>8. ASSUME NEW k \in NetIds
      PROVE  local_nets'[k] = {l \in LocalNets : net'[l] = k}
  <2>1. joined[k] = {l \in LocalNets : net[l] = k \/ (k = Named /\ l = Piece /\ net[Piece] = NoNet)}
    <3>1. local_nets[k] = {l \in LocalNets : net[l] = k}
      BY DEF PiecesListed
    <3>2. joined[k] = local_nets[k] \cup (IF k = Named /\ net[Piece] = NoNet THEN {Piece} ELSE {})
      BY DEF joined, TypeOK
    <3> QED BY <3>1, <3>2
  <2>2. \A l \in LocalNets : net'[l] = IF l = Piece THEN Older ELSE Through(net[l])
    BY <1>5
  <2>3. CASE k \in Gone
    <3>1. local_nets'[k] = {}
      BY <2>3, <1>1 DEF Moved
    <3>2. \A l \in LocalNets : net'[l] # k
      BY <2>2, <2>3 DEF Through
    <3> QED BY <3>1, <3>2
  <2>4. CASE k = Older
    <3>1. local_nets'[k] = joined[k] \cup UNION {joined[g] : g \in Gone}
      BY <2>4, <1>1 DEF Moved
    <3>2. \A l \in LocalNets : l \in local_nets'[k] <=>
            net[l] = k \/ (k = Named /\ l = Piece /\ net[Piece] = NoNet) \/ net[l] \in Gone
      BY <3>1, <2>1, <1>4
    <3>3. \A l \in LocalNets : net'[l] = k <=> l = Piece \/ net[l] = k \/ net[l] \in Gone
      BY <2>2, <2>4 DEF Through
    <3>4. net[Piece] # NoNet => net[Piece] = Older \/ net[Piece] \in Gone
      BY DEF Through
    <3> QED BY <3>2, <3>3, <3>4, <2>4, <1>7
  <2>5. CASE k # Older /\ k \notin Gone
    <3>1. local_nets'[k] = joined[k]
      BY <2>5, <1>1 DEF Moved
    <3>2. \A l \in LocalNets : net'[l] = k <=> net[l] = k /\ l # Piece
      BY <2>2, <2>5 DEF Through
    <3>3. net[Piece] # k /\ (net[Piece] = NoNet => k # Named)
      <4>1. k # NoNet
        BY DEF NetIds, NoNet
      <4> QED BY <4>1, <2>5 DEF Through
    <3> QED BY <3>1, <3>2, <3>3, <2>1
  <2> QED BY <2>3, <2>4, <2>5
<1> QED BY <1>6, <1>7, <1>8 DEF PiecesListed

\* The names of a net with the name of this round.
WithName(n) == NamesOf(names, n) \cup (IF n = Named THEN {TheName} ELSE {})

LEMMA RoundNames ==
  ASSUME NetsInv, NameNet
  PROVE  /\ names' \in [NetIds -> [BOOLEAN -> SUBSET QNames]]
         /\ \A k \in NetIds :
              NamesOf(names', k) = IF k = Older THEN WithName(k) \cup UNION {WithName(g) : g \in Gone}
                                   ELSE IF k \in Gone THEN {} ELSE WithName(k)
         /\ DOMAIN net_dict' = DOMAIN net_dict \cup {TheName}
         /\ net_dict'[TheName] = Older
         /\ \A x \in DOMAIN net_dict : net_dict'[x] = Through(net_dict[x])
<1> USE DEF NetsInv
<1> USE RoundNets
<1> DEFINE org == design.labels[at].from_netattrib
           named == [names EXCEPT ![Named][org] = @ \cup {TheName}]
           moved == UNION {NamesOf(named, g) : g \in Gone}
<1>1. /\ names' = MovedNames(named, Gone, Older)
      /\ net_dict' = Renamed(net_dict, TheName, Named, moved, Older)
  BY DEF NameNet, Named, TheName, NameOf, Gone, Older, Piece
<1>2. org \in BOOLEAN
  BY DesignKnown DEF RoundsOK
<1>3. names \in [NetIds -> [BOOLEAN -> SUBSET QNames]]
  BY DEF TypeOK
<1>4. named \in [NetIds -> [BOOLEAN -> SUBSET QNames]]
  BY <1>2, <1>3
<1>5. \A n \in NetIds : NamesOf(named, n) = WithName(n)
  <2> SUFFICES ASSUME NEW n \in NetIds PROVE NamesOf(named, n) = WithName(n)
    OBVIOUS
  <2>1. \A f \in BOOLEAN : named[n][f] = names[n][f] \cup (IF n = Named /\ f = org THEN {TheName} ELSE {})
    BY <1>2, <1>3
  <2>2. named[n][TRUE] \cup named[n][FALSE] =
          names[n][TRUE] \cup names[n][FALSE] \cup (IF n = Named THEN {TheName} ELSE {})
    <3> HIDE DEF named, org
    <3>1. CASE org = TRUE
      BY <2>1, <3>1
    <3>2. CASE org = FALSE
      BY <2>1, <3>2
    <3> QED BY <3>1, <3>2, <1>2
  <2> QED BY <2>2 DEF NamesOf, WithName
<1> HIDE DEF named, org
<1>6. \A k \in NetIds : \A f \in BOOLEAN :
        /\ UNION {named[g][f] : g \in Gone} \in SUBSET QNames
        /\ named[k][f] \in SUBSET QNames
  BY <1>4
<1>7. names' \in [NetIds -> [BOOLEAN -> SUBSET QNames]]
  BY <1>1, <1>6 DEF MovedNames
<1>8. ASSUME NEW k \in NetIds
      PROVE  NamesOf(names', k) =
               IF k = Older THEN WithName(k) \cup UNION {WithName(g) : g \in Gone}
               ELSE IF k \in Gone THEN {} ELSE WithName(k)
  <2>1. \A f \in BOOLEAN : names'[k][f] =
          IF k = Older THEN named[k][f] \cup UNION {named[g][f] : g \in Gone}
          ELSE IF k \in Gone THEN {} ELSE named[k][f]
    BY <1>1 DEF MovedNames
  <2>2. \A g \in Gone : WithName(g) = named[g][FALSE] \cup named[g][TRUE]
    BY <1>5 DEF NamesOf
  <2>3. WithName(k) = named[k][FALSE] \cup named[k][TRUE]
    BY <1>5 DEF NamesOf
  <2>4. NamesOf(names', k) = names'[k][FALSE] \cup names'[k][TRUE]
    BY DEF NamesOf
  <2>5. CASE k = Older
    <3> DEFINE U == UNION {WithName(g) : g \in Gone}
               A == UNION {named[g][FALSE] : g \in Gone}
               B == UNION {named[g][TRUE] : g \in Gone}
    <3>1. \A x : x \in U <=> \E g \in Gone : x \in WithName(g)
      OBVIOUS
    <3>2. \A x : x \in A <=> \E g \in Gone : x \in named[g][FALSE]
      OBVIOUS
    <3>3. \A x : x \in B <=> \E g \in Gone : x \in named[g][TRUE]
      OBVIOUS
    <3>4. names'[k][FALSE] = named[k][FALSE] \cup A /\ names'[k][TRUE] = named[k][TRUE] \cup B
      BY <2>1, <2>5
    <3> HIDE DEF U, A, B
    <3>5. \A x : x \in U <=> x \in A \/ x \in B
      <4>1. \A g \in Gone : \A x :
              x \in WithName(g) <=> x \in named[g][FALSE] \/ x \in named[g][TRUE]
        BY <2>2
      <4> QED BY <4>1, <3>1, <3>2, <3>3, Zenon
    <3>6. NamesOf(names', k) = WithName(k) \cup U
      BY <2>3, <2>4, <3>4, <3>5
    <3> QED BY <2>5, <3>6 DEF U
  <2>7. CASE k # Older
    BY <2>1, <2>3, <2>4, <2>7
  <2> QED BY <2>5, <2>7
<1>9. \A x : x \in moved <=> \E g \in Gone : x \in WithName(g)
  BY <1>5
<1> HIDE DEF moved
<1>10. /\ DOMAIN net_dict' = DOMAIN net_dict \cup {TheName}
       /\ \A x \in DOMAIN net_dict \cup {TheName} : net_dict'[x] =
            IF x \in moved THEN Older ELSE IF x = TheName THEN Named ELSE net_dict[x]
  BY <1>1 DEF Renamed
<1>11. \A n \in NetIds : \A x \in WithName(n) :
         IF x = TheName THEN n = Named ELSE x \in DOMAIN net_dict /\ net_dict[x] = n
  BY DEF NamesLead, WithName, Named
<1>12. net_dict'[TheName] = Older
  <2>1. TheName \in moved <=> Named \in Gone
    BY <1>9, <1>11 DEF WithName
  <2> QED BY <1>10, <2>1 DEF Through
<1>13. ASSUME NEW x \in DOMAIN net_dict
       PROVE  net_dict'[x] = Through(net_dict[x])
  <2>1. CASE x = TheName
    BY <2>1, <1>12, <1>13 DEF Named
  <2>2. CASE x # TheName
    <3>1. net_dict[x] \in NetIds /\ x \in NamesOf(names, net_dict[x])
      BY DEF NamesLead, TypeOK
    <3>2. x \in moved <=> net_dict[x] \in Gone
      BY <3>1, <1>9, <1>11, <2>2 DEF WithName
    <3> QED BY <3>2, <2>2, <1>10 DEF Through
  <2> QED BY <2>1, <2>2
<1> QED BY <1>7, <1>8, <1>10, <1>12, <1>13

LEMMA RoundTyped ==
  ASSUME NetsInv, NameNet
  PROVE  TypeOK' /\ RoundsOK'
<1> USE DEF NetsInv
<1> USE RoundNets
<1>1. UNCHANGED <<design, phase, title, counter, is_unconnected, component_pins,
                  connections, package_net>>
  BY DEF NameNet, packaging
<1>2. nets' \subseteq 1..created' /\ created' \in 0..MaxNets
  BY DEF TypeOK
<1>3. net' \in [LocalNets -> 0..created']
  <2>1. ASSUME NEW m \in LocalNets
        PROVE  (IF m = Piece THEN Older ELSE Through(net[m])) \in 0..created'
    <3>1. net[m] \in 0..created
      BY DEF TypeOK
    <3> QED BY <3>1 DEF Through
  <2> QED BY <2>1, RoundPieces
<1>4. net_dict' \in [DOMAIN net_dict' -> NetIds] /\ DOMAIN net_dict' \subseteq QNames
  <2>1. \A x \in DOMAIN net_dict' : net_dict'[x] \in NetIds
    <3> SUFFICES ASSUME NEW x \in DOMAIN net_dict' PROVE net_dict'[x] \in NetIds
      OBVIOUS
    <3>1. CASE x = TheName
      BY <3>1, RoundNames
    <3>2. CASE x # TheName
      <4>1. x \in DOMAIN net_dict /\ net_dict'[x] = Through(net_dict[x])
        BY <3>2, RoundNames
      <4>2. net_dict[x] \in NetIds
        BY <4>1 DEF TypeOK
      <4> QED BY <4>1, <4>2 DEF Through
    <3> QED BY <3>1, <3>2
  <2>2. net_dict' = [x \in DOMAIN net_dict' |-> net_dict'[x]]
    BY DEF NameNet, Renamed
  <2>3. DOMAIN net_dict' \subseteq QNames
    BY RoundNames DEF TypeOK
  <2> QED BY <2>1, <2>2, <2>3
<1>5. at' \in Nat \ {0}
  OBVIOUS
<1>6. TypeOK'
  BY <1>1, <1>2, <1>3, <1>4, <1>5, RoundPieces, RoundNames DEF TypeOK
<1>7. RoundsOK'
  BY DEF RoundsOK
<1> QED BY <1>6, <1>7

LEMMA RoundNamesLead ==
  ASSUME NetsInv, NameNet
  PROVE  NamesLead'
<1> USE DEF NetsInv
<1> USE RoundNets
<1>1. LabelsDone = 1..at - 1 /\ LabelsDone' = 1..at
  BY DEF LabelsDone
<1>2. \A i : NameOf(i)' = NameOf(i)
  BY DEF NameOf
<1>3. DOMAIN net_dict' = DOMAIN net_dict \cup {TheName}
  BY RoundNames
<1>4. ASSUME NEW n \in NetIds, NEW q \in WithName(n)
      PROVE  /\ q \in DOMAIN net_dict'
             /\ net_dict'[q] = Through(n)
  <2>1. CASE q = TheName /\ n = Named
    BY <2>1, RoundNames
  <2>2. CASE q \in NamesOf(names, n)
    <3>1. q \in DOMAIN net_dict /\ net_dict[q] = n
      BY <2>2 DEF NamesLead
    <3> QED BY <3>1, RoundNames
  <2> QED BY <1>4, <2>1, <2>2 DEF WithName
<1>5. ASSUME NEW n \in NetIds, NEW q \in NamesOf(names', n)
      PROVE  q \in DOMAIN net_dict' /\ net_dict'[q] = n
  <2>1. NamesOf(names', n) = IF n = Older THEN WithName(n) \cup UNION {WithName(g) : g \in Gone}
                             ELSE IF n \in Gone THEN {} ELSE WithName(n)
    BY RoundNames
  <2>2. \A g \in Gone : g \in NetIds /\ Through(g) = Older
    BY DEF Through
  <2>3. n \notin Gone => Through(n) = n
    BY DEF Through
  <2>4. CASE n = Older
    <3>1. q \in WithName(n) \/ \E g \in Gone : q \in WithName(g)
      BY <2>1, <2>4, <1>5
    <3> QED BY <3>1, <2>2, <2>3, <2>4, <1>4
  <2>5. CASE n # Older
    BY <2>1, <2>3, <2>5, <1>4, <1>5
  <2> QED BY <2>4, <2>5
<1>6. ASSUME NEW q \in DOMAIN net_dict'
      PROVE  net_dict'[q] \in nets' /\ q \in NamesOf(names', net_dict'[q])
  <2>1. PICK n \in NetIds : q \in WithName(n) /\ (n \in nets \/ n = Named)
    <3>1. CASE q = TheName
      BY <3>1 DEF WithName
    <3>2. CASE q # TheName
      <4>1. q \in DOMAIN net_dict
        BY <3>2, <1>3
      <4>2. net_dict[q] \in nets /\ q \in NamesOf(names, net_dict[q]) /\ net_dict[q] \in NetIds
        BY <4>1 DEF NamesLead, TypeOK
      <4> QED BY <4>2 DEF WithName
    <3> QED BY <3>1, <3>2
  <2>2. net_dict'[q] = Through(n)
    BY <2>1, <1>4
  <2>3. Through(n) \in nets' /\ Through(n) \in NetIds
    <3>1. Older \in nets \cup {Named}
      <4>1. net[Piece] # NoNet => net[Piece] \in nets
        BY DEF NetsListed
      <4> QED BY <4>1 DEF Older
    <3> QED BY <3>1, <2>1 DEF Through
  <2>4. q \in NamesOf(names', Through(n))
    <3>1. NamesOf(names', Through(n)) =
            IF Through(n) = Older THEN WithName(Through(n)) \cup UNION {WithName(g) : g \in Gone}
            ELSE IF Through(n) \in Gone THEN {} ELSE WithName(Through(n))
      BY <2>3, RoundNames
    <3>2. CASE n \in Gone
      <4>1. Through(n) = Older
        BY <3>2 DEF Through
      <4>2. q \in UNION {WithName(g) : g \in Gone}
        BY <3>2, <2>1
      <4> QED BY <4>1, <4>2, <3>1
    <3>3. CASE n \notin Gone
      <4>1. Through(n) = n
        BY <3>3 DEF Through
      <4> QED BY <4>1, <3>1, <3>3, <2>1
    <3> QED BY <3>2, <3>3
  <2> QED BY <2>2, <2>3, <2>4
<1>7. ASSUME NEW i \in 1..at
      PROVE  NameOf(i) \in DOMAIN net_dict' /\ NetOf(i)' = net_dict'[NameOf(i)]
  <2>1. design.labels[i].net \in LocalNets
    BY DesignKnown DEF RoundsOK
  <2>2. NetOf(i)' = IF design.labels[i].net = Piece THEN Older ELSE Through(NetOf(i))
    BY <2>1, RoundPieces DEF NetOf
  <2>3. CASE i = at
    <3>1. NameOf(i) = TheName /\ design.labels[i].net = Piece
      BY <2>3 DEF TheName, Piece
    <3> QED BY <3>1, <2>2, RoundNames
  <2>4. CASE i # at
    <3>1. i \in LabelsDone
      BY <2>4, <1>1
    <3>2. NameOf(i) \in DOMAIN net_dict /\ NetOf(i) = net_dict[NameOf(i)] /\ NetOf(i) # NoNet
      BY <3>1 DEF NamesLead, LabelsAgree
    <3>3. net_dict'[NameOf(i)] = Through(NetOf(i))
      BY <3>2, RoundNames
    <3>4. design.labels[i].net = Piece => Through(NetOf(i)) = Older
      BY <3>2 DEF NetOf
    <3> QED BY <3>2, <3>3, <3>4, <2>2, <1>3
  <2> QED BY <2>3, <2>4
<1>8. ASSUME NEW q \in DOMAIN net_dict'
      PROVE  \E i \in 1..at : q = NameOf(i)
  <2>1. CASE q = TheName
    BY <2>1 DEF TheName
  <2>2. CASE q # TheName
    <3>1. \E i \in LabelsDone : q = NameOf(i)
      BY <2>2, <1>3 DEF NamesLead
    <3> QED BY <3>1, <1>1
  <2> QED BY <2>1, <2>2
<1> QED
  BY <1>1, <1>2, <1>5, <1>6, <1>7, <1>8 DEF NamesLead

LEMMA RoundAgrees ==
  ASSUME NetsInv, NameNet
  PROVE  LabelsAgree' /\ LinksAgree'
<1> USE DEF NetsInv
<1> USE RoundNets
<1>1. LabelsDone' = 1..at /\ phase' = "names" /\ LinksDone' = {}
  BY DEF LabelsDone, LinksDone
<1>2. \A i : NameOf(i)' = NameOf(i)
  BY DEF NameOf
<1>3. \A i \in 1..at : NetOf(i)' = net_dict'[NameOf(i)] /\ NameOf(i) \in DOMAIN net_dict'
  BY RoundNamesLead, <1>1, <1>2 DEF NamesLead
<1>4. \A q \in DOMAIN net_dict' : net_dict'[q] # NoNet
  <2>1. \A q \in DOMAIN net_dict' : net_dict'[q] \in NetIds
    BY RoundTyped DEF TypeOK
  <2> QED BY <2>1 DEF NetIds, NoNet
<1> QED BY <1>1, <1>2, <1>3, <1>4 DEF LabelsAgree, LinksAgree

LEMMA RoundTogether ==
  ASSUME NetsInv, NameNet
  PROVE  Together'
<1> USE DEF NetsInv
<1> USE RoundNets
<1>1. LabelsDone = 1..at - 1 /\ LabelsDone' = 1..at /\ LinksDone' = {} /\ LinksDone = {}
  BY DEF LabelsDone, LinksDone
<1> SUFFICES ASSUME NEW S \in SUBSET LocalNets, Closed(design, S, 1..at, {}),
                    NEW l \in LocalNets, NEW m \in LocalNets,
                    net'[l] # NoNet, net'[l] = net'[m]
             PROVE  l \in S <=> m \in S
  BY <1>1 DEF Together
<1>2. \A i, j \in 1..at : NameOf(i) = NameOf(j)
                            => (design.labels[i].net \in S <=> design.labels[j].net \in S)
  BY DEF Closed, NameOf
<1>3. Closed(design, S, LabelsDone, LinksDone)
  BY <1>1 DEF Closed
<1>4. \A x, y \in LocalNets : net[x] # NoNet /\ net[x] = net[y] => (x \in S <=> y \in S)
  BY <1>3 DEF Together
<1>5. \A x \in LocalNets : net'[x] = IF x = Piece THEN Older ELSE Through(net[x])
  BY RoundPieces
\* What was in the net of the name is on the same side of S as the piece.
<1>6. ASSUME NEW x \in LocalNets, net[x] = Named
      PROVE  x \in S <=> Piece \in S
  <2>1. net[x] # NoNet
    BY <1>6 DEF NoNet
  <2>2. TheName \in DOMAIN net_dict
    <3>1. net[x] \in 0..created
      BY DEF TypeOK
    <3> QED BY <3>1, <1>6 DEF Named
  <2>3. PICK i \in LabelsDone : NameOf(i) = TheName
    BY <2>2 DEF NamesLead
  <2>4. NetOf(i) = Named
    BY <2>2, <2>3 DEF NamesLead, Named
  <2>5. i \in 1..at /\ at \in 1..at /\ design.labels[i].net \in LocalNets
    BY <1>1, DesignKnown DEF RoundsOK
  <2>6. design.labels[i].net \in S <=> Piece \in S
    BY <2>3, <2>5, <1>2 DEF TheName, Piece
  <2>7. design.labels[i].net \in S <=> x \in S
    BY <2>1, <2>4, <2>5, <1>4, <1>6 DEF NetOf
  <2> QED BY <2>6, <2>7
<1>7. ASSUME NEW x \in LocalNets, net'[x] = Older
      PROVE  x \in S <=> Piece \in S
  <2>1. CASE x = Piece
    BY <2>1
  <2>2. CASE x # Piece
    <3>1. net[x] \in {Older} \cup Gone
      BY <2>2, <1>5, <1>7 DEF Through
    <3>2. CASE net[x] = Named
      BY <3>2, <1>6
    <3>3. CASE net[x] = net[Piece] /\ net[x] # NoNet
      BY <3>3, <1>4
    <3>4. net[x] # NoNet
      BY <3>1 DEF NoNet
    <3> QED BY <3>1, <3>2, <3>3, <3>4 DEF Older, Gone
  <2> QED BY <2>1, <2>2
<1>8. CASE net'[l] = Older
  BY <1>7, <1>8
<1>9. CASE net'[l] # Older
  <2>1. net[l] = net'[l] /\ net[m] = net'[m]
    BY <1>5, <1>9 DEF Through
  <2> QED BY <2>1, <1>4
<1> QED BY <1>8, <1>9

LEMMA NameNetInv ==
  ASSUME NetsInv, NameNet
  PROVE  NetsInv'
<1> USE DEF NetsInv
<1> USE RoundNets
<1>1. NetsListed'
  <2>1. Older \in nets'
    <3>1. net[Piece] # NoNet => net[Piece] \in nets
      BY DEF NetsListed
    <3> QED BY <3>1 DEF Older
  <2>2. ASSUME NEW l \in LocalNets, net'[l] # NoNet
        PROVE  net'[l] \in nets'
    <3>1. net'[l] = IF l = Piece THEN Older ELSE Through(net[l])
      BY RoundPieces
    <3>2. CASE l # Piece /\ net[l] \notin Gone
      <4>1. net'[l] = net[l]
        BY <3>1, <3>2 DEF Through
      <4>2. net[l] \in nets
        BY <4>1, <2>2 DEF NetsListed
      <4> QED BY <4>1, <4>2, <3>2
    <3>3. CASE l = Piece \/ net[l] \in Gone
      BY <2>1, <3>1, <3>3 DEF Through
    <3> QED BY <3>2, <3>3
  <2> QED BY <2>2 DEF NetsListed
<1>2. TitlesKnown' /\ PinsListed' /\ NoConnectionLost'
  BY DEF TitlesKnown, PinsListed, NoConnectionLost
<1> QED
  BY <1>1, <1>2, RoundTyped, RoundPieces, RoundNamesLead, RoundAgrees, RoundTogether

-----------------------------------------------------------------------------
(* From names to pins.                                                     *)

LEMMA PreferredNames ==
  ASSUME design \in Design, NEW n
  PROVE  Preferred(n) \subseteq NamesOf(names, n)
<1>1. design.prefer_netname_attribute \in BOOLEAN
  BY DEF Design
<1>2. CASE design.prefer_netname_attribute = TRUE
  <2>1. (~design.prefer_netname_attribute) = FALSE /\ (~FALSE) = TRUE
    BY <1>2
  <2>2. Preferred(n) = IF names[n][FALSE] # {} THEN names[n][FALSE] ELSE names[n][TRUE]
    BY <2>1 DEF Preferred
  <2> QED BY <2>2 DEF NamesOf
<1>3. CASE design.prefer_netname_attribute = FALSE
  <2>1. (~design.prefer_netname_attribute) = TRUE /\ (~TRUE) = FALSE
    BY <1>3
  <2>2. Preferred(n) = IF names[n][TRUE] # {} THEN names[n][TRUE] ELSE names[n][FALSE]
    BY <2>1 DEF Preferred
  <2> QED BY <2>2 DEF NamesOf
<1> QED BY <1>1, <1>2, <1>3

LEMMA PrioritizeNamesInv ==
  ASSUME NetsInv, PrioritizeNames
  PROVE  NetsInv'
<1> USE DEF NetsInv
<1>1. /\ phase = "names" /\ at = Len(design.labels) + 1
      /\ phase' = "pins" /\ at' = 1
      /\ UNCHANGED <<design, created, nets, net, local_nets, names, net_dict, counter,
                     is_unconnected, component_pins, connections, package_net>>
  BY DEF PrioritizeNames, packaging
<1>2. PICK pick \in [nets -> UNION {Preferred(n) : n \in nets}] :
        /\ \A n \in nets : pick[n] \in Preferred(n)
        /\ title' = [n \in NetIds |-> IF n \in nets THEN pick[n] ELSE NoTitle]
  BY DEF PrioritizeNames
<1>3. Len(design.labels) \in Nat /\ design \in Design /\ DOMAIN design.labels = 1..Len(design.labels)
  BY DesignKnown DEF RoundsOK
<1>4. LabelsDone' = LabelsDone /\ LinksDone' = LinksDone
  BY <1>1, <1>3 DEF LabelsDone, LinksDone
<1>5. nets \subseteq NetIds
  BY NetsAssumption DEF TypeOK, NetIds
<1>6. ASSUME NEW n \in nets
      PROVE  /\ title'[n] \in NamesOf(names, n)
             /\ title'[n] \in DOMAIN net_dict /\ net_dict[title'[n]] = n
  <2>1. title'[n] = pick[n] /\ n \in NetIds
    BY <1>2, <1>5
  <2>2. pick[n] \in NamesOf(names, n)
    BY <1>2, <1>3, PreferredNames
  <2> QED BY <2>1, <2>2, <1>1 DEF NamesLead
<1>7. TitlesKnown'
  BY <1>1, <1>6 DEF TitlesKnown
<1>8. title' \in [NetIds -> QNames \cup {NoTitle}]
  <2>1. \A n \in nets : title'[n] \in QNames
    BY <1>6 DEF TypeOK
  <2> QED BY <2>1, <1>2
<1>9. TypeOK'
  BY <1>1, <1>8 DEF TypeOK
<1>10. RoundsOK'
  BY <1>1, <1>3, NetsAssumption DEF RoundsOK
<1>11. PiecesListed' /\ NamesLead' /\ PinsListed' /\ NoConnectionLost'
  BY <1>1 DEF PiecesListed, NamesLead, PinsListed, NoConnectionLost
<1>12. LabelsAgree' /\ LinksAgree' /\ Together'
  BY <1>1, <1>4 DEF LabelsAgree, LinksAgree, Together, NameOf, NetOf, NetOfPin
<1>13. NetsListed'
  BY <1>1 DEF NetsListed
<1> QED BY <1>7, <1>9, <1>10, <1>11, <1>12, <1>13

LEMMA NamePinInv ==
  ASSUME NetsInv, NamePin
  PROVE  NetsInv'
<1> USE DEF NetsInv
<1> DEFINE l == design.local_net[at]
           n == created + 1
           kind == IF PinsOf(l) = {at} /\ l \notin design.segments
                     THEN "unconnected_pin-" ELSE "unnamed_net"
           space == IF design.flat[FALSE] THEN NoSpace ELSE design.space[l]
<1>1. /\ phase = "pins" /\ at <= NumPins /\ at' = at + 1
      /\ UNCHANGED <<design, phase, component_pins, connections, package_net>>
  BY DEF NamePin, packaging
<1>2. at \in Pins /\ NumPins \in Nat /\ MaxNets \in Nat
  BY <1>1, NetsAssumption DEF TypeOK, Pins
<1>3. l \in LocalNets /\ space \in Spaces \cup {NoSpace}
  BY <1>2, DesignKnown DEF RoundsOK
<1>4. /\ Len(design.labels) \in Nat /\ Len(design.labels) + NumPins <= MaxNets
      /\ DOMAIN design.labels = 1..Len(design.labels)
  BY DesignKnown DEF RoundsOK
<1>5. LabelsDone' = LabelsDone /\ LinksDone' = LinksDone /\ LabelsDone = 1..Len(design.labels)
  BY <1>1, <1>4 DEF LabelsDone, LinksDone
<1>6. created \in Nat /\ created <= Len(design.labels) + at - 1
  BY <1>1 DEF TypeOK, RoundsOK
<1>7. NamesLead' /\ PinsListed' /\ NoConnectionLost' /\ LinksAgree'
  BY <1>1, <1>5 DEF NamesLead, PinsListed, NoConnectionLost, LinksAgree, LinksDone
<1>8. ASSUME NEW p \in 1..at - 1
      PROVE  p \in Pins /\ design.local_net[p] \in LocalNets /\ NetOfPin(p) # NoNet
  <2>1. p \in Pins
    BY <1>2 DEF Pins
  <2> QED BY <2>1, <1>1, DesignKnown DEF RoundsOK, NetsListed
<1>9. CASE /\ net[l] # NoNet
           /\ UNCHANGED <<created, nets, net, local_nets, naming, is_unconnected>>
  <2>1. TypeOK' /\ RoundsOK'
    <3>1. at' \in Nat \ {0} /\ at' <= NumPins + 1 /\ created <= Len(design.labels) + at' - 1
      BY <1>1, <1>2, <1>4, <1>6 DEF Pins
    <3>2. TypeOK'
      BY <3>1, <1>1, <1>9 DEF TypeOK, naming
    <3> QED BY <3>1, <3>2, <1>1, <1>9 DEF RoundsOK
  <2>2. PiecesListed' /\ LabelsAgree' /\ Together' /\ TitlesKnown'
    BY <1>1, <1>5, <1>9 DEF PiecesListed, LabelsAgree, Together, TitlesKnown, NameOf, NetOf, naming
  <2>3. NetsListed'
    <3>1. \A p \in 1..at : NetOfPin(p) # NoNet
      <4> SUFFICES ASSUME NEW p \in 1..at PROVE NetOfPin(p) # NoNet
        OBVIOUS
      <4>1. CASE p = at
        BY <4>1, <1>9 DEF NetOfPin
      <4>2. CASE p # at
        BY <4>2, <1>2, <1>8 DEF Pins
      <4> QED BY <4>1, <4>2
    <3>2. at' - 1 = at
      BY <1>1, <1>2 DEF Pins
    <3> QED BY <3>1, <3>2, <1>1, <1>9 DEF NetsListed, NetOfPin
  <2> QED BY <2>1, <2>2, <2>3, <1>7
<1>10. ASSUME net[l] = NoNet,
              created' = n, nets' = nets \cup {n},
              net' = [net EXCEPT ![l] = n],
              local_nets' = [local_nets EXCEPT ![n] = {l}],
              is_unconnected' = IF kind = "unnamed_net" THEN is_unconnected
                                ELSE is_unconnected \cup {n},
              NEW k, Number(space, kind, k),
              counter' = [counter EXCEPT ![kind] = k + 1],
              title' = [title EXCEPT ![n] = <<space, <<kind, k>>>>],
              net_dict' = Renamed(net_dict, <<space, <<kind, k>>>>, n, {}, n),
              UNCHANGED names
       PROVE  NetsInv'
  <2> DEFINE q == <<space, <<kind, k>>>>
  <2>1. kind \in Kinds /\ k \in Nat /\ q \notin DOMAIN net_dict
    BY <1>10 DEF Kinds, Number
  <2>2. q \in QNames
    BY <2>1, <1>3 DEF QNames, GeneratedNames
  <2>3. n \in NetIds /\ n \in 1..MaxNets /\ n # NoNet
    BY <1>2, <1>4, <1>6, <1>1 DEF NetIds, NoNet, Pins
  <2>4. /\ DOMAIN net_dict' = DOMAIN net_dict \cup {q}
        /\ net_dict' \in [DOMAIN net_dict \cup {q} -> NetIds]
    BY <1>10, <2>1, <2>3 DEF Renamed, TypeOK
  <2> HIDE DEF kind, space, q
  <2>5. TypeOK'
    <3>1. created' \in 0..MaxNets /\ nets' \subseteq 1..created' /\ at' \in Nat \ {0}
      BY <2>3, <1>1, <1>6, <1>10 DEF TypeOK
    <3>2. net' \in [LocalNets -> 0..created']
      BY <1>3, <1>6, <1>10 DEF TypeOK
    <3>3. local_nets' \in [NetIds -> SUBSET LocalNets]
      BY <1>3, <1>10 DEF TypeOK
    <3>4. DOMAIN net_dict' \subseteq QNames /\ net_dict' \in [DOMAIN net_dict' -> NetIds]
      BY <2>2, <2>4 DEF TypeOK
    <3>5. title' \in [NetIds -> QNames \cup {NoTitle}]
      BY <2>2, <1>10 DEF TypeOK, q
    <3>6. counter' \in [Kinds -> Nat]
      BY <2>1, <1>10 DEF TypeOK
    <3>7. is_unconnected' \subseteq NetIds
      BY <2>3, <1>10 DEF TypeOK
    <3> QED BY <3>1, <3>2, <3>3, <3>4, <3>5, <3>6, <3>7, <1>1, <1>10 DEF TypeOK
  <2>6. RoundsOK'
    BY <1>1, <1>2, <1>6, <1>10 DEF RoundsOK, Pins
  <2>7. \A m \in LocalNets : net'[m] = IF m = l THEN n ELSE net[m]
    BY <1>3, <1>10 DEF TypeOK
  <2>8. \A m \in LocalNets : net[m] \in 0..created /\ net[m] # n
    BY <1>6 DEF TypeOK
  <2>9. PiecesListed'
    <3> SUFFICES ASSUME NEW x \in NetIds
                 PROVE  local_nets'[x] = {m \in LocalNets : net'[m] = x}
      BY DEF PiecesListed
    <3>1. local_nets'[x] = IF x = n THEN {l} ELSE local_nets[x]
      BY <1>10 DEF TypeOK
    <3>2. local_nets[x] = {m \in LocalNets : net[m] = x}
      BY DEF PiecesListed
    <3>3. x # NoNet
      BY DEF NetIds, NoNet
    <3>4. CASE x = n
      BY <3>1, <3>4, <2>7, <2>8, <1>3
    <3>5. CASE x # n
      BY <3>1, <3>2, <3>3, <3>5, <2>7, <1>10
    <3> QED BY <3>4, <3>5
  <2>10. LabelsAgree'
    <3>1. \A i \in LabelsDone : design.labels[i].net \in LocalNets /\ design.labels[i].net # l
      BY <1>5, <1>10, DesignKnown DEF LabelsAgree, NetOf, RoundsOK
    <3>2. \A i \in LabelsDone : NetOf(i)' = NetOf(i)
      BY <3>1, <2>7, <1>1 DEF NetOf
    <3>3. \A i : NameOf(i)' = NameOf(i)
      BY <1>1 DEF NameOf
    <3> QED BY <3>2, <3>3, <1>5 DEF LabelsAgree
  <2>11. Together'
    BY <2>7, <2>8, <1>1, <1>5 DEF Together
  <2>12. NetsListed'
    <3>1. \A m \in LocalNets : net'[m] # NoNet => net'[m] \in nets'
      BY <2>7, <1>1, <1>10 DEF NetsListed
    <3>2. \A p \in 1..at : NetOfPin(p)' # NoNet
      <4> SUFFICES ASSUME NEW p \in 1..at PROVE NetOfPin(p)' # NoNet
        OBVIOUS
      <4>1. CASE p = at
        BY <4>1, <2>3, <2>7, <1>1, <1>3 DEF NetOfPin
      <4>2. CASE p # at
        <5>1. p \in 1..at - 1
          BY <4>2, <1>2 DEF Pins
        <5> QED BY <5>1, <2>3, <2>7, <1>1, <1>8 DEF NetOfPin
      <4> QED BY <4>1, <4>2
    <3>3. at' - 1 = at
      BY <1>1, <1>2 DEF Pins
    <3> QED BY <3>1, <3>2, <3>3, <1>1 DEF NetsListed
  <2>13. TitlesKnown'
    <3>1. \A x \in nets : x # n /\ x \in NetIds
      BY <1>6, <1>2 DEF TypeOK, NetIds
    <3>2. \A x \in nets : title'[x] = title[x] /\ title[x] \in DOMAIN net_dict
      BY <3>1, <1>1, <1>10 DEF TypeOK, TitlesKnown
    <3>3. title'[n] = q
      BY <2>3, <1>10 DEF TypeOK, q
    <3> QED BY <3>2, <3>3, <2>1, <2>4, <1>1, <1>10 DEF TitlesKnown
  <2> QED BY <2>5, <2>6, <2>9, <2>10, <2>11, <2>12, <2>13, <1>7
<1> QED
  <2>1. \/ /\ net[l] # NoNet
           /\ UNCHANGED <<created, nets, net, local_nets, naming, is_unconnected>>
        \/ /\ net[l] = NoNet
           /\ created' = n
           /\ nets' = nets \cup {n}
           /\ net' = [net EXCEPT ![l] = n]
           /\ local_nets' = [local_nets EXCEPT ![n] = {l}]
           /\ is_unconnected' = IF kind = "unnamed_net" THEN is_unconnected
                                ELSE is_unconnected \cup {n}
           /\ \E k \in counter[kind]..counter[kind] + Cardinality(DOMAIN net_dict) :
                /\ Number(space, kind, k)
                /\ counter' = [counter EXCEPT ![kind] = k + 1]
                /\ title' = [title EXCEPT ![n] = <<space, <<kind, k>>>>]
                /\ net_dict' = Renamed(net_dict, <<space, <<kind, k>>>>, n, {}, n)
           /\ UNCHANGED names
    BY DEF NamePin
  <2> HIDE DEF l, n, kind, space
  <2> QED BY <2>1, <1>9, <1>10

-----------------------------------------------------------------------------
(* From pins to ports.                                                     *)

LEMMA ReorderNetsInv ==
  ASSUME NetsInv, ReorderNets
  PROVE  NetsInv'
<1> USE DEF NetsInv
<1> DEFINE used == {net[design.local_net[p]] : p \in Pins}
<1>1. /\ phase = "pins" /\ at = NumPins + 1
      /\ UNCHANGED <<design, created, net, local_nets, names, net_dict, title, counter,
                     is_unconnected, connections, package_net>>
      /\ \/ phase' = "TypeError" /\ UNCHANGED <<at, nets, component_pins>>
         \/ /\ phase' = "ports" /\ at' = 1 /\ nets' = used
            /\ component_pins' = [n \in NetIds |-> {p \in Pins : net[design.local_net[p]] = n}]
  BY DEF ReorderNets, naming, packaging
<1>2. NumPins \in Nat /\ MaxNets \in Nat /\ Pins = 1..at - 1
  BY <1>1, NetsAssumption DEF Pins
<1>3. \A p \in Pins : /\ design.local_net[p] \in LocalNets
                      /\ NetOfPin(p) # NoNet /\ NetOfPin(p) \in nets
  BY <1>1, <1>2, DesignKnown DEF RoundsOK, NetsListed, NetOfPin
<1>4. DOMAIN design.labels = 1..Len(design.labels) /\ Len(design.links) \in Nat
  BY DesignKnown DEF RoundsOK
<1>5. LabelsDone' = LabelsDone /\ LinksDone' = LinksDone /\ LinksDone = {}
  BY <1>1 DEF LabelsDone, LinksDone
<1>6. used \subseteq nets
  BY <1>3 DEF NetOfPin
<1>7. nets' \subseteq nets
  BY <1>1, <1>6
<1>8. TypeOK'
  <2>1. component_pins' \in [NetIds -> SUBSET Pins]
    BY <1>1 DEF TypeOK
  <2>2. nets' \subseteq 1..created
    BY <1>7 DEF TypeOK
  <2>3. phase' \in {"ports", "TypeError"} /\ at' \in Nat \ {0}
    BY <1>1 DEF TypeOK
  <2> QED BY <2>1, <2>2, <2>3, <1>1 DEF TypeOK
<1>9. RoundsOK'
  BY <1>1, <1>4 DEF RoundsOK
<1>10. PiecesListed' /\ NamesLead' /\ NoConnectionLost'
  BY <1>1 DEF PiecesListed, NamesLead, NoConnectionLost
<1>11. LabelsAgree' /\ LinksAgree' /\ Together'
  BY <1>1, <1>5 DEF LabelsAgree, LinksAgree, Together, NameOf, NetOf, NetOfPin
<1>12. NetsListed'
  <2>1. \A p \in Pins : NetOfPin(p) \in used
    BY DEF NetOfPin
  <2> QED BY <2>1, <1>1, <1>3 DEF NetsListed, NetOfPin
<1>13. TitlesKnown'
  BY <1>1, <1>7 DEF TitlesKnown
<1>14. PinsListed'
  <2> SUFFICES ASSUME phase' = "ports", NEW p \in Pins
               PROVE  p \in component_pins'[NetOfPin(p)]
    BY <1>1 DEF PinsListed, NetOfPin
  <2>1. NetOfPin(p) \in NetIds
    BY <1>2, <1>3 DEF TypeOK, NetIds
  <2> QED BY <2>1, <1>1 DEF NetOfPin
<1> QED
  BY <1>8, <1>9, <1>10, <1>11, <1>12, <1>13, <1>14

-----------------------------------------------------------------------------
(* Ports.                                                                  *)

ThisLink == design.links[at]
Dest == NetOfPin(ThisLink.pin)
Merged == {NetOfPin(p) : p \in ThisLink.ports} \ {Dest}
Into(n) == IF n \in Merged THEN Dest ELSE n

LEMMA LinkNets ==
  ASSUME NetsInv, ConnectPorts
  PROVE  /\ phase = "ports" /\ at \in 1..Len(design.links) /\ at' = at + 1
         /\ UNCHANGED <<design, phase, created, net_dict, title, counter, is_unconnected,
                        connections, package_net>>
         /\ ThisLink.pin \in Pins /\ ThisLink.ports \in SUBSET Pins
         /\ nets' = nets \ Merged
         /\ names' = MovedNames(names, Merged, Dest)
         /\ Dest \in nets /\ Merged \subseteq nets /\ nets \subseteq NetIds /\ Dest \notin Merged
         /\ net' = [m \in LocalNets |-> Into(net[m])]
         /\ Into(NoNet) = NoNet
         /\ \A p \in ThisLink.ports : Into(NetOfPin(p)) = Dest
<1> USE DEF NetsInv
<1>1. /\ phase = "ports" /\ at <= Len(design.links) /\ at' = at + 1
      /\ UNCHANGED <<design, phase, created, net_dict, title, counter, is_unconnected,
                     connections, package_net>>
  BY DEF ConnectPorts, packaging
<1>2. at \in 1..Len(design.links)
  <2>1. at \in Nat \ {0} /\ Len(design.links) \in Nat
    BY DesignKnown DEF TypeOK, RoundsOK
  <2> QED BY <2>1, <1>1
<1>3. ThisLink.pin \in Pins /\ ThisLink.ports \in SUBSET Pins
  BY <1>2, DesignKnown DEF RoundsOK, ThisLink
<1>4. nets \subseteq NetIds
  BY NetsAssumption DEF TypeOK, NetIds
<1>5. Dest \in nets /\ Merged \subseteq nets /\ Dest \notin Merged
  BY <1>1, <1>3 DEF NetsListed, Dest, Merged
<1>6. /\ nets' = nets \ Merged
      /\ names' = MovedNames(names, Merged, Dest)
      /\ net' = Redirected(local_nets, Merged, Dest)
  BY DEF ConnectPorts, Merged, Dest, ThisLink, NetOfPin
<1>7. \A l \in LocalNets : l \in UNION {local_nets[g] : g \in Merged} <=> net[l] \in Merged
  <2>1. \A g \in Merged : local_nets[g] = {l \in LocalNets : net[l] = g}
    BY <1>4, <1>5 DEF PiecesListed
  <2> QED BY <2>1
<1>8. net' = [m \in LocalNets |-> Into(net[m])]
  BY <1>6, <1>7 DEF Redirected, Into
<1>9. Into(NoNet) = NoNet
  BY <1>4, <1>5 DEF Into, NetIds, NoNet
<1>10. \A p \in ThisLink.ports : Into(NetOfPin(p)) = Dest
  BY DEF Into, Merged
<1> QED
  BY <1>1, <1>2, <1>3, <1>4, <1>5, <1>6, <1>8, <1>9, <1>10

(* The pieces of a net stay those that lead to it.                         *)
LEMMA MovedFollows ==
  ASSUME PiecesListed, NEW gone \in SUBSET NetIds, NEW dst \in NetIds, dst \notin gone,
         NEW k \in NetIds
  PROVE  \A l : l \in Moved(local_nets, gone, dst)[k] <=>
                  l \in LocalNets /\ (IF net[l] \in gone THEN dst ELSE net[l]) = k
<1>1. Moved(local_nets, gone, dst)[k] =
        IF k = dst THEN local_nets[k] \cup UNION {local_nets[g] : g \in gone}
        ELSE IF k \in gone THEN {} ELSE local_nets[k]
  BY DEF Moved
<1>2. \A l : l \in UNION {local_nets[g] : g \in gone} <=> l \in LocalNets /\ net[l] \in gone
  <2>1. \A g \in gone : \A l : l \in local_nets[g] <=> l \in LocalNets /\ net[l] = g
    BY DEF PiecesListed
  <2> QED BY <2>1
<1>3. \A l : l \in local_nets[k] <=> l \in LocalNets /\ net[l] = k
  BY DEF PiecesListed
<1> QED BY <1>1, <1>2, <1>3

LEMMA LinkTyped ==
  ASSUME NetsInv, ConnectPorts
  PROVE  TypeOK' /\ RoundsOK' /\ PiecesListed'
<1> USE DEF NetsInv
<1> USE LinkNets
<1>1. \A f \in [NetIds -> SUBSET LocalNets] : Moved(f, Merged, Dest) \in [NetIds -> SUBSET LocalNets]
  BY DEF Moved
<1>2. \A f \in [NetIds -> SUBSET Pins] : Moved(f, Merged, Dest) \in [NetIds -> SUBSET Pins]
  BY DEF Moved
<1>3. local_nets' = Moved(local_nets, Merged, Dest)
  BY DEF ConnectPorts, Merged, Dest, ThisLink, NetOfPin
<1>4. component_pins' = [Moved(component_pins, Merged, Dest) EXCEPT
                           ![Dest] = @ \ ({ThisLink.pin} \cup ThisLink.ports)]
  BY DEF ConnectPorts, Merged, Dest, ThisLink, NetOfPin, PinsMoved
<1>5. local_nets' \in [NetIds -> SUBSET LocalNets]
  BY <1>1, <1>3 DEF TypeOK
<1>6. component_pins' \in [NetIds -> SUBSET Pins]
  <2>1. Moved(component_pins, Merged, Dest) \in [NetIds -> SUBSET Pins]
    BY <1>2 DEF TypeOK
  <2> QED BY <2>1, <1>4
<1>7. names' \in [NetIds -> [BOOLEAN -> SUBSET QNames]]
  <2>1. \A f \in BOOLEAN : \A n \in NetIds : names[n][f] \in SUBSET QNames
    BY DEF TypeOK
  <2>2. \A f \in BOOLEAN : UNION {names[g][f] : g \in Merged} \in SUBSET QNames
    BY <2>1
  <2> QED BY <2>1, <2>2 DEF MovedNames
<1>8. net' \in [LocalNets -> 0..created']
  <2>1. Dest \in 0..created
    BY DEF TypeOK
  <2>2. \A m \in LocalNets : net[m] \in 0..created
    BY DEF TypeOK
  <2> QED BY <2>1, <2>2 DEF Into
<1>9. TypeOK'
  <2>1. at' \in Nat \ {0} /\ nets' \subseteq 1..created'
    BY DEF TypeOK
  <2> QED BY <2>1, <1>5, <1>6, <1>7, <1>8 DEF TypeOK
<1>10. RoundsOK'
  BY DesignKnown DEF RoundsOK
<1>11. PiecesListed'
  <2> SUFFICES ASSUME NEW k \in NetIds
               PROVE  local_nets'[k] = {m \in LocalNets : net'[m] = k}
    BY DEF PiecesListed
  <2>1. \A m : m \in Moved(local_nets, Merged, Dest)[k] <=>
          m \in LocalNets /\ (IF net[m] \in Merged THEN Dest ELSE net[m]) = k
    BY MovedFollows
  <2>2. local_nets'[k] \in SUBSET LocalNets
    BY <1>5
  <2>3. \A m \in LocalNets : net'[m] = IF net[m] \in Merged THEN Dest ELSE net[m]
    BY DEF Into
  <2> QED BY <2>1, <2>2, <2>3, <1>3
<1> QED BY <1>9, <1>10, <1>11

LEMMA LinkAgrees ==
  ASSUME NetsInv, ConnectPorts
  PROVE  LabelsAgree' /\ LinksAgree'
<1> USE DEF NetsInv
<1> USE LinkNets
<1>1. LabelsDone' = LabelsDone /\ LabelsDone = 1..Len(design.labels)
  BY DesignKnown DEF LabelsDone, RoundsOK
<1>2. LinksDone = 1..at - 1 /\ LinksDone' = 1..at
  BY DEF LinksDone
<1>3. \A i : NameOf(i)' = NameOf(i)
  BY DEF NameOf
<1>4. \A i \in LabelsDone : NetOf(i)' = Into(NetOf(i))
  <2>1. \A i \in LabelsDone : design.labels[i].net \in LocalNets
    BY <1>1, DesignKnown DEF RoundsOK
  <2> QED BY <2>1 DEF NetOf
<1>5. \A p \in Pins : NetOfPin(p)' = Into(NetOfPin(p))
  <2>1. \A p \in Pins : design.local_net[p] \in LocalNets
    BY DesignKnown DEF RoundsOK
  <2> QED BY <2>1 DEF NetOfPin
<1>6. \A n : n # NoNet => Into(n) # NoNet
  BY DEF Into, NetIds, NoNet
<1>7. LabelsAgree'
  BY <1>1, <1>3, <1>4, <1>6 DEF LabelsAgree
<1>8. ASSUME NEW j \in 1..at, NEW p \in design.links[j].ports
      PROVE  NetOfPin(design.links[j].pin)' = NetOfPin(p)'
  <2>1. design.links[j].pin \in Pins /\ p \in Pins
    <3>1. j \in 1..Len(design.links)
      BY DesignKnown DEF RoundsOK
    <3> QED BY <3>1, DesignKnown DEF RoundsOK
  <2>2. CASE j = at
    <3>1. Into(Dest) = Dest
      BY DEF Into
    <3> QED BY <3>1, <2>1, <2>2, <1>5 DEF ThisLink, Dest
  <2>3. CASE j # at
    <3>1. NetOfPin(design.links[j].pin) = NetOfPin(p)
      BY <2>3, <1>2 DEF LinksAgree
    <3> QED BY <3>1, <2>1, <1>5
  <2> QED BY <2>2, <2>3
<1> QED BY <1>2, <1>7, <1>8 DEF LinksAgree

LEMMA LinkTogether ==
  ASSUME NetsInv, ConnectPorts
  PROVE  Together'
<1> USE DEF NetsInv
<1> USE LinkNets
<1>1. LabelsDone' = LabelsDone
  BY DEF LabelsDone
<1>2. LinksDone = 1..at - 1 /\ LinksDone' = 1..at
  BY DEF LinksDone
<1> SUFFICES ASSUME NEW S \in SUBSET LocalNets, Closed(design, S, LabelsDone, 1..at),
                    NEW l \in LocalNets, NEW m \in LocalNets,
                    net'[l] # NoNet, net'[l] = net'[m]
             PROVE  l \in S <=> m \in S
  BY <1>1, <1>2 DEF Together
<1>3. Closed(design, S, LabelsDone, LinksDone)
  BY <1>2 DEF Closed
<1>4. \A x, y \in LocalNets : net[x] # NoNet /\ net[x] = net[y] => (x \in S <=> y \in S)
  BY <1>3 DEF Together
<1>5. \A p \in ThisLink.ports : design.local_net[ThisLink.pin] \in S <=> design.local_net[p] \in S
  BY DEF Closed, ThisLink
<1>6. \A p \in Pins : design.local_net[p] \in LocalNets /\ NetOfPin(p) # NoNet
  BY DesignKnown DEF RoundsOK, NetsListed
<1>7. \A x \in LocalNets : net'[x] = Into(net[x])
  OBVIOUS
<1>8. ASSUME NEW x \in LocalNets, net'[x] = Dest
      PROVE  x \in S <=> design.local_net[ThisLink.pin] \in S
  <2>1. CASE net[x] = Dest
    BY <2>1, <1>4, <1>6 DEF Dest, NetOfPin
  <2>2. CASE net[x] \in Merged
    <3>1. PICK p \in ThisLink.ports : net[x] = NetOfPin(p)
      BY <2>2 DEF Merged
    <3>2. x \in S <=> design.local_net[p] \in S
      BY <3>1, <1>4, <1>6 DEF NetOfPin
    <3> QED BY <3>1, <3>2, <1>5
  <2> QED BY <2>1, <2>2, <1>7, <1>8 DEF Into
<1>9. CASE net'[l] = Dest
  BY <1>8, <1>9
<1>10. CASE net'[l] # Dest
  <2>1. net[l] = net'[l] /\ net[m] = net'[m]
    BY <1>7, <1>10 DEF Into
  <2> QED BY <2>1, <1>4
<1> QED BY <1>9, <1>10

LEMMA ConnectPortsInv ==
  ASSUME NetsInv, ConnectPorts
  PROVE  NetsInv'
<1> USE DEF NetsInv
<1> USE LinkNets
<1>1. ASSUME NEW p \in Pins
      PROVE  /\ NetOfPin(p)' = Into(NetOfPin(p))
             /\ NetOfPin(p)' \in nets' /\ NetOfPin(p)' # NoNet
             /\ NetOfPin(p) \in nets
  <2>1. design.local_net[p] \in LocalNets
    BY DesignKnown DEF RoundsOK
  <2>2. NetOfPin(p)' = Into(NetOfPin(p))
    BY <2>1 DEF NetOfPin
  <2>3. NetOfPin(p) \in nets
    BY DEF NetsListed
  <2> QED BY <2>2, <2>3 DEF Into, NetIds, NoNet
<1>2. NetsListed'
  BY <1>1 DEF NetsListed
<1>3. NamesLead' /\ NoConnectionLost' /\ TitlesKnown'
  BY DEF NamesLead, NoConnectionLost, TitlesKnown
<1>4. PinsListed'
  <2> SUFFICES ASSUME NEW p \in Pins \ Hierarchical(design)
               PROVE  p \in component_pins'[NetOfPin(p)']
    BY DEF PinsListed
  <2>1. p \in component_pins[NetOfPin(p)]
    BY DEF PinsListed
  <2>2. p \notin {ThisLink.pin} \cup ThisLink.ports
    BY DesignKnown DEF Hierarchical, ThisLink, RoundsOK
  <2> DEFINE after == Moved(component_pins, Merged, Dest)
  <2>3. component_pins' = [after EXCEPT ![Dest] = @ \ ({ThisLink.pin} \cup ThisLink.ports)]
    BY DEF ConnectPorts, Merged, Dest, ThisLink, NetOfPin, PinsMoved
  <2>4. p \in after[NetOfPin(p)']
    <3>1. after[Dest] = component_pins[Dest] \cup UNION {component_pins[g] : g \in Merged}
      BY DEF Moved
    <3>2. CASE NetOfPin(p) \in Merged
      BY <3>1, <3>2, <2>1, <1>1 DEF Into
    <3>3. CASE NetOfPin(p) \notin Merged
      <4>1. NetOfPin(p)' = NetOfPin(p) /\ NetOfPin(p) \in NetIds
        BY <3>3, <1>1 DEF Into
      <4>2. CASE NetOfPin(p) = Dest
        BY <3>1, <4>1, <4>2, <2>1
      <4>3. CASE NetOfPin(p) # Dest
        BY <3>3, <4>1, <4>3, <2>1 DEF Moved
      <4> QED BY <4>2, <4>3
    <3> QED BY <3>2, <3>3
  <2>5. DOMAIN after = NetIds
    BY DEF Moved
  <2> HIDE DEF after
  <2> QED BY <2>2, <2>3, <2>4, <2>5, <1>1
<1> QED
  BY <1>2, <1>3, <1>4, LinkTyped, LinkAgrees, LinkTogether

-----------------------------------------------------------------------------
(* Components.                                                             *)

(* The pieces of one net are closed under names and ports, so pieces that  *)
(* are connected have the same net, or both have none.                     *)
LEMMA ConnectedShareNet ==
  ASSUME design \in Designs, LabelsAgree, LinksAgree, LinksDone \subseteq 1..Len(design.links),
         LabelsDone \subseteq 1..Len(design.labels),
         NEW l \in LocalNets, NEW m \in LocalNets, Connected(Undivided, l, m)
  PROVE  net[l] = net[m]
<1> DEFINE S == {x \in LocalNets : net[x] = net[l]}
<1>1. \A i \in LabelsDone : design.labels[i].net \in S <=> NetOf(i) = net[l]
  BY DesignKnown DEF NetOf
<1>2. ASSUME NEW j \in LinksDone, NEW p \in design.links[j].ports
      PROVE  design.local_net[design.links[j].pin] \in S <=> design.local_net[p] \in S
  <2>1. design.links[j].pin \in Pins /\ p \in Pins
    BY DesignKnown
  <2>2. /\ design.local_net[design.links[j].pin] \in LocalNets
        /\ design.local_net[p] \in LocalNets
    BY <2>1, DesignKnown
  <2>3. net[design.local_net[design.links[j].pin]] = net[design.local_net[p]]
    BY DEF LinksAgree, NetOfPin
  <2> QED BY <2>2, <2>3
<1>3. Closed(design, S, LabelsDone, LinksDone)
  BY <1>1, <1>2 DEF Closed, LabelsAgree, NameOf
<1>4. S \in Undivided
  BY <1>3 DEF Undivided
<1>5. l \in S <=> m \in S
  BY <1>4 DEF Connected
<1> QED BY <1>5

LEMMA RoundsBound ==
  ASSUME NetsInv
  PROVE  /\ LinksDone \subseteq 1..Len(design.links)
         /\ LabelsDone \subseteq 1..Len(design.labels)
<1> USE DEF NetsInv
<1>1. /\ DOMAIN design.labels = 1..Len(design.labels) /\ Len(design.labels) \in Nat
      /\ DOMAIN design.links = 1..Len(design.links) /\ Len(design.links) \in Nat
  BY DesignKnown DEF RoundsOK
<1>2. at \in Nat
  BY DEF TypeOK
<1> QED BY <1>1, <1>2 DEF RoundsOK, LabelsDone, LinksDone

-----------------------------------------------------------------------------
(* Packages.                                                               *)

LEMMA PackageNets ==
  ASSUME NetsInv, Package
  PROVE  /\ phase = "ports" /\ phase' = "done"
         /\ UNCHANGED <<design, at, created, net, local_nets, names, net_dict, title, counter,
                        is_unconnected>>
         /\ nets' \subseteq nets
         /\ LabelsDone' = LabelsDone /\ LinksDone' = LinksDone
<1> USE DEF NetsInv
<1>1. /\ phase = "ports" /\ at = Len(design.links) + 1 /\ phase' = "done"
      /\ UNCHANGED <<design, at, created, net, local_nets, names, net_dict, title, counter,
                     is_unconnected>>
  BY DEF Package, naming
<1>2. nets' \subseteq nets
  BY DEF Package
<1>3. DOMAIN design.links = 1..Len(design.links) /\ Len(design.links) \in Nat
  BY DesignKnown DEF RoundsOK
<1> QED BY <1>1, <1>2, <1>3 DEF LabelsDone, LinksDone

LEMMA PackageTyped ==
  ASSUME NetsInv, Package
  PROVE  TypeOK'
<1> USE DEF NetsInv
<1> USE PackageNets
<1>1. nets \subseteq NetIds
  BY NetsAssumption DEF TypeOK, NetIds
<1>2. component_pins' \in [NetIds -> SUBSET Pins]
  <2>1. component_pins' = [n \in NetIds |-> component_pins[n] \ design.graphical]
    BY DEF Package
  <2> QED BY <2>1 DEF TypeOK
<1>3. connections' \in [NetIds -> SUBSET PackagePins]
  <2>1. connections' = [n \in NetIds |-> PackagePinsOf(component_pins'[n])]
    BY DEF Package
  <2>2. \A S \in SUBSET Pins : PackagePinsOf(S) \in SUBSET PackagePins
    BY DesignKnown DEF PackagePinsOf, RoundsOK
  <2> QED BY <2>1, <2>2, <1>2
<1>4. package_net' \in [PackagePins -> NetIds \cup {NoNet}]
  <2>1. package_net' = [a \in PackagePins |->
          IF PinsOfPackagePin(design, a) = {} THEN NoNet
          ELSE net[design.local_net[First(Candidates(PinsOfPackagePin(design, a)))]]]
    BY DEF Package
  <2>2. ASSUME NEW S \in SUBSET Pins, S # {}
        PROVE  net[design.local_net[First(Candidates(S))]] \in NetIds
    <3>1. Candidates(S) \in SUBSET Pins /\ Candidates(S) # {}
      BY <2>2 DEF Candidates
    <3>2. First(Candidates(S)) \in Pins
      BY <3>1, FirstPin
    <3> QED BY <3>2, <1>1 DEF NetsListed, NetOfPin
  <2>3. \A a : PinsOfPackagePin(design, a) \in SUBSET Pins
    BY DEF PinsOfPackagePin, Remaining
  <2> QED BY <2>1, <2>2, <2>3
<1>5. nets' \subseteq 1..created
  BY DEF TypeOK
<1> QED BY <1>2, <1>3, <1>4, <1>5 DEF TypeOK

LEMMA PackageLosesNothing ==
  ASSUME NetsInv, Package
  PROVE  NoConnectionLost'
<1> USE DEF NetsInv
<1> USE PackageNets
<1>1. Undivided' = Undivided
  BY DEF Undivided
<1> SUFFICES ASSUME NEW a \in PackagePins, NEW b \in PackagePins,
                    NEW p \in PinsOfPackagePin(design, a), NEW q \in PinsOfPackagePin(design, b),
                    a # b, Connected(Undivided, design.local_net[p], design.local_net[q])
             PROVE  \E n \in nets' : {a, b} \subseteq connections'[n]
  BY <1>1 DEF NoConnectionLost
<1>2. /\ p \in Pins \ Hierarchical(design) /\ q \in Pins \ Hierarchical(design)
      /\ p \notin design.graphical /\ q \notin design.graphical
      /\ design.package_pin[p] = a /\ design.package_pin[q] = b
  BY DEF PinsOfPackagePin, Remaining
<1>3. design.local_net[p] \in LocalNets /\ design.local_net[q] \in LocalNets
  BY <1>2, DesignKnown DEF RoundsOK
<1>4. NetOfPin(p) = NetOfPin(q)
  <2>1. design \in Designs
    BY DEF RoundsOK
  <2> QED BY <2>1, <1>3, RoundsBound, ConnectedShareNet DEF NetOfPin
<1> DEFINE n == NetOfPin(p)
<1>5. n \in nets /\ n \in NetIds
  BY <1>2, NetsAssumption DEF NetsListed, TypeOK, NetIds
<1>6. p \in component_pins[n] /\ q \in component_pins[n] /\ component_pins[n] \in SUBSET Pins
  BY <1>2, <1>4, <1>5 DEF PinsListed, TypeOK
<1> HIDE DEF n
<1> DEFINE S == component_pins[n] \ design.graphical
<1>7. connections'[n] = PackagePinsOf(S)
  BY <1>5 DEF Package
<1>8. S \in SUBSET Pins /\ p \in S /\ q \in S
  BY <1>2, <1>6
<1> HIDE DEF S
<1>9. connections'[n] = {design.package_pin[x] : x \in S} \ {NoPackage}
  BY <1>7 DEF PackagePinsOf
<1>10. a # NoPackage /\ b # NoPackage
  BY NetsAssumption
<1>11. a \in connections'[n] /\ b \in connections'[n]
  BY <1>2, <1>8, <1>9, <1>10
<1>12. Cardinality(connections'[n]) > 1
  <2>1. design \in Design
    BY DEF TypeOK
  <2> QED BY <2>1, <1>8, <1>9, <1>11, TwoPackagePins
<1>13. n \in nets'
  BY <1>5, <1>12 DEF Package, Kept
<1> QED BY <1>11, <1>13

LEMMA PackageInv ==
  ASSUME NetsInv, Package
  PROVE  NetsInv'
<1> USE DEF NetsInv
<1> USE PackageNets
<1>1. RoundsOK' /\ PiecesListed' /\ NamesLead' /\ PinsListed'
  BY DEF RoundsOK, PiecesListed, NamesLead, PinsListed
<1>2. LabelsAgree' /\ LinksAgree' /\ Together'
  BY DEF LabelsAgree, LinksAgree, Together, NameOf, NetOf, NetOfPin
<1>3. NetsListed' /\ TitlesKnown'
  BY DEF NetsListed, TitlesKnown, NetOfPin
<1> QED BY <1>1, <1>2, <1>3, PackageTyped, PackageLosesNothing

-----------------------------------------------------------------------------
(* The theorems.                                                           *)

LEMMA StutterInv ==
  ASSUME NetsInv, UNCHANGED vars
  PROVE  NetsInv'
<1>1. UNCHANGED <<design, phase, at, created, nets, net, local_nets, names, net_dict, title,
                  counter, is_unconnected, component_pins, connections, package_net>>
  BY DEF vars, naming, packaging
<1>2. LabelsDone' = LabelsDone /\ LinksDone' = LinksDone
  BY <1>1 DEF LabelsDone, LinksDone
<1>3. TypeOK' /\ RoundsOK' /\ PiecesListed' /\ NetsListed' /\ TitlesKnown' /\ PinsListed'
  BY <1>1 DEF NetsInv, TypeOK, RoundsOK, PiecesListed, NetsListed, TitlesKnown, PinsListed, NetOfPin
<1>4. NamesLead' /\ LabelsAgree' /\ LinksAgree' /\ Together'
  BY <1>1, <1>2 DEF NetsInv, NamesLead, LabelsAgree, LinksAgree, Together, NameOf, NetOf, NetOfPin
<1>5. NoConnectionLost'
  BY <1>1, <1>2 DEF NetsInv, NoConnectionLost, Undivided
<1> QED BY <1>3, <1>4, <1>5 DEF NetsInv

LEMMA Invariance == Spec => []NetsInv
<1>1. NetsInv /\ [Next]_vars => NetsInv'
  BY NameNetInv, PrioritizeNamesInv, NamePinInv, ReorderNetsInv, ConnectPortsInv, PackageInv,
     StutterInv DEF Next, Finished
<1> QED BY <1>1, InitInv, PTL DEF Spec

(* Everything the netlister keeps has its type at every step: no round     *)
(* runs out of Net objects, and every package pin that remains gets a net. *)
THEOREM NetsTyped == Spec => []TypeOK
<1>1. NetsInv => TypeOK
  BY DEF NetsInv
<1> QED BY <1>1, Invariance, PTL

(* While names are given, names and nets lead to each other whatever was   *)
(* merged, and at every step nets and net pieces do (net.py).              *)
THEOREM NamesFollowMerges == Spec => []NamesLeadToNets
<1>1. NetsInv => NamesLeadToNets
  <2> SUFFICES ASSUME NetsInv PROVE NamesLeadToNets
    OBVIOUS
  <2>1. nets \subseteq NetIds /\ 1..created \subseteq NetIds
    BY NetsAssumption DEF NetsInv, TypeOK, NetIds
  <2> QED BY <2>1 DEF NetsInv, NamesLead, PiecesListed, NamesLeadToNets
<1> QED BY <1>1, Invariance, PTL

(* For any design, in whatever order names are considered and ports are    *)
(* connected: two net pieces are in one net if and only if names and ports *)
(* connect them.                                                           *)
THEOREM NetsCorrect == Spec => []NetsAreComponents
<1>1. NetsInv => NetsAreComponents
  <2> SUFFICES ASSUME NetsInv, NEW l \in LocalNets, NEW m \in LocalNets, net[l] # NoNet
               PROVE  net[l] = net[m] <=> Connected(Undivided, l, m)
    BY DEF NetsAreComponents
  <2>1. ASSUME net[l] = net[m] PROVE Connected(Undivided, l, m)
    BY <2>1 DEF NetsInv, Together, Connected, Undivided
  <2>2. ASSUME Connected(Undivided, l, m) PROVE net[l] = net[m]
    <3>1. design \in Designs /\ LabelsAgree /\ LinksAgree
      BY DEF NetsInv, RoundsOK
    <3> QED BY <2>2, <3>1, RoundsBound, ConnectedShareNet
  <2> QED BY <2>1, <2>2
<1> QED BY <1>1, Invariance, PTL

(* No two nets are shown under one name, whatever names attributes give.   *)
THEOREM TitlesStayUnique == Spec => []TitlesUnique
<1>1. NetsInv => TitlesUnique
  BY DEF NetsInv, TitlesKnown, TitlesUnique
<1> QED BY <1>1, Invariance, PTL

(* If names and ports connect pins of two packages, a net that is kept     *)
(* connects them.                                                          *)
THEOREM NothingIsDisconnected == Spec => []NoConnectionLost
<1>1. NetsInv => NoConnectionLost
  BY DEF NetsInv
<1> QED BY <1>1, Invariance, PTL

=============================================================================
