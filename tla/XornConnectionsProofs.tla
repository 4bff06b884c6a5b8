----------------------- MODULE XornConnectionsProofs ------------------------
(* Proofs of the properties of XornConnections, for all sheets.            *)
EXTENDS XornConnections, FiniteSetTheorems, TLAPS

-----------------------------------------------------------------------------
(* The stack of calls, seen as the set of instances that will be visited.  *)

Pending(st) == UNION {st[k] : k \in 1..Len(st)}

(* A call adds the instances that it will visit.                           *)
LEMMA PendingPush ==
  ASSUME NEW I, NEW A \in SUBSET I, NEW s \in Seq(SUBSET I)
  PROVE  /\ <<A>> \o s \in Seq(SUBSET I)
         /\ Len(<<A>> \o s) = Len(s) + 1
         /\ Pending(<<A>> \o s) = A \cup Pending(s)
<1> DEFINE t == <<A>> \o s
<1>1. t \in Seq(SUBSET I) /\ Len(t) = Len(s) + 1
  OBVIOUS
<1>2. t[1] = A /\ \A k \in 1..Len(s) : t[k + 1] = s[k]
  OBVIOUS
<1>3. ASSUME NEW x \in Pending(t)
      PROVE  x \in A \cup Pending(s)
  <2>1. PICK k \in 1..Len(t) : x \in t[k]
    BY <1>3 DEF Pending
  <2>2. CASE k = 1
    BY <2>1, <2>2, <1>2
  <2>3. CASE k # 1
    <3>1. k - 1 \in 1..Len(s) /\ t[k] = s[k - 1]
      BY <2>3, <1>1, <1>2
    <3> QED BY <3>1, <2>1 DEF Pending
  <2> QED BY <2>2, <2>3
<1>4. ASSUME NEW x \in A \cup Pending(s)
      PROVE  x \in Pending(t)
  <2>1. CASE x \in A
    <3>1. 1 \in 1..Len(t)
      BY <1>1
    <3> QED BY <2>1, <3>1, <1>2 DEF Pending
  <2>2. CASE x \in Pending(s)
    <3>1. PICK k \in 1..Len(s) : x \in s[k]
      BY <2>2 DEF Pending
    <3>2. k + 1 \in 1..Len(t) /\ x \in t[k + 1]
      BY <3>1, <1>1, <1>2
    <3> HIDE DEF t
    <3> QED BY <3>2 DEF Pending
  <2> QED BY <1>4, <2>1, <2>2
<1> QED BY <1>1, <1>3, <1>4

(* The innermost call and the others.                                      *)
LEMMA PendingPop ==
  ASSUME NEW I, NEW s \in Seq(SUBSET I), s # << >>
  PROVE  /\ Head(s) \in SUBSET I /\ Tail(s) \in Seq(SUBSET I)
         /\ Len(Tail(s)) = Len(s) - 1 /\ Len(s) > 0
         /\ Pending(s) = Head(s) \cup Pending(Tail(s))
<1>1. /\ Head(s) \in SUBSET I /\ Tail(s) \in Seq(SUBSET I)
      /\ Len(Tail(s)) = Len(s) - 1 /\ Len(s) > 0
  OBVIOUS
<1>2. s = <<Head(s)>> \o Tail(s)
  OBVIOUS
<1>3. \A A \in SUBSET I, u \in Seq(SUBSET I) : Pending(<<A>> \o u) = A \cup Pending(u)
  BY PendingPush
<1>4. Pending(<<Head(s)>> \o Tail(s)) = Head(s) \cup Pending(Tail(s))
  BY <1>1, <1>3
<1> QED BY <1>1, <1>2, <1>4

(* The same for the stack of the traversal.                                *)
LEMMA PushInstances ==
  \A A \in SUBSET Instances, s \in Seq(SUBSET Instances) :
    /\ <<A>> \o s \in Seq(SUBSET Instances)
    /\ Len(<<A>> \o s) = Len(s) + 1
    /\ Pending(<<A>> \o s) = A \cup Pending(s)
<1> DEFINE I == Instances
<1> HIDE DEF I
<1>1. \A A \in SUBSET I, s \in Seq(SUBSET I) :
        /\ <<A>> \o s \in Seq(SUBSET I)
        /\ Len(<<A>> \o s) = Len(s) + 1
        /\ Pending(<<A>> \o s) = A \cup Pending(s)
  BY PendingPush
<1> QED BY <1>1 DEF I

LEMMA PopInstances ==
  \A s \in Seq(SUBSET Instances) : s # << >> =>
    /\ Head(s) \in SUBSET Instances /\ Tail(s) \in Seq(SUBSET Instances)
    /\ Len(Tail(s)) = Len(s) - 1 /\ Len(s) > 0
    /\ Pending(s) = Head(s) \cup Pending(Tail(s))
<1> DEFINE I == Instances
<1> HIDE DEF I
<1>1. \A s \in Seq(SUBSET I) : s # << >> =>
        /\ Head(s) \in SUBSET I /\ Tail(s) \in Seq(SUBSET I)
        /\ Len(Tail(s)) = Len(s) - 1 /\ Len(s) > 0
        /\ Pending(s) = Head(s) \cup Pending(Tail(s))
  BY PendingPop
<1> QED BY <1>1 DEF I

LEMMA PendingOne == \A A : Pending(<<A>>) = A
<1> TAKE A
<1>1. /\ Len(<<A>>) = 1 /\ <<A>>[1] = A
  OBVIOUS
<1>2. Pending(<<A>>) = UNION {<<A>>[k] : k \in {1}}
  BY <1>1 DEF Pending
<1> QED BY <1>1, <1>2

-----------------------------------------------------------------------------
(* Connections.                                                            *)

(* What is in a symbol is a pin.                                           *)
LEMMA SymbolsHavePins ==
  ASSUME sheet \in Seq(NetData \cup Component), NEW n \in Instances, InSymbol(n)
  PROVE  Data(n).is_pin
<1>1. PICK i \in DOMAIN sheet : /\ IsComponent(i)
                               /\ n[1] = i /\ n[2] \in DOMAIN SymbolPins[sheet[i].symbol]
  BY DEF Instances, InSymbol
<1>2. sheet[i] \in Component
  BY <1>1 DEF IsComponent, NetData
<1>3. sheet[i].symbol \in Symbols
  BY <1>2 DEF Component
<1> QED BY <1>1, <1>3, ConnectionsAssumption DEF Data

LEMMA AllCanConnect ==
  ASSUME sheet \in Seq(NetData \cup Component), NEW n \in Instances, NEW m \in Instances
  PROVE  CanConnect(n, m)
BY SymbolsHavePins DEF CanConnect

(* The connections that are found for n are places where it touches another*)
(* instance, and come in both directions.                                  *)
LEMMA FoundTouches ==
  ASSUME NEW n \in Instances, NEW c \in Found(n)
  PROVE  /\ c.from \in Instances /\ c.to \in Instances
         /\ Reversed(c) \in Found(n)
         /\ TouchOther(c.from, c.to)
<1> DEFINE Others == {x \in Instances : Ob(x) # Ob(n) /\ CanConnect(n, x)}
           At(m) == EndpointConnections(n, m) \cup MidpointConnections(n, m)
           One == UNION {At(m) : m \in Others}
<1>1. \A d : Reversed(d).from = d.to /\ Reversed(d).to = d.from
  BY DEF Reversed, Connection
<1>2. ASSUME NEW d \in One
      PROVE  /\ d.from = n /\ d.to \in Instances /\ Ob(d.to) # Ob(n) /\ Touching(n, d.to)
             /\ Reversed(Reversed(d)) = d
  <2>1. PICK m \in Others : d \in At(m)
    BY <1>2
  <2>2. CASE d \in EndpointConnections(n, m)
    <3>1. PICK x \in Ends(n) \X Ends(m) :
            /\ Endpoint(n, x[1]) = Endpoint(m, x[2]) /\ Data(n).is_bus = Data(m).is_bus
            /\ d = Connection("endpoint", n, x[1], m, x[2])
      BY <2>2 DEF EndpointConnections
    <3>2. Touching(n, m)
      BY <3>1 DEF Touching
    <3> QED BY <3>1, <3>2 DEF Connection, Reversed
  <2>3. CASE d \in MidpointConnections(n, m)
    <3>1. PICK e \in Ends(n) :
            /\ ~Data(m).is_pin /\ OnMiddle(m, Endpoint(n, e))
            /\ \/ ~Data(n).is_pin /\ ~Data(n).is_bus /\ Data(m).is_bus
               \/ Data(n).is_bus = Data(m).is_bus
            /\ d = Connection("midpoint", n, e, m, -1)
      BY <2>3 DEF MidpointConnections
    <3>2. Touching(n, m)
      BY <3>1 DEF Touching
    <3> QED BY <3>1, <3>2 DEF Connection, Reversed
  <2> QED BY <2>1, <2>2, <2>3
<1>3. Found(n) = One \cup {Reversed(d) : d \in One}
  BY DEF Found
<1> HIDE DEF One
<1>4. CASE c \in One
  BY <1>2, <1>3, <1>4 DEF TouchOther, Touch
<1>5. CASE c \notin One
  <2>1. PICK d \in One : c = Reversed(d)
    BY <1>3, <1>5
  <2> QED BY <2>1, <1>1, <1>2, <1>3 DEF TouchOther, Touch
<1> QED BY <1>4, <1>5

(* Wherever n touches another instance, a connection is found.             *)
LEMMA TouchesFound ==
  ASSUME sheet \in Seq(NetData \cup Component), NEW n \in Instances, NEW m \in Instances,
         Ob(n) # Ob(m), Touching(n, m)
  PROVE  \E c \in Found(n) : c.from = n /\ c.to = m
<1>1. CanConnect(n, m)
  BY AllCanConnect
<1>2. \E c \in EndpointConnections(n, m) \cup MidpointConnections(n, m) : c.from = n /\ c.to = m
  <2>1. PICK e \in Ends(n) :
          \/ /\ Data(n).is_bus = Data(m).is_bus
             /\ \/ \E f \in Ends(m) : Endpoint(n, e) = Endpoint(m, f)
                \/ ~Data(m).is_pin /\ OnMiddle(m, Endpoint(n, e))
          \/ /\ ~Data(n).is_pin /\ ~Data(n).is_bus /\ ~Data(m).is_pin /\ Data(m).is_bus
             /\ OnMiddle(m, Endpoint(n, e))
    BY DEF Touching
  <2>2. CASE ~Data(m).is_pin /\ OnMiddle(m, Endpoint(n, e))
    <3>1. Connection("midpoint", n, e, m, -1) \in MidpointConnections(n, m)
      BY <2>1, <2>2 DEF MidpointConnections
    <3> QED BY <3>1 DEF Connection
  <2>3. CASE /\ Data(n).is_bus = Data(m).is_bus
             /\ \E f \in Ends(m) : Endpoint(n, e) = Endpoint(m, f)
    <3>1. PICK f \in Ends(m) : Endpoint(n, e) = Endpoint(m, f)
      BY <2>3
    <3>2. <<e, f>> \in Ends(n) \X Ends(m)
      OBVIOUS
    <3>3. Connection("endpoint", n, e, m, f) \in EndpointConnections(n, m)
      BY <2>3, <3>1, <3>2 DEF EndpointConnections
    <3> QED BY <3>3 DEF Connection
  <2> QED BY <2>1, <2>2, <2>3
<1> QED BY <1>1, <1>2 DEF Found

(* Nothing is read but the sheet, which does not change.                   *)
LEMMA SameSheet ==
  ASSUME sheet' = sheet
  PROVE  /\ Instances' = Instances
         /\ \A n, m : /\ TouchOther(n, m)' = TouchOther(n, m)
                      /\ (Ob(n) # Ob(m) /\ Touching(n, m))' <=> Ob(n) # Ob(m) /\ Touching(n, m)
<1>1. \A i : IsComponent(i)' = IsComponent(i)
  BY DEF IsComponent
<1>2. Instances' = Instances
  BY <1>1 DEF Instances
<1>3. \A n : Data(n)' = Data(n) /\ Ob(n)' = Ob(n)
  BY DEF Data, Ob
<1>4. \A n : Ends(n)' = Ends(n)
  BY <1>3 DEF Ends
<1>5. \A n, e : Endpoint(n, e)' = Endpoint(n, e)
  BY <1>3 DEF Endpoint
<1>6. \A n, p : OnMiddle(n, p)' = OnMiddle(n, p)
  BY <1>5 DEF OnMiddle
<1>7. \A n, m : Touching(n, m)' = Touching(n, m)
  BY <1>3, <1>4, <1>5, <1>6 DEF Touching
<1> QED BY <1>2, <1>3, <1>7 DEF TouchOther, Touch

(* The values of a function on a finite set.                               *)
LEMMA FiniteImage ==
  ASSUME NEW S, IsFiniteSet(S), NEW f, f = [x \in S |-> f[x]]
  PROVE  IsFiniteSet({f[x] : x \in S})
<1>1. f \in Surjection(S, {f[x] : x \in S})
  BY DEF Surjection
<1> QED BY <1>1, FS_Surjection

(* A sheet has finitely many instances.                                    *)
LEMMA FinitelyMany ==
  ASSUME sheet \in Seq(NetData \cup Component)
  PROVE  IsFiniteSet(Instances)
<1> DEFINE Nets == {k \in DOMAIN sheet : ~IsComponent(k)}
           Parts == {k \in DOMAIN sheet : IsComponent(k)}
           PinsAt(i) == {<<i, j>> : j \in DOMAIN SymbolPins[sheet[i].symbol]}
<1>1. IsFiniteSet(DOMAIN sheet)
  BY FS_Interval
<1>2. IsFiniteSet(Nets) /\ IsFiniteSet(Parts)
  BY <1>1, FS_Subset
<1>3. IsFiniteSet({<<i, 0>> : i \in Nets})
  <2> DEFINE f == [i \in Nets |-> <<i, 0>>]
  <2>1. IsFiniteSet({f[i] : i \in Nets})
    BY <1>2, FiniteImage
  <2> QED BY <2>1
<1>4. ASSUME NEW i \in Parts
      PROVE  IsFiniteSet(PinsAt(i))
  <2>1. sheet[i] \in Component
    BY DEF IsComponent, NetData
  <2>2. SymbolPins[sheet[i].symbol] \in Seq(NetData)
    BY <2>1, ConnectionsAssumption DEF Component
  <2>3. IsFiniteSet(DOMAIN SymbolPins[sheet[i].symbol])
    <3>1. /\ DOMAIN SymbolPins[sheet[i].symbol] = 1..Len(SymbolPins[sheet[i].symbol])
          /\ Len(SymbolPins[sheet[i].symbol]) \in Nat
      BY <2>2
    <3> QED BY <3>1, FS_Interval
  <2> DEFINE J == DOMAIN SymbolPins[sheet[i].symbol]
             f == [j \in J |-> <<i, j>>]
  <2>4. IsFiniteSet({f[j] : j \in J})
    BY <2>3, FiniteImage
  <2> QED BY <2>4
<1>5. IsFiniteSet({PinsAt(i) : i \in Parts})
  <2> DEFINE f == [i \in Parts |-> PinsAt(i)]
  <2>1. IsFiniteSet({f[i] : i \in Parts})
    BY <1>2, FiniteImage
  <2> QED BY <2>1
<1>6. IsFiniteSet(UNION {PinsAt(i) : i \in Parts})
  BY <1>4, <1>5, FS_UNION
<1>7. Instances = {<<i, 0>> : i \in Nets} \cup UNION {PinsAt(i) : i \in Parts}
  BY DEF Instances
<1> QED BY <1>3, <1>6, <1>7, FS_Union

-----------------------------------------------------------------------------
(* The invariant.                                                          *)

\* Each connection is known in both directions, and in the end all are known.
ConnectionsInv ==
  /\ \A c \in connections : /\ c.from \in Instances /\ c.to \in Instances
                            /\ Reversed(c) \in connections
                            /\ TouchOther(c.from, c.to)
  /\ \A n \in Instances \ (IF phase = "connect" THEN todo ELSE {}), m \in Instances :
       Ob(n) # Ob(m) /\ Touching(n, m) => \E c \in connections : c.from = n /\ c.to = m

\* Who is connected to a visited instance belongs to its piece, or will be visited.
NothingForgotten ==
  \A c \in connections : group[c.from] # 0 =>
    \/ group[c.to] = group[c.from]
    \/ group[c.from] = groups /\ group[c.to] = 0 /\ c.to \in Pending(stack)

\* Nothing that divides a piece or what will be visited for it separates connections.
Current == Pending(stack) \cup
           {n \in Instances : stack # << >> /\ group[n] # 0 /\ group[n] = groups}
ClosedSets == {S \in SUBSET Instances : \A c \in connections : c.from \in S <=> c.to \in S}
NothingAdded ==
  \A S \in ClosedSets :
    /\ \A n, m \in Instances : group[n] # 0 /\ group[n] = group[m] => (n \in S <=> m \in S)
    /\ \A n, m \in Current : n \in S <=> m \in S

AllSeen == \A n \in Instances \ todo : group[n] # 0 \/ n \in Pending(stack)

VisitedInstances == {n \in Instances : group[n] # 0}

Inv ==
  /\ TypeOK
  /\ ConnectionsInv
  /\ phase = "connect" => groups = 0 /\ stack = << >> /\ group = [n \in Instances |-> 0]
  /\ phase # "connect" => NothingForgotten /\ NothingAdded /\ AllSeen
  /\ phase \in {"done", "AssertionError"} => stack = << >> /\ todo = {}
  /\ stack # << >> => groups > 0
  /\ phase # "RecursionError" => Len(stack) <= Cardinality(VisitedInstances) + 1
  /\ DepthBounded

LEMMA SomeInstances ==
  ASSUME sheet \in Seq(NetData \cup Component), NEW T \in SUBSET Instances
  PROVE  /\ IsFiniteSet(T) /\ Cardinality(T) \in Nat
         /\ Cardinality(T) <= Cardinality(Instances)
         /\ Cardinality(Instances) \in Nat
BY FinitelyMany, FS_Subset, FS_CardinalityType

LEMMA PendingNothing == Pending(<< >>) = {}
BY DEF Pending

LEMMA InitInv == Init => Inv
<1> SUFFICES ASSUME Init PROVE Inv
  OBVIOUS
<1>1. TypeOK
  BY ConnectionsAssumption DEF Init, TypeOK
<1>2. Len(stack) <= Cardinality(VisitedInstances) + 1
  BY <1>1, SomeInstances DEF Init, TypeOK, VisitedInstances
<1> QED BY <1>1, <1>2 DEF Init, Inv, ConnectionsInv, DepthBounded

-----------------------------------------------------------------------------
(* The steps.                                                              *)

LEMMA ConnectKeeps ==
  ASSUME Inv, Connect
  PROVE  Inv'
<1> USE DEF Connect
<1>1. PICK n \in todo :
        /\ connections' = connections \cup Found(n)
        /\ IF todo = {n} THEN phase' = "traverse" /\ todo' = Instances
                         ELSE todo' = todo \ {n} /\ UNCHANGED phase
  OBVIOUS
<1>2. n \in Instances /\ sheet \in Seq(NetData \cup Component)
  BY DEF Inv, TypeOK
<1>3. sheet' = sheet /\ Instances' = Instances /\ \A x, y : TouchOther(x, y)' = TouchOther(x, y)
  BY SameSheet
<1>4. groups' = 0 /\ stack' = << >> /\ group' = [x \in Instances |-> 0]
  BY DEF Inv
<1>5. TypeOK'
  BY <1>1, <1>2, <1>3, <1>4, FoundTouches DEF Inv, TypeOK
<1>6. ConnectionsInv'
  <2>1. \A c \in connections' : /\ c.from \in Instances' /\ c.to \in Instances'
                               /\ Reversed(c) \in connections'
                               /\ TouchOther(c.from, c.to)'
    BY <1>1, <1>2, <1>3, FoundTouches DEF Inv, ConnectionsInv
  <2>2. ASSUME NEW x \in Instances, x \notin IF phase' = "connect" THEN todo' ELSE {},
               NEW y \in Instances, (Ob(x) # Ob(y) /\ Touching(x, y))'
        PROVE  \E c \in connections' : c.from = x /\ c.to = y
    <3>1. Ob(x) # Ob(y) /\ Touching(x, y)
      BY <2>2, SameSheet
    <3>2. CASE x = n
      BY <3>1, <3>2, <1>1, <1>2, TouchesFound
    <3>3. CASE x # n
      <4>1. x \notin todo
        BY <2>2, <3>3, <1>1 DEF Connect
      <4> QED BY <4>1, <3>1, <1>1 DEF Inv, ConnectionsInv
    <3> QED BY <3>2, <3>3
  <2> QED BY <2>1, <2>2, <1>3 DEF ConnectionsInv
<1>7. NothingForgotten' /\ NothingAdded' /\ (phase' # "connect" => AllSeen')
  <2>1. Current' = {}
    BY <1>4, PendingNothing DEF Current, Pending
  <2>2. NothingForgotten'
    BY <1>3, <1>4, <1>6 DEF NothingForgotten, ConnectionsInv
  <2>3. NothingAdded'
    BY <1>3, <1>4, <2>1 DEF NothingAdded
  <2>4. phase' # "connect" => AllSeen'
    BY <1>1, <1>3 DEF AllSeen
  <2> QED BY <2>2, <2>3, <2>4
<1>8. (Len(stack) <= Cardinality(VisitedInstances) + 1)'
  <2>1. VisitedInstances' \in SUBSET Instances
    BY <1>3 DEF VisitedInstances
  <2> QED BY <2>1, <1>2, <1>4, SomeInstances
<1> QED BY <1>1, <1>3, <1>4, <1>5, <1>6, <1>7, <1>8 DEF Inv, DepthBounded

LEMMA StartPieceKeeps ==
  ASSUME Inv, StartPiece
  PROVE  Inv'
<1> USE DEF StartPiece
<1>1. PICK n \in todo :
        /\ todo' = todo \ {n}
        /\ IF group[n] # 0 THEN UNCHANGED <<groups, stack>>
                           ELSE groups' = groups + 1 /\ stack' = <<{n}>>
  OBVIOUS
<1>2. n \in Instances /\ sheet \in Seq(NetData \cup Component) /\ stack = << >> /\ phase = "traverse"
  BY DEF Inv, TypeOK
<1>3. Instances' = Instances /\ \A x, y : TouchOther(x, y)' = TouchOther(x, y)
  BY SameSheet
<1>4. Pending(stack) = {}
  BY <1>2, PendingNothing
<1>5. TypeOK'
  <2>1. CASE group[n] # 0
    BY <1>1, <1>2, <1>3, <2>1 DEF Inv, TypeOK
  <2>2. CASE group[n] = 0
    <3>1. stack' \in Seq(SUBSET Instances) /\ groups' \in Nat
      <4>1. stack' = <<{n}>> /\ groups' = groups + 1 /\ {n} \in SUBSET Instances
        BY <1>1, <1>2, <2>2
      <4>2. \A A \in SUBSET Instances : <<A>> \in Seq(SUBSET Instances)
        OBVIOUS
      <4> QED BY <4>1, <4>2 DEF Inv, TypeOK
    <3>2. group' \in [Instances -> 0..groups']
      BY <1>1, <2>2 DEF Inv, TypeOK
    <3> QED BY <1>1, <1>2, <1>3, <3>1, <3>2 DEF Inv, TypeOK
  <2> QED BY <2>1, <2>2
<1>6. ConnectionsInv'
  BY <1>2, <1>3, SameSheet DEF Inv, ConnectionsInv
<1>7. VisitedInstances' = VisitedInstances /\ VisitedInstances \in SUBSET Instances
  BY <1>3 DEF VisitedInstances
<1>8. (Len(stack) <= Cardinality(VisitedInstances) + 1)'
  <2>1. Len(stack') \in {0, 1}
    BY <1>1, <1>2
  <2>2. Cardinality(VisitedInstances') \in Nat
    BY <1>2, <1>7, SomeInstances
  <2>3. Len(stack') <= Cardinality(VisitedInstances') + 1
    <3> DEFINE k == Cardinality(VisitedInstances')
               h == Len(stack')
    <3>1. k \in Nat /\ h \in {0, 1}
      BY <2>1, <2>2
    <3> HIDE DEF k, h
    <3>2. h <= k + 1
      BY <3>1
    <3> QED BY <3>2 DEF k, h
  <2> QED BY <2>3
<1>9. CASE group[n] # 0
  <2>1. Current' = Current /\ ClosedSets' = ClosedSets /\ Pending(stack)' = Pending(stack)
    BY <1>1, <1>3, <1>9 DEF Current, ClosedSets
  <2>2. NothingForgotten' /\ NothingAdded' /\ AllSeen'
    BY <1>1, <1>2, <1>3, <1>9, <2>1 DEF Inv, NothingForgotten, NothingAdded, AllSeen
  <2>3. stack' # << >> => groups' > 0
    BY <1>1, <1>2, <1>9
  <2> QED BY <1>2, <1>3, <1>5, <1>6, <1>8, <2>2, <2>3 DEF Inv, DepthBounded
<1>10. CASE group[n] = 0
  <2>1. Pending(stack)' = {n}
    BY <1>1, <1>10, PendingOne
  <2>2. \A x \in Instances : group[x] # groups'
    BY <1>1, <1>10 DEF Inv, TypeOK
  <2>3. Current' = {n}
    BY <2>1, <2>2, <1>3 DEF Current
  <2>4. NothingForgotten'
    BY <1>2, <1>4 DEF Inv, NothingForgotten, ConnectionsInv
  <2>5. NothingAdded'
    BY <1>2, <1>3, <2>3 DEF Inv, NothingAdded, ClosedSets
  <2>6. AllSeen'
    BY <1>1, <1>2, <1>3, <1>4, <2>1 DEF Inv, AllSeen
  <2>7. groups' > 0
    BY <1>1, <1>10 DEF Inv, TypeOK
  <2> QED BY <1>2, <1>3, <1>5, <1>6, <1>8, <2>4, <2>5, <2>6, <2>7 DEF Inv, DepthBounded
<1> QED BY <1>9, <1>10

LEMMA ReturnKeeps ==
  ASSUME Inv, Return
  PROVE  Inv'
<1> USE DEF Return
<1>1. /\ sheet \in Seq(NetData \cup Component) /\ stack \in Seq(SUBSET Instances)
      /\ phase = "traverse" /\ stack # << >> /\ stack' = Tail(stack)
  BY DEF Inv, TypeOK
<1>2. Instances' = Instances /\ \A x, y : TouchOther(x, y)' = TouchOther(x, y)
  BY SameSheet
<1>3. Pending(stack') = Pending(stack) /\ Len(stack') = Len(stack) - 1 /\ Len(stack) > 0
      /\ stack' \in Seq(SUBSET Instances)
  BY <1>1, PopInstances
<1>4. TypeOK'
  BY <1>1, <1>2, <1>3 DEF Inv, TypeOK
<1>5. ConnectionsInv'
  BY <1>2, SameSheet DEF Inv, ConnectionsInv
<1>6. VisitedInstances' = VisitedInstances /\ VisitedInstances \in SUBSET Instances
  BY <1>2 DEF VisitedInstances
<1>7. (Len(stack) <= Cardinality(VisitedInstances) + 1)'
  BY <1>1, <1>3, <1>6, SomeInstances DEF Inv
<1>8. NothingForgotten' /\ AllSeen'
  BY <1>1, <1>2, <1>3 DEF Inv, NothingForgotten, AllSeen
<1>9. Current' \subseteq Current
  BY <1>1, <1>2, <1>3 DEF Current
<1>10. NothingAdded'
  BY <1>1, <1>2, <1>9 DEF Inv, NothingAdded, ClosedSets
<1> QED BY <1>1, <1>2, <1>4, <1>5, <1>7, <1>8, <1>10 DEF Inv, DepthBounded

(* A call for an instance that is visited for the first time.              *)
LEMMA VisitKeeps ==
  ASSUME Inv, phase = "traverse", stack # << >>, NEW n \in Head(stack), group[n] = 0,
         group' = [group EXCEPT ![n] = groups],
         stack' = <<connected_to(n)>> \o (<<Head(stack) \ {n}>> \o Tail(stack)),
         UNCHANGED <<phase, sheet, todo, connections, groups>>
  PROVE  Inv'
<1>1. /\ sheet \in Seq(NetData \cup Component) /\ stack \in Seq(SUBSET Instances)
      /\ group \in [Instances -> 0..groups] /\ groups \in Nat
  BY DEF Inv, TypeOK
<1>2. Instances' = Instances /\ \A x, y : TouchOther(x, y)' = TouchOther(x, y)
  BY SameSheet
<1>3. connected_to(n) \in SUBSET Instances
  BY DEF connected_to, Inv, ConnectionsInv
<1>4. /\ n \in Instances /\ Len(stack') = Len(stack) + 1 /\ Len(stack) \in Nat
      /\ stack' \in Seq(SUBSET Instances) /\ stack' # << >>
      /\ n \in Pending(stack)
      /\ connected_to(n) \subseteq Pending(stack')
      /\ Pending(stack) \subseteq Pending(stack') \cup {n}
      /\ Pending(stack') \subseteq Pending(stack) \cup connected_to(n)
  <2> DEFINE rest == <<Head(stack) \ {n}>> \o Tail(stack)
  <2>1. /\ Head(stack) \in SUBSET Instances /\ Tail(stack) \in Seq(SUBSET Instances)
        /\ Len(Tail(stack)) = Len(stack) - 1
        /\ Pending(stack) = Head(stack) \cup Pending(Tail(stack))
    BY <1>1, PopInstances
  <2>2. /\ rest \in Seq(SUBSET Instances) /\ Len(rest) = Len(Tail(stack)) + 1
        /\ Pending(rest) = (Head(stack) \ {n}) \cup Pending(Tail(stack))
    BY <2>1, PushInstances
  <2> HIDE DEF rest
  <2>3. /\ stack' \in Seq(SUBSET Instances) /\ Len(stack') = Len(rest) + 1
        /\ Pending(stack') = connected_to(n) \cup Pending(rest)
    <3>1. stack' = <<connected_to(n)>> \o rest
      BY DEF rest
    <3> QED BY <1>3, <2>2, <3>1, PushInstances
  <2>4. Len(stack) \in Nat /\ Len(stack') = Len(stack) + 1
    BY <1>1, <2>1, <2>2, <2>3
  <2>5. stack' # << >>
    BY <2>3, <2>4
  <2> QED BY <2>1, <2>2, <2>3, <2>4, <2>5
<1>5. TypeOK'
  BY <1>1, <1>2, <1>4 DEF Inv, TypeOK
<1>6. ConnectionsInv'
  BY <1>2, SameSheet DEF Inv, ConnectionsInv
<1>7. (Len(stack) <= Cardinality(VisitedInstances) + 1)'
  <2>1. groups > 0
    BY DEF Inv
  <2>2. VisitedInstances' = VisitedInstances \cup {n} /\ n \notin VisitedInstances
    BY <1>1, <1>2, <1>4, <2>1 DEF VisitedInstances
  <2>3. VisitedInstances \in SUBSET Instances
    BY DEF VisitedInstances
  <2>4. Cardinality(VisitedInstances') = Cardinality(VisitedInstances) + 1
    BY <1>1, <2>2, <2>3, SomeInstances, FS_AddElement
  <2> QED BY <1>1, <1>4, <2>3, <2>4, SomeInstances DEF Inv
<1>8. /\ group'[n] = groups /\ groups # 0
      /\ \A x \in Instances : x # n => group'[x] = group[x]
  BY <1>1, <1>4 DEF Inv
<1>9. NothingForgotten'
  <2> SUFFICES ASSUME NEW c \in connections, group'[c.from] # 0
               PROVE  \/ group'[c.to] = group'[c.from]
                      \/ group'[c.from] = groups /\ group'[c.to] = 0 /\ c.to \in Pending(stack')
    BY DEF NothingForgotten
  <2>1. /\ c.from \in Instances /\ c.to \in Instances /\ Reversed(c) \in connections
        /\ Reversed(c).from = c.to /\ Reversed(c).to = c.from
    BY DEF Inv, ConnectionsInv, Reversed, Connection
  <2>2. /\ group[c.from] # 0 => \/ group[c.to] = group[c.from]
                                \/ /\ group[c.from] = groups /\ group[c.to] = 0
                                   /\ c.to \in Pending(stack)
        /\ group[c.to] # 0 => \/ group[c.from] = group[c.to]
                              \/ group[c.to] = groups /\ group[c.from] = 0
    BY <2>1 DEF Inv, NothingForgotten
  <2>3. CASE c.from = n
    <3>1. c.to \in connected_to(n)
      BY <2>3 DEF connected_to
    <3> QED BY <2>1, <2>2, <2>3, <3>1, <1>4, <1>8
  <2>4. CASE c.from # n /\ c.to = n
    BY <2>1, <2>2, <2>4, <1>8
  <2>5. CASE c.from # n /\ c.to # n
    BY <2>1, <2>2, <2>5, <1>4, <1>8
  <2> QED BY <2>3, <2>4, <2>5
<1>10. AllSeen'
  BY <1>1, <1>2, <1>4, <1>8 DEF Inv, AllSeen
<1>11. NothingAdded'
  <2> SUFFICES ASSUME NEW S \in ClosedSets
               PROVE  /\ \A x, y \in Instances : group'[x] # 0 /\ group'[x] = group'[y]
                                                  => (x \in S <=> y \in S)
                      /\ \A x, y \in Current' : x \in S <=> y \in S
    BY <1>2 DEF NothingAdded, ClosedSets
  <2>1. /\ \A x, y \in Instances : group[x] # 0 /\ group[x] = group[y] => (x \in S <=> y \in S)
        /\ \A x, y \in Current : x \in S <=> y \in S
    BY DEF Inv, NothingAdded
  <2>2. n \in Current
    BY <1>4 DEF Current
  <2>3. \A x \in connected_to(n) : x \in S <=> n \in S
    BY DEF connected_to, ClosedSets
  <2>4. \A x \in Instances : group'[x] = groups => (x \in S <=> n \in S)
    BY <1>8, <2>1, <2>2 DEF Current
  <2>5. \A x \in Pending(stack') : x \in S <=> n \in S
    BY <1>4, <2>1, <2>2, <2>3 DEF Current
  <2>6. \A x \in Current' : x \in S <=> n \in S
    BY <1>2, <2>4, <2>5 DEF Current
  <2>7. ASSUME NEW x \in Instances, NEW y \in Instances, group'[x] # 0, group'[x] = group'[y]
        PROVE  x \in S <=> y \in S
    BY <2>7, <2>1, <2>4, <1>8
  <2> QED BY <2>6, <2>7
<1> QED BY <1>2, <1>4, <1>5, <1>6, <1>7, <1>8, <1>9, <1>10, <1>11 DEF Inv, DepthBounded

(* A call for an instance that has been visited.                           *)
LEMMA SkipKeeps ==
  ASSUME Inv, phase = "traverse", stack # << >>, NEW n \in Head(stack), group[n] # 0,
         stack' = <<Head(stack) \ {n}>> \o Tail(stack),
         UNCHANGED <<phase, sheet, todo, connections, groups, group>>
  PROVE  Inv'
<1>1. /\ sheet \in Seq(NetData \cup Component) /\ stack \in Seq(SUBSET Instances)
  BY DEF Inv, TypeOK
<1>2. Instances' = Instances /\ \A x, y : TouchOther(x, y)' = TouchOther(x, y)
  BY SameSheet
<1>3. /\ Len(stack') = Len(stack) /\ stack' \in Seq(SUBSET Instances) /\ Len(stack) \in Nat
      /\ Pending(stack') \subseteq Pending(stack)
      /\ Pending(stack) \subseteq Pending(stack') \cup {n}
  <2>1. /\ Head(stack) \in SUBSET Instances /\ Tail(stack) \in Seq(SUBSET Instances)
        /\ Len(Tail(stack)) = Len(stack) - 1
        /\ Pending(stack) = Head(stack) \cup Pending(Tail(stack))
    BY <1>1, PopInstances
  <2>2. /\ stack' \in Seq(SUBSET Instances) /\ Len(stack') = Len(Tail(stack)) + 1
        /\ Pending(stack') = (Head(stack) \ {n}) \cup Pending(Tail(stack))
    BY <2>1, PushInstances
  <2>3. Len(stack) \in Nat /\ Len(stack') = Len(stack)
    BY <1>1, <2>1, <2>2
  <2> QED BY <2>1, <2>2, <2>3
<1>4. TypeOK'
  BY <1>1, <1>2, <1>3 DEF Inv, TypeOK
<1>5. ConnectionsInv'
  BY <1>2, SameSheet DEF Inv, ConnectionsInv
<1>6. VisitedInstances' = VisitedInstances
  BY <1>2 DEF VisitedInstances
<1>7. NothingForgotten' /\ AllSeen'
  BY <1>1, <1>2, <1>3 DEF Inv, NothingForgotten, AllSeen
<1>8. Current' \subseteq Current
  BY <1>2, <1>3 DEF Current
<1>9. NothingAdded'
  BY <1>2, <1>8 DEF Inv, NothingAdded, ClosedSets
<1> QED BY <1>2, <1>3, <1>4, <1>5, <1>6, <1>7, <1>9 DEF Inv, DepthBounded

LEMMA TraverseKeeps ==
  ASSUME Inv, Traverse
  PROVE  Inv'
<1> USE DEF Traverse
<1>1. PICK n \in Head(stack) :
        \/ /\ Len(stack) > RecursionLimit
           /\ phase' = "RecursionError"
           /\ UNCHANGED <<group, stack>>
        \/ /\ Visited(n)
           /\ stack' = <<Head(stack) \ {n}>> \o Tail(stack)
           /\ UNCHANGED <<phase, group>>
        \/ /\ ~Visited(n)
           /\ group' = [group EXCEPT ![n] = CurrentPiece]
           /\ stack' = <<connected_to(n)>> \o (<<Head(stack) \ {n}>> \o Tail(stack))
           /\ UNCHANGED <<phase, group>> \/ UNCHANGED phase
  OBVIOUS
<1>2. CASE Visited(n) /\ stack' = <<Head(stack) \ {n}>> \o Tail(stack) /\ UNCHANGED <<phase, group>>
  BY <1>2, SkipKeeps DEF Visited
<1>3. CASE /\ ~Visited(n)
           /\ group' = [group EXCEPT ![n] = CurrentPiece]
           /\ stack' = <<connected_to(n)>> \o (<<Head(stack) \ {n}>> \o Tail(stack))
           /\ UNCHANGED phase
  BY <1>3, VisitKeeps DEF Visited, CurrentPiece
<1>4. CASE Len(stack) > RecursionLimit /\ phase' = "RecursionError" /\ UNCHANGED <<group, stack>>
  <2>1. sheet \in Seq(NetData \cup Component) /\ stack \in Seq(SUBSET Instances) /\ Len(stack) \in Nat
    BY DEF Inv, TypeOK
  <2>2. Instances' = Instances /\ \A x, y : TouchOther(x, y)' = TouchOther(x, y)
    BY SameSheet
  <2>3. Cardinality(VisitedInstances) <= Cardinality(Instances)
        /\ Cardinality(VisitedInstances) \in Nat /\ Cardinality(Instances) \in Nat
    BY <2>1, SomeInstances DEF VisitedInstances
  <2>4. DepthBounded'
    BY <1>4, <2>1, <2>2, <2>3, ConnectionsAssumption DEF Inv, DepthBounded
  <2>5. TypeOK' /\ ConnectionsInv'
    BY <1>4, <2>1, <2>2, SameSheet DEF Inv, TypeOK, ConnectionsInv
  <2>6. NothingForgotten' /\ AllSeen' /\ NothingAdded'
    BY <1>4, <2>2 DEF Inv, NothingForgotten, AllSeen, NothingAdded, ClosedSets, Current
  <2> QED BY <1>4, <2>4, <2>5, <2>6 DEF Inv
<1> QED BY <1>1, <1>2, <1>3, <1>4

LEMMA MakeNetsKeeps ==
  ASSUME Inv, MakeNets
  PROVE  Inv'
<1> USE DEF MakeNets
<1>1. sheet \in Seq(NetData \cup Component) /\ phase' \in {"done", "AssertionError"}
  BY DEF Inv, TypeOK
<1>2. Instances' = Instances /\ \A x, y : TouchOther(x, y)' = TouchOther(x, y)
  BY SameSheet
<1>3. TypeOK' /\ ConnectionsInv'
  BY <1>1, <1>2, SameSheet DEF Inv, TypeOK, ConnectionsInv
<1>4. NothingForgotten' /\ AllSeen' /\ NothingAdded'
  BY <1>2 DEF Inv, NothingForgotten, AllSeen, NothingAdded, ClosedSets, Current
<1>5. VisitedInstances' = VisitedInstances
  BY <1>2 DEF VisitedInstances
<1> QED BY <1>1, <1>3, <1>4, <1>5 DEF Inv, DepthBounded

LEMMA StutterKeeps ==
  ASSUME Inv, UNCHANGED vars
  PROVE  Inv'
<1> USE DEF vars
<1>1. Instances' = Instances /\ \A x, y : TouchOther(x, y)' = TouchOther(x, y)
  BY SameSheet
<1>2. TypeOK' /\ ConnectionsInv'
  BY <1>1, SameSheet DEF Inv, TypeOK, ConnectionsInv
<1>3. /\ NothingForgotten' <=> NothingForgotten
      /\ AllSeen' <=> AllSeen
      /\ NothingAdded' <=> NothingAdded
  BY <1>1 DEF NothingForgotten, AllSeen, NothingAdded, ClosedSets, Current
<1>4. VisitedInstances' = VisitedInstances
  BY <1>1 DEF VisitedInstances
<1> QED BY <1>1, <1>2, <1>3, <1>4 DEF Inv, DepthBounded

(* The invariant holds in all states.                                      *)
THEOREM SpecInv == Spec => []Inv
<1>1. Inv /\ [Next]_vars => Inv'
  BY ConnectKeeps, StartPieceKeeps, TraverseKeeps, ReturnKeeps, MakeNetsKeeps, StutterKeeps
     DEF Next, Finished
<1> QED BY InitInv, <1>1, PTL DEF Spec

(* All variables have their types.                                         *)
THEOREM TypesCorrect == Spec => []TypeOK
<1>1. Inv => TypeOK
  BY DEF Inv
<1> QED BY SpecInv, <1>1, PTL

(* The connections that are found are the places where two objects touch,  *)
(* although objects are only looked for at the ends of the others.         *)
THEOREM FindsAllTouches == Spec => []ConnectionsAreTouches
<1>1. Inv => ConnectionsAreTouches
  <2> SUFFICES ASSUME Inv, phase \in {"done", "AssertionError"},
                      NEW n \in Instances, NEW m \in Instances
               PROVE  (\E c \in connections : c.from = n /\ c.to = m) <=> TouchOther(n, m)
    BY DEF ConnectionsAreTouches
  <2>1. ASSUME NEW c \in connections, c.from = n, c.to = m
        PROVE  TouchOther(n, m)
    BY <2>1 DEF Inv, ConnectionsInv
  <2>2. \A x, y \in Instances : Ob(x) # Ob(y) /\ Touching(x, y)
                                 => \E c \in connections : c.from = x /\ c.to = y
    BY DEF Inv, ConnectionsInv
  <2>3. ASSUME TouchOther(n, m)
        PROVE  \E c \in connections : c.from = n /\ c.to = m
    <3>1. CASE Touching(n, m)
      BY <2>2, <2>3, <3>1 DEF TouchOther
    <3>2. CASE Touching(m, n)
      <4>1. PICK c \in connections : c.from = m /\ c.to = n
        BY <2>2, <2>3, <3>2 DEF TouchOther
      <4> QED BY <4>1 DEF Inv, ConnectionsInv, Reversed, Connection
    <3> QED BY <2>3, <3>1, <3>2 DEF TouchOther, Touch
  <2> QED BY <2>1, <2>3
<1> QED BY SpecInv, <1>1, PTL

(* The pieces are the connected components of the sheet.                   *)
THEOREM PiecesCorrect == Spec => []PiecesAreComponents
<1>1. Inv => PiecesAreComponents
  <2> SUFFICES ASSUME Inv, phase \in {"done", "AssertionError"}
               PROVE  /\ \A c \in connections : group[c.from] = group[c.to]
                      /\ \A S \in ClosedSets : \A n, m \in Instances :
                           group[n] = group[m] => (n \in S <=> m \in S)
    BY DEF PiecesAreComponents, ClosedSets
  <2>1. Pending(stack) = {} /\ \A n \in Instances : group[n] # 0
    BY PendingNothing DEF Inv, AllSeen
  <2>2. \A c \in connections : group[c.from] = group[c.to]
    BY <2>1 DEF Inv, NothingForgotten, ConnectionsInv
  <2>3. \A S \in ClosedSets : \A n, m \in Instances : group[n] = group[m] => (n \in S <=> m \in S)
    BY <2>1 DEF Inv, NothingAdded
  <2> QED BY <2>2, <2>3
<1> QED BY SpecInv, <1>1, PTL

(* The depth of the traversal is bounded by the number of instances.       *)
THEOREM TraversalBounded == Spec => []DepthBounded
<1>1. Inv => DepthBounded
  BY DEF Inv
<1> QED BY SpecInv, <1>1, PTL
=============================================================================
