------------------------ MODULE LibgedaObjectsProofs ------------------------
(***************************************************************************)
(* Proofs about LibgedaObjects for any number of objects, wrappers, pages  *)
(* and lines, and for the programs that put an object on a page or into a  *)
(* component through the wrapper that would free it (OwnersHandOver).      *)
(* Without that two wrappers come to free one object: page-remove! hands   *)
(* it to the wrapper it is called with, page-append! takes it from another *)
(* one that never had it.                                                  *)
(*                                                                         *)
(* Inv is the inductive invariant.  To the properties it adds that what    *)
(* gschem is about to delete is on no page and in no component, that       *)
(* connections cross the border of a component at pins only and that       *)
(* attributes are texts: a net that is merged into another one is          *)
(* therefore on the page itself and no attribute, as is the other one.     *)
(* That connections are touches is shown to be kept given Inv before and   *)
(* after a step: either nobody looked for connections, and then objects    *)
(* have only gone (TouchCut), or those that came or changed were compared  *)
(* with all others (TouchJoin).                                            *)
(***************************************************************************)
EXTENDS LibgedaObjects, TLAPS

\* Which programs this is about: any number of wrappers, but an object is put
\* on a page or into a component through the one that would free it.
OwnersHandOver ==
  \A o \in Objects, w \in Wrappers :
     (\E p \in Pages : PageAppend(p, o, w)) \/ (\E c \in Objects : ComplexAppend(c, o, w))
     => <<o, w>> \in gc

Loose == \A o \in removed : page[o] = None /\ parent[o] = None
Meeting ==
  \A a \in Objects : \A c \in conn[a] : kind[a] \in Conductors /\ MayMeet(a, c.other)
Tagged == \A t \in Objects : attached_to[t] # None => kind[t] = "text"
Placed ==
  \A t \in Objects : LET o == attached_to[t] IN
     o = None \/ {o, t} \cap removed # {} \/ parent[t] # None \/ PageOf(t) # None
\* OwnedOnce, pointwise.
Unowned(o) == \A w \in Wrappers : <<o, w>> \notin gc
OwnedBy(o, w) == \A v \in Wrappers : <<o, v>> \in gc <=> v = w
Owned == \A o \in Live : IF InC(o) THEN Unowned(o) ELSE \E w \in Wrappers : OwnedBy(o, w)

Inv == TypeOK /\ LinksAgree /\ Loose /\ Meeting /\ Tagged /\ Placed /\ Owned

\* Where an object is, and that nothing free is anywhere.
LEMMA Places ==
  ASSUME Inv
  PROVE  /\ \A o \in Objects : PageOf(o) \in Pages \cup {None}
         /\ \A o \in Objects : PageOf(o) # None => o \in Live
         /\ \A o \in Objects : parent[o] # None => parent[o] \in Live /\ o \in prims[parent[o]]
         /\ \A a \in Objects : PageOf(a) = None => conn[a] = {}
         /\ "free" \notin Conductors /\ "free" \notin Kinds
<1>1. "free" \notin Conductors /\ "free" \notin Kinds
  BY ObjectsAssumption DEF Conductors
<1>2. \A o \in Objects : /\ page[o] \in Pages \cup {None} /\ parent[o] \in Objects \cup {None}
                         /\ page[o] # None => o \in Live
                         /\ parent[o] # None => o \in Live /\ o \in prims[parent[o]]
  BY DEF Inv, TypeOK, LinksAgree, FreeIsForgotten, TreesAgree, Live
<1>3. \A o \in Objects : parent[o] # None => parent[o] \in Live
  BY <1>2 DEF Inv, LinksAgree, FreeIsForgotten
<1>4. \A a \in Objects : PageOf(a) = None => conn[a] = {}
  BY DEF Inv, LinksAgree, ConnectionsAgree
<1> QED BY <1>1, <1>2, <1>3, <1>4 DEF PageOf

LEMMA InitInv == Init => Inv
<1> SUFFICES ASSUME Init PROVE Inv
  OBVIOUS
<1>1. TypeOK
  BY DEF Init, TypeOK, NoLine
<1>2. Live = {}
  BY DEF Init, Live
<1>3. FreeIsForgotten /\ TreesAgree
  BY ObjectsAssumption DEF Init, FreeIsForgotten, TreesAgree
<1>4. ListsAgree
  BY <1>2, ObjectsAssumption DEF Init, ListsAgree, PageOf, Conductors
<1>5. ConnectionsAgree /\ AttributesStay /\ Loose /\ Meeting /\ Tagged /\ Placed /\ Owned
  BY <1>2 DEF Init, ConnectionsAgree, AttributesStay, Loose, Meeting, Tagged, Placed, Owned
<1> QED BY <1>1, <1>3, <1>4, <1>5 DEF Inv, LinksAgree

-----------------------------------------------------------------------------
(* Calls that change neither the places of objects nor their connections.  *)

LEMMA MakeStep ==
  ASSUME Inv, NEW o \in Objects, NEW k \in Kinds, NEW l \in Lines \cup {NoLine},
         NEW w \in Wrappers, Make(o, k, l, w)
  PROVE  Inv'
<1> USE Places
<1>1. /\ kind' = [kind EXCEPT ![o] = k] /\ line' = [line EXCEPT ![o] = l]
      /\ kind[o] = "free" /\ k # "free" /\ l \in Int \X Int
      /\ held' = held \cup {<<o, w>>} /\ gc' = gc \cup {<<o, w>>}
      /\ UNCHANGED <<page, parent, prims, objects, attached_to, attribs, conn, connectible,
                     selection, removed, merging, moved, merged>>
  BY ObjectsAssumption DEF Make, place, links, calls, past, Free, NoLine
<1>2. TypeOK'
  BY <1>1 DEF Inv, TypeOK
<1>3. Live' = Live \cup {o} /\ o \notin Live
  BY <1>1 DEF Inv, TypeOK, Live
<1>4. FreeIsForgotten' /\ TreesAgree'
  BY <1>1, <1>3 DEF Inv, LinksAgree, FreeIsForgotten, TreesAgree, TypeOK, Live
<1>5. \A x \in Objects : PageOf(x)' = PageOf(x)
  BY <1>1 DEF PageOf
<1>6. PageOf(o) = None /\ parent[o] = None /\ page[o] = None /\ conn[o] = {} /\ prims[o] = {}
  BY <1>3 DEF Inv, LinksAgree, FreeIsForgotten
<1>7. ListsAgree'
  <2>1. ASSUME NEW p \in Pages, NEW x \in Objects
        PROVE  x \in connectible'[p] <=> PageOf(x)' = p /\ kind'[x] \in Conductors
    <3>1. x \in connectible[p] <=> PageOf(x) = p /\ kind[x] \in Conductors
      BY DEF Inv, LinksAgree, ListsAgree
    <3>2. p # None /\ (x # o => kind'[x] = kind[x])
      BY <1>1, ObjectsAssumption DEF Inv, TypeOK
    <3> QED BY <1>1, <1>5, <1>6, <3>1, <3>2
  <2> QED BY <1>1, <1>3, <2>1 DEF Inv, LinksAgree, ListsAgree, PageOf
<1>8. ConnectionsAgree' /\ Loose'
  <2>1. \A a \in Objects : \A c \in conn[a] : c.other \in Objects
    BY DEF Inv, TypeOK
  <2> QED BY <1>1, <1>5, <2>1 DEF Inv, LinksAgree, ConnectionsAgree, Loose
<1>11. AttributesStay' /\ Tagged' /\ Placed'
  <2>1. attached_to[o] = None
    BY <1>3 DEF Inv, LinksAgree, FreeIsForgotten
  <2> QED BY <1>1, <1>5, <2>1 DEF Inv, LinksAgree, AttributesStay, Tagged, Placed, TypeOK
<1>9. Meeting'
  <2> SUFFICES ASSUME NEW a \in Objects, NEW c \in conn[a]
                      PROVE  kind'[a] \in Conductors /\ MayMeet(a, c.other)'
    BY <1>1 DEF Meeting
  <2>1. /\ kind[a] \in Conductors /\ MayMeet(a, c.other)
        /\ c.other \in Objects /\ a # o /\ c.other # o
    <3>1. kind[a] \in Conductors /\ MayMeet(a, c.other) /\ c.other \in Objects
      BY DEF Inv, Meeting, TypeOK
    <3>2. PageOf(a) # None /\ PageOf(c.other) # None
      BY DEF Inv, LinksAgree, ConnectionsAgree
    <3> QED BY <1>6, <3>1, <3>2
  <2> QED BY <1>1, <2>1 DEF MayMeet, IsPin, Inv, TypeOK
<1>10. Owned'
  <2>1. \A x \in Live : x \in Objects /\ x # o
    BY <1>3 DEF Live
  <2>2. \A v \in Wrappers : <<o, v>> \notin gc
    BY <1>3 DEF Inv, TypeOK, LinksAgree, ListsAgree
  <2>3. OwnedBy(o, w)' /\ ~InC(o)'
    BY <1>1, <1>3, <1>6, <2>2 DEF OwnedBy, InC, Inv, LinksAgree, ListsAgree
  <2>4. \A x \in Live : /\ InC(x)' <=> InC(x)
                        /\ \A v \in Wrappers : <<x, v>> \in gc' <=> <<x, v>> \in gc
    BY <1>1, <2>1 DEF InC
  <2> QED BY <1>3, <2>3, <2>4 DEF Inv, Owned, Unowned, OwnedBy
<1> QED BY <1>2, <1>4, <1>7, <1>8, <1>9, <1>10, <1>11 DEF Inv, LinksAgree

\* Nothing goes anywhere.
Stay == UNCHANGED <<kind, page, parent, prims, objects, connectible, conn, removed>>

LEMMA StayKeeps ==
  ASSUME Inv, Stay
  PROVE  /\ Live' = Live /\ ConnectionsAgree' /\ Loose' /\ Meeting'
         /\ \A x \in Objects : InC(x)' = InC(x)
         /\ \A p \in Pages, x \in Objects :
              x \in connectible'[p] <=> PageOf(x)' = p /\ kind'[x] \in Conductors
         /\ \A x \in Objects : PageOf(x)' = PageOf(x)
<1>1. Live' = Live /\ \A x \in Objects : InC(x)' = InC(x)
  BY DEF Stay, Live, InC
<1>2. \A x \in Objects : PageOf(x)' = PageOf(x)
  BY DEF Stay, PageOf
<1>3. \A a \in Objects : \A c \in conn[a] : c.other \in Objects
  BY DEF Inv, TypeOK
<1>4. ConnectionsAgree' /\ Loose'
  BY <1>3 DEF Stay, PageOf, Inv, LinksAgree, ConnectionsAgree, Loose
<1>5. Meeting'
  BY <1>3 DEF Stay, Inv, Meeting, MayMeet, IsPin
<1>6. \A p \in Pages, x \in Objects :
        x \in connectible'[p] <=> PageOf(x)' = p /\ kind'[x] \in Conductors
  BY DEF Stay, PageOf, Inv, LinksAgree, ListsAgree
<1> QED BY <1>1, <1>2, <1>4, <1>5, <1>6 DEF PageOf

\* Neither do attributes change.
LEMMA QuietStep ==
  ASSUME Inv, Stay, UNCHANGED <<attached_to, attribs>>,
         DOMAIN line' = Objects, \A x \in Objects : line'[x] \in Int \X Int,
         selection' \in [Pages -> SUBSET Objects],
         \A p \in Pages : selection'[p] \subseteq objects[p],
         held' \subseteq Live \X Wrappers, gc \subseteq held', gc' = gc,
         merging' \in Pages \cup {None}, moved' \subseteq Objects, merged' \subseteq Objects
  PROVE  Inv'
<1>1. TypeOK'
  BY DEF Inv, TypeOK, Stay, Live
<1>2. FreeIsForgotten' /\ TreesAgree'
  BY StayKeeps DEF Inv, LinksAgree, FreeIsForgotten, TreesAgree, Stay
<1>3. ListsAgree'
  <2>1. removed \cup {h[1] : h \in held'} \subseteq Live
    BY DEF Inv, LinksAgree, ListsAgree
  <2> QED BY <2>1, StayKeeps DEF ListsAgree, Stay, PageOf
<1>4. AttributesStay' /\ Tagged' /\ Placed'
  BY DEF Stay, Inv, TypeOK, LinksAgree, AttributesStay, Tagged, Placed, PageOf
<1>5. Owned'
  BY StayKeeps DEF Inv, Owned, Unowned, OwnedBy, Live
<1> QED BY <1>1, <1>2, <1>3, <1>4, <1>5, StayKeeps DEF Inv, LinksAgree

LEMMA HeldAreLive ==
  ASSUME Inv PROVE held \subseteq Live \X Wrappers /\ gc \subseteq held
<1>1. held \subseteq Objects \X Wrappers /\ gc \subseteq held
  BY DEF Inv, TypeOK
<1>2. \A h \in held : h[1] \in Live
  BY DEF Inv, LinksAgree, ListsAgree
<1> QED BY <1>1, <1>2

LEMMA WrapStep ==
  ASSUME Inv, NEW o \in Objects, NEW w \in Wrappers, Wrap(o, w) PROVE Inv'
<1>1. /\ o \in Live /\ held' = held \cup {<<o, w>>} /\ gc' = gc /\ Stay
      /\ UNCHANGED <<attached_to, attribs, line, selection, merging, moved, merged>>
  BY DEF Wrap, shape, place, links, calls, past, Stay
<1> QED BY <1>1, HeldAreLive, QuietStep DEF Inv, TypeOK, LinksAgree, ListsAgree

LEMMA TranslateStep ==
  ASSUME Inv, NEW o \in Objects, NEW d \in {-1, 1}, Translate(o, d) PROVE Inv'
<1> DEFINE M == Conducting(Group(o))
<1>1. /\ DOMAIN line' = Objects /\ \A x \in Objects : line'[x] \in Int \X Int
      /\ moved' \subseteq Objects /\ Stay
      /\ UNCHANGED <<attached_to, attribs, selection, held, gc, merging, merged>>
  <2>1. M \subseteq Objects /\ \A x \in M : <<line[x][1] + d, line[x][2] + d>> \in Int \X Int
    BY ObjectsAssumption DEF Translate, Conducting, Group, Inv, TypeOK
  <2> QED BY <2>1 DEF Translate, Inv, TypeOK, place, links, wraps, calls, Stay
<1> QED BY <1>1, HeldAreLive, QuietStep DEF Inv, TypeOK, LinksAgree, ListsAgree

LEMMA SelectStep ==
  ASSUME Inv, NEW o \in Objects, SelectObject(o) \/ DeselectObject(o) PROVE Inv'
<1>1. page[o] \in Pages /\ o \in objects[page[o]]
  BY DEF Inv, TypeOK, LinksAgree, TreesAgree, SelectObject, DeselectObject
<1>2. /\ \/ selection' = [selection EXCEPT ![page[o]] = @ \cup {o}]
         \/ selection' = [selection EXCEPT ![page[o]] = @ \ {o}]
      /\ Stay /\ UNCHANGED <<attached_to, attribs, line, held, gc, merging, moved, merged>>
  BY DEF SelectObject, DeselectObject, shape, place, links, wraps, calls, past, Stay
<1>3. /\ selection' \in [Pages -> SUBSET Objects]
      /\ \A p \in Pages : selection'[p] \subseteq objects[p]
  <2>1. \A p \in Pages : selection[p] \subseteq objects[p] /\ objects[p] \subseteq Objects
    BY DEF Inv, TypeOK, LinksAgree, ListsAgree
  <2>2. selection \in [Pages -> SUBSET Objects]
    BY DEF Inv, TypeOK
  <2>3. DOMAIN selection' = Pages
    BY <1>1, <1>2, <2>2
  <2>4. \A p \in Pages : selection'[p] \subseteq objects[p]
    BY <1>1, <1>2, <2>1, <2>2
  <2>5. selection' = [p \in Pages |-> selection'[p]]
    BY <1>1, <1>2, <2>2
  <2> QED BY <2>1, <2>4, <2>5
<1> QED BY <1>2, <1>3, HeldAreLive, QuietStep DEF Inv, TypeOK

LEMMA ConsolidateSteps ==
  ASSUME Inv, NEW p \in Pages, StartConsolidate(p) \/ FinishConsolidate(p) PROVE Inv'
<1>1. /\ merging' \in Pages \cup {None} /\ Stay
      /\ UNCHANGED <<attached_to, attribs, line, held, gc, selection, moved, merged>>
  BY DEF StartConsolidate, FinishConsolidate, shape, place, links, wraps, past, Stay
<1> QED BY <1>1, HeldAreLive, QuietStep DEF Inv, TypeOK, LinksAgree, ListsAgree

\* A wrapper that does not free is collected.
LEMMA ReleaseStep ==
  ASSUME Inv, NEW o \in Objects, NEW w \in Wrappers, Collect(o, w), <<o, w>> \notin gc
  PROVE  Inv'
<1>1. /\ held' = held \ {<<o, w>>} /\ gc' = gc /\ Stay
      /\ UNCHANGED <<attached_to, attribs, line, selection, merging, moved, merged>>
  BY DEF Collect, shape, place, links, calls, past, Stay
<1> QED BY <1>1, HeldAreLive, QuietStep DEF Inv, TypeOK, LinksAgree, ListsAgree

LEMMA AttachStep ==
  ASSUME Inv, NEW o \in Objects, NEW t \in Objects, AttachAttrib(o, t) PROVE Inv'
<1>1. /\ Stay /\ UNCHANGED <<line, selection, held, gc, merging, moved, merged>>
      /\ attached_to' = [attached_to EXCEPT ![t] = o]
      /\ attribs' = [attribs EXCEPT ![o] = @ \cup {t}]
      /\ kind[t] = "text" /\ o \in Live /\ t \in Live
      /\ parent[o] = parent[t] /\ PageOf(o) = PageOf(t) /\ attached_to[t] = None
      /\ parent[t] # None \/ PageOf(t) # None
  BY HeldAreLive DEF AttachAttrib, shape, place, wraps, calls, past, Stay
<1>2. o # None
  BY ObjectsAssumption
<1>3. TypeOK'
  BY <1>1 DEF Inv, TypeOK, Stay
<1>4. FreeIsForgotten'
  <2>1. \A x \in Objects \ Live : attached_to'[x] = None /\ attribs'[x] = {}
    BY <1>1, <1>2 DEF Inv, TypeOK, LinksAgree, FreeIsForgotten
  <2> QED BY <1>1, <2>1, StayKeeps DEF Inv, LinksAgree, FreeIsForgotten, Stay
<1>5. TreesAgree'
  <2>1. ASSUME NEW c \in Objects, NEW x \in Objects
        PROVE  x \in attribs'[c] <=> attached_to'[x] = c
    <3>1. x \in attribs[c] <=> attached_to[x] = c
      BY DEF Inv, LinksAgree, TreesAgree
    <3>2. DOMAIN attribs = Objects /\ DOMAIN attached_to = Objects
      BY DEF Inv, TypeOK
    <3> QED BY <1>1, <1>2, <3>1, <3>2, ObjectsAssumption
  <2> QED BY <1>1, <1>3, <2>1 DEF Inv, LinksAgree, TreesAgree, Stay, TypeOK
<1>6. ListsAgree'
  BY <1>1, StayKeeps DEF Inv, LinksAgree, ListsAgree, Stay, PageOf
<1>7. AttributesStay' /\ Tagged' /\ Placed'
  BY <1>1 DEF Inv, TypeOK, LinksAgree, AttributesStay, Tagged, Placed, PageOf, Stay
<1>8. Owned'
  <2>1. gc' = gc /\ Live' = Live /\ \A x \in Objects : InC(x)' = InC(x)
    BY <1>1, StayKeeps
  <2>2. Live \subseteq Objects
    BY DEF Live
  <2> QED BY <2>1, <2>2 DEF Inv, Owned, Unowned, OwnedBy
<1> QED BY <1>1, <1>3, <1>4, <1>5, <1>6, <1>7, <1>8, StayKeeps DEF Inv, LinksAgree

LEMMA DetachStep ==
  ASSUME Inv, NEW o \in Objects, NEW t \in Objects, DetachAttrib(o, t) PROVE Inv'
<1>1. /\ Stay /\ UNCHANGED <<line, selection, held, gc, merging, moved, merged>>
      /\ attached_to' = [attached_to EXCEPT ![t] = None]
      /\ attribs' = [attribs EXCEPT ![o] = @ \ {t}]
      /\ attached_to[t] = o
  BY DEF DetachAttrib, shape, place, wraps, calls, past, Stay
<1>2. o # None
  BY ObjectsAssumption
<1>3. TypeOK'
  BY <1>1 DEF Inv, TypeOK, Stay
<1>4. FreeIsForgotten'
  <2>1. \A x \in Objects \ Live : attached_to'[x] = None /\ attribs'[x] = {}
    BY <1>1, <1>2 DEF Inv, TypeOK, LinksAgree, FreeIsForgotten
  <2> QED BY <1>1, <2>1, StayKeeps DEF Inv, LinksAgree, FreeIsForgotten, Stay
<1>5. TreesAgree'
  <2>1. ASSUME NEW c \in Objects, NEW x \in Objects
        PROVE  x \in attribs'[c] <=> attached_to'[x] = c
    <3>1. x \in attribs[c] <=> attached_to[x] = c
      BY DEF Inv, LinksAgree, TreesAgree
    <3>2. DOMAIN attribs = Objects /\ DOMAIN attached_to = Objects
      BY DEF Inv, TypeOK
    <3> QED BY <1>1, <1>2, <3>1, <3>2, ObjectsAssumption
  <2> QED BY <1>1, <1>3, <2>1 DEF Inv, LinksAgree, TreesAgree, Stay, TypeOK
<1>6. ListsAgree'
  BY <1>1, StayKeeps DEF Inv, LinksAgree, ListsAgree, Stay, PageOf
<1>7. AttributesStay' /\ Tagged' /\ Placed'
  BY <1>1 DEF Inv, TypeOK, LinksAgree, AttributesStay, Tagged, Placed, PageOf, Stay
<1>8. Owned'
  <2>1. gc' = gc /\ Live' = Live /\ \A x \in Objects : InC(x)' = InC(x)
    BY <1>1, StayKeeps
  <2>2. Live \subseteq Objects
    BY DEF Live
  <2> QED BY <2>1, <2>2 DEF Inv, Owned, Unowned, OwnedBy
<1> QED BY <1>1, <1>3, <1>4, <1>5, <1>6, <1>7, <1>8, StayKeeps DEF Inv, LinksAgree

-----------------------------------------------------------------------------
(* Connections: what is kept of K, and what joining adds to it.            *)

TypedConn ==
  /\ DOMAIN conn = Objects
  /\ \A o \in Objects : \A c \in conn[o] :
       /\ c = [other |-> c.other, type |-> c.type, x |-> c.x]
       /\ c.other \in Objects \ {o} /\ c.type \in {"endpoint", "midpoint"} /\ c.x \in Int

\* The connections K are right for the places and types after the step.
Holds(K) ==
  \A a \in Objects : \A c \in K[a] :
     /\ c = [other |-> c.other, type |-> c.type, x |-> c.x]
     /\ c.other \in Objects \ {a} /\ c.type \in {"endpoint", "midpoint"} /\ c.x \in Int
     /\ kind'[a] \in Conductors /\ MayMeet(a, c.other)'
     /\ PageOf(a)' # None /\ PageOf(c.other)' = PageOf(a)'
     /\ [other |-> a, type |-> c.type, x |-> c.x] \in K[c.other]

\* K without the connections of S.
Without(K, S) ==
  \A a \in Objects : K[a] = IF a \in S THEN {} ELSE {c \in conn[a] : c.other \notin S}

LEMMA DisconnectedIs ==
  ASSUME Inv, NEW S \in SUBSET Objects
  PROVE  Without(Disconnected(S), S) /\ DOMAIN Disconnected(S) = Objects
<1>1. ASSUME NEW a \in Objects, NEW c \in conn[a] PROVE \E d \in conn[c.other] : d.other = a
  <2>1. [other |-> a, type |-> c.type, x |-> c.x] \in conn[c.other]
    BY DEF Inv, LinksAgree, ConnectionsAgree
  <2> QED BY <2>1
<1> QED BY <1>1 DEF Without, Disconnected

\* The rest of the connections hold if nothing else goes anywhere.
LEMMA CutHolds ==
  ASSUME Inv, NEW K, NEW S, Without(K, S),
         \A a \in Objects \ S : PageOf(a) # None =>
            PageOf(a)' = PageOf(a) /\ kind'[a] = kind[a] /\ parent'[a] = parent[a]
  PROVE  Holds(K)
<1> SUFFICES ASSUME NEW a \in Objects, NEW c \in K[a]
    PROVE  /\ c = [other |-> c.other, type |-> c.type, x |-> c.x]
           /\ c.other \in Objects \ {a} /\ c.type \in {"endpoint", "midpoint"} /\ c.x \in Int
           /\ kind'[a] \in Conductors /\ MayMeet(a, c.other)'
           /\ PageOf(a)' # None /\ PageOf(c.other)' = PageOf(a)'
           /\ [other |-> a, type |-> c.type, x |-> c.x] \in K[c.other]
  BY DEF Holds
<1>1. a \notin S /\ c \in conn[a] /\ c.other \notin S
  BY DEF Without
<1>2. /\ c = [other |-> c.other, type |-> c.type, x |-> c.x]
      /\ c.other \in Objects \ {a} /\ c.type \in {"endpoint", "midpoint"} /\ c.x \in Int
  BY <1>1 DEF Inv, TypeOK
<1>3. /\ PageOf(a) # None /\ PageOf(c.other) = PageOf(a)
      /\ [other |-> a, type |-> c.type, x |-> c.x] \in conn[c.other]
  BY <1>1 DEF Inv, LinksAgree, ConnectionsAgree
<1>4. kind[a] \in Conductors /\ MayMeet(a, c.other)
  BY <1>1 DEF Inv, Meeting
<1>5. /\ PageOf(a)' = PageOf(a) /\ kind'[a] = kind[a] /\ parent'[a] = parent[a]
      /\ PageOf(c.other)' = PageOf(c.other) /\ kind'[c.other] = kind[c.other]
      /\ parent'[c.other] = parent[c.other]
  BY <1>1, <1>2, <1>3
<1>6. MayMeet(a, c.other)'
  BY <1>4, <1>5 DEF MayMeet, IsPin
<1>7. [other |-> a, type |-> c.type, x |-> c.x] \in K[c.other]
  BY <1>1, <1>2, <1>3 DEF Without
<1> QED BY <1>2, <1>3, <1>4, <1>5, <1>6, <1>7

LEMMA CutKeeps ==
  ASSUME NEW K, DOMAIN K = Objects, Holds(K), conn' = K
  PROVE  TypedConn' /\ ConnectionsAgree' /\ Meeting'
<1>1. TypedConn'
  BY DEF TypedConn, Holds
<1>2. ConnectionsAgree'
  BY DEF ConnectionsAgree, Holds, PageOf
<1>3. Meeting'
  BY DEF Meeting, Holds, MayMeet, IsPin
<1> QED BY <1>1, <1>2, <1>3

\* Both objects learn of a joint, and of the same one.
LEMMA JointsAre ==
  ASSUME NEW a, NEW b, NEW c \in Joints(a, b)',
         line'[a] \in Int \X Int, line'[b] \in Int \X Int
  PROVE  /\ c = [other |-> b, type |-> c.type, x |-> c.x] /\ c.other = b
         /\ c.type \in {"endpoint", "midpoint"} /\ c.x \in Int /\ MayMeet(a, b)'
         /\ [other |-> a, type |-> c.type, x |-> c.x] \in Joints(b, a)'
<1>1. MayMeet(a, b)' /\ MayMeet(b, a)'
  BY DEF Joints, MayMeet
<1>2. EndPoints(a, b)' \subseteq Int /\ MidPoints(a, b)' \subseteq Int
      /\ MidPoints(b, a)' \subseteq Int /\ EndPoints(a, b)' = EndPoints(b, a)'
  BY DEF EndPoints, MidPoints, Tips, Compatible
<1> DEFINE e == EndPoints(a, b)'
           m == MidPoints(a, b)'
           n == MidPoints(b, a)'
<1>3. c \in [other : {b}, type : {"endpoint"}, x : e] \cup [other : {b}, type : {"midpoint"}, x : m \cup n]
  BY <1>1 DEF Joints
<1>4. Joints(b, a)' = [other : {a}, type : {"endpoint"}, x : e]
                      \cup [other : {a}, type : {"midpoint"}, x : n \cup m]
  BY <1>1, <1>2 DEF Joints
<1> HIDE DEF e, m, n
<1>5. c = [other |-> b, type |-> c.type, x |-> c.x] /\ c.other = b
      /\ \/ c.type = "endpoint" /\ c.x \in e
         \/ c.type = "midpoint" /\ c.x \in m \cup n
  BY <1>3
<1>6. [other |-> a, type |-> c.type, x |-> c.x] \in Joints(b, a)'
  BY <1>4, <1>5
<1> QED BY <1>1, <1>2, <1>5, <1>6 DEF e, m, n

LEMMA JoinKeeps ==
  ASSUME NEW K, Holds(K), NEW p \in Pages, NEW o \in Objects, conn' = With(K, Joined(o, p)'),
         \A x \in Objects : line'[x] \in Int \X Int,
         \A x \in connectible'[p] : /\ x \in Objects /\ kind'[x] \in Conductors
                                     /\ PageOf(x)' = p
  PROVE  TypedConn' /\ ConnectionsAgree' /\ Meeting'
<1> DEFINE J == Joined(o, p)'
<1>1. \A a \in Objects : conn'[a] = K[a] \cup J[a]
  BY DEF With
<1>2. p # None
  BY ObjectsAssumption
<1>3. ASSUME NEW a \in Objects, NEW c \in J[a]
      PROVE  /\ c = [other |-> c.other, type |-> c.type, x |-> c.x]
             /\ c.other \in Objects \ {a} /\ c.type \in {"endpoint", "midpoint"} /\ c.x \in Int
             /\ kind'[a] \in Conductors /\ MayMeet(a, c.other)'
             /\ PageOf(a)' # None /\ PageOf(c.other)' = PageOf(a)'
             /\ [other |-> a, type |-> c.type, x |-> c.x] \in J[c.other]
  <2>1. /\ a \in connectible'[p]
        /\ \E b \in connectible'[p] \ {a} :
              (a \in Group(o)' \/ b \in Group(o)') /\ c \in Joints(a, b)'
    BY <1>3 DEF Joined
  <2>2. PICK b \in connectible'[p] \ {a} :
              (a \in Group(o)' \/ b \in Group(o)') /\ c \in Joints(a, b)'
    BY <2>1
  <2>3. b \in Objects /\ line'[a] \in Int \X Int /\ line'[b] \in Int \X Int
    OBVIOUS
  <2>4. /\ c = [other |-> b, type |-> c.type, x |-> c.x] /\ c.other = b
        /\ c.type \in {"endpoint", "midpoint"} /\ c.x \in Int /\ MayMeet(a, b)'
        /\ [other |-> a, type |-> c.type, x |-> c.x] \in Joints(b, a)'
    BY <2>2, <2>3, JointsAre
  <2>5. [other |-> a, type |-> c.type, x |-> c.x] \in J[b]
    BY <2>1, <2>2, <2>3, <2>4 DEF Joined
  <2> QED BY <1>2, <2>1, <2>2, <2>3, <2>4, <2>5
<1> HIDE DEF J
<1>4. ASSUME NEW a \in Objects, NEW c \in conn'[a]
      PROVE  /\ c = [other |-> c.other, type |-> c.type, x |-> c.x]
             /\ c.other \in Objects \ {a} /\ c.type \in {"endpoint", "midpoint"} /\ c.x \in Int
             /\ kind'[a] \in Conductors /\ MayMeet(a, c.other)'
             /\ PageOf(a)' # None /\ PageOf(c.other)' = PageOf(a)'
             /\ [other |-> a, type |-> c.type, x |-> c.x] \in conn'[c.other]
  <2>1. CASE c \in K[a]
    BY <1>1, <2>1 DEF Holds
  <2>2. CASE c \in J[a]
    BY <1>1, <1>3, <2>2
  <2> QED BY <1>1, <2>1, <2>2
<1>5. TypedConn'
  BY <1>4 DEF TypedConn, With
<1>6. ConnectionsAgree'
  BY <1>4 DEF ConnectionsAgree, PageOf
<1>7. Meeting'
  BY <1>4 DEF Meeting, MayMeet, IsPin
<1> QED BY <1>5, <1>6, <1>7

-----------------------------------------------------------------------------
(* Taking objects off a page or out of a component.                        *)

Groups(S) == UNION {Group(o) : o \in S}

LEMMA GroupsAre ==
  ASSUME Inv, NEW S \in SUBSET Objects
  PROVE  /\ Groups(S) \subseteq Objects
         /\ \A x \in Objects : x \in Groups(S) <=> x \in S \/ parent[x] \in S
<1>1. \A c \in Objects : prims[c] = {x \in Objects : parent[x] = c}
  BY DEF Inv, LinksAgree, TreesAgree
<1> QED BY <1>1 DEF Groups, Group

LEMMA RemoveKeeps ==
  ASSUME Inv, NEW p \in Pages, NEW S \in SUBSET objects[p], RemoveFrom(p, S),
         UNCHANGED <<kind, line, parent, prims, attached_to, attribs, held, merging>>,
         selection' = [selection EXCEPT ![p] = @ \ S],
         gc' \subseteq held, removed' \subseteq Live
  PROVE  /\ TypeOK' /\ FreeIsForgotten' /\ TreesAgree' /\ ListsAgree'
         /\ ConnectionsAgree' /\ Meeting' /\ Tagged' /\ Live' = Live
         /\ \A x \in Objects : /\ page'[x] = IF x \in S THEN None ELSE page[x]
                              /\ PageOf(x)' = IF x \in Groups(S) THEN None ELSE PageOf(x)
<1>1. /\ S \subseteq Objects /\ None \notin Objects /\ p # None
      /\ \A o \in S : page[o] = p /\ parent[o] = None /\ o \in Live
  <2>1. S \subseteq Objects /\ \A o \in S : page[o] = p
    BY DEF Inv, TypeOK, LinksAgree, TreesAgree
  <2>2. None \notin Objects /\ p # None
    BY ObjectsAssumption
  <2> QED BY <2>1, <2>2 DEF Inv, LinksAgree, TreesAgree, FreeIsForgotten
<1>2. /\ objects' = [objects EXCEPT ![p] = @ \ S]
      /\ page' = [o \in Objects |-> IF o \in S THEN None ELSE page[o]]
      /\ connectible' = [connectible EXCEPT ![p] = @ \ Groups(S)]
      /\ conn' = Disconnected(Groups(S))
      /\ moved' = moved \ Groups(S) /\ merged' = merged \ Groups(S)
  BY DEF RemoveFrom, Groups, Looked
<1>3. /\ Groups(S) \subseteq Objects
      /\ \A x \in Objects : x \in Groups(S) <=> x \in S \/ parent[x] \in S
  BY <1>1, GroupsAre
<1>4. Live' = Live
  BY DEF Live
<1>5. ASSUME NEW x \in Objects
      PROVE  /\ page'[x] = IF x \in S THEN None ELSE page[x]
             /\ PageOf(x)' = IF x \in Groups(S) THEN None ELSE PageOf(x)
  <2>1. page'[x] = IF x \in S THEN None ELSE page[x]
    BY <1>2
  <2>2. parent[x] \in Objects \cup {None} /\ parent'[x] = parent[x]
    BY DEF Inv, TypeOK
  <2>3. CASE parent[x] = None
    BY <1>1, <1>3, <2>1, <2>2, <2>3 DEF PageOf
  <2>4. CASE parent[x] # None
    <3>1. page'[parent[x]] = IF parent[x] \in S THEN None ELSE page[parent[x]]
      BY <1>2, <2>2, <2>4
    <3>2. x \in Groups(S) <=> parent[x] \in S
      BY <1>1, <1>3, <2>4
    <3>3. PageOf(x) = page[parent[x]] /\ PageOf(x)' = page'[parent[x]]
      BY <2>2, <2>4 DEF PageOf
    <3> QED BY <2>1, <3>1, <3>2, <3>3
  <2> QED BY <2>1, <2>3, <2>4
<1>6. TypedConn' /\ ConnectionsAgree' /\ Meeting'
  <2>1. Without(Disconnected(Groups(S)), Groups(S)) /\ DOMAIN Disconnected(Groups(S)) = Objects
    BY <1>3, DisconnectedIs
  <2>2. Holds(Disconnected(Groups(S)))
    BY <1>5, <2>1, CutHolds
  <2> QED BY <1>2, <2>1, <2>2, CutKeeps
<1>7. TypeOK'
  <2>1. page' \in [Objects -> Pages \cup {None}]
    BY <1>2 DEF Inv, TypeOK
  <2>2. objects' \in [Pages -> SUBSET Objects] /\ connectible' \in [Pages -> SUBSET Objects]
        /\ selection' \in [Pages -> SUBSET Objects]
    BY <1>2 DEF Inv, TypeOK
  <2>3. removed' \subseteq Objects /\ moved' \subseteq Objects /\ merged' \subseteq Objects
    BY <1>2 DEF Inv, TypeOK, Live
  <2> QED BY <1>6, <2>1, <2>2, <2>3 DEF Inv, TypeOK, TypedConn
<1>8. FreeIsForgotten'
  <2>1. \A a \in Objects : conn'[a] = {} \/ PageOf(a)' # None
    BY <1>6 DEF ConnectionsAgree, PageOf
  <2>2. \A o \in Objects \ Live : PageOf(o)' = None
    <3>1. \A o \in Objects \ Live : PageOf(o) = None
      BY Places
    <3> QED BY <1>5, <3>1
  <2> QED BY <1>4, <1>5, <2>1, <2>2 DEF Inv, LinksAgree, FreeIsForgotten
<1>9. TreesAgree'
  <2>1. ASSUME NEW q \in Pages, NEW o \in Objects
        PROVE  o \in objects'[q] <=> page'[o] = q
    <3>1. o \in objects[q] <=> page[o] = q
      BY DEF Inv, LinksAgree, TreesAgree
    <3>2. q # None /\ objects'[q] = IF q = p THEN objects[q] \ S ELSE objects[q]
      BY <1>2, ObjectsAssumption DEF Inv, TypeOK
    <3> QED BY <1>1, <1>5, <3>1, <3>2
  <2>2. \A q \in Pages : objects'[q] \subseteq Objects
    BY <1>7 DEF TypeOK
  <2>3. \A o \in Objects : parent'[o] # None => page'[o] = None /\ kind'[o] # "component"
    BY <1>5 DEF Inv, LinksAgree, TreesAgree
  <2> QED BY <2>1, <2>2, <2>3 DEF Inv, LinksAgree, TreesAgree
<1>10. ListsAgree'
  <2>1. ASSUME NEW q \in Pages, NEW x \in Objects
        PROVE  x \in connectible'[q] <=> PageOf(x)' = q /\ kind'[x] \in Conductors
    <3>1. x \in connectible[q] <=> PageOf(x) = q /\ kind[x] \in Conductors
      BY DEF Inv, LinksAgree, ListsAgree
    <3>2. q # None /\ connectible'[q] = IF q = p THEN connectible[q] \ Groups(S) ELSE connectible[q]
      BY <1>2, ObjectsAssumption DEF Inv, TypeOK
    <3>3. x \in Groups(S) => PageOf(x) = p
      <4>1. \A c \in S : page[c] = p
        BY <1>1
      <4>2. parent[x] \in S => parent[x] # None
        BY <1>1
      <4>3. x \in S => parent[x] = None
        BY <1>1
      <4> QED BY <1>3, <4>1, <4>2, <4>3 DEF PageOf
    <3> QED BY <1>5, <3>1, <3>2, <3>3
  <2>2. \A q \in Pages : selection'[q] \subseteq objects'[q]
    BY <1>2 DEF Inv, LinksAgree, ListsAgree, TypeOK
  <2>3. removed' \cup {h[1] : h \in held'} \subseteq Live'
    BY <1>4 DEF Inv, LinksAgree, ListsAgree
  <2> QED BY <2>1, <2>2, <2>3 DEF ListsAgree, PageOf
<1>11. Tagged'
  BY DEF Inv, Tagged
<1> QED BY <1>4, <1>5, <1>6, <1>7, <1>8, <1>9, <1>10, <1>11 DEF PageOf

LEMMA PageRemoveStep ==
  ASSUME Inv, NEW p \in Pages, NEW o \in Objects, NEW w \in Wrappers,
         PageRemove(p, o, w)
  PROVE  Inv'
<1>1. /\ page[o] = p /\ parent[o] = None /\ attached_to[o] = None /\ attribs[o] = {}
      /\ RemoveFrom(p, {o}) /\ <<o, w>> \in held
      /\ selection' = [selection EXCEPT ![p] = @ \ {o}]
      /\ gc' = gc \cup {<<o, w>>}
      /\ UNCHANGED <<kind, line, parent, prims, attached_to, attribs, held, merging, removed>>
  BY DEF PageRemove, Free, shape, links, calls
<1>2. /\ {o} \in SUBSET objects[p] /\ gc' \subseteq held /\ removed' \subseteq Live
      /\ p # None /\ o \notin removed
  <2>1. p # None
    BY ObjectsAssumption
  <2>2. {o} \in SUBSET objects[p]
    BY <1>1 DEF Inv, LinksAgree, TreesAgree
  <2>3. gc' \subseteq held
    BY <1>1 DEF Inv, TypeOK
  <2>4. removed' \subseteq Live
    BY <1>1 DEF Inv, LinksAgree, ListsAgree
  <2>5. o \notin removed
    BY <1>1, <2>1 DEF Inv, Loose
  <2> QED BY <2>1, <2>2, <2>3, <2>4, <2>5
<1> DEFINE S == {o}
<1>2a. S \in SUBSET objects[p] /\ S \in SUBSET Objects /\ RemoveFrom(p, S)
      /\ selection' = [selection EXCEPT ![p] = @ \ S] /\ \A x : x \in S <=> x = o
  BY <1>1, <1>2
<1> HIDE DEF S
<1>3. /\ TypeOK' /\ FreeIsForgotten' /\ TreesAgree' /\ ListsAgree'
      /\ ConnectionsAgree' /\ Meeting' /\ Tagged' /\ Live' = Live
      /\ \A x \in Objects : /\ page'[x] = IF x \in S THEN None ELSE page[x]
                           /\ PageOf(x)' = IF x \in Groups(S) THEN None ELSE PageOf(x)
  BY <1>1, <1>2, <1>2a, RemoveKeeps
<1>4. \A x \in Objects : x \in Groups(S) <=> x = o \/ parent[x] = o
  BY <1>2a, GroupsAre
<1>5. AttributesStay' /\ Placed'
  <2> SUFFICES ASSUME NEW t \in Objects, NEW a \in Objects, attached_to[t] = a,
                      {a, t} \cap removed = {}
      PROVE  /\ parent[t] = parent[a] /\ PageOf(t)' = PageOf(a)'
             /\ parent[t] # None \/ PageOf(t)' # None
    BY <1>1, ObjectsAssumption DEF Inv, TypeOK, AttributesStay, Placed, PageOf
  <2>1. t \in attribs[a] /\ a # None
    BY ObjectsAssumption DEF Inv, LinksAgree, TreesAgree
  <2>2. t # o /\ a # o
    BY <1>1, <2>1
  <2>3. /\ parent[t] = parent[a] /\ PageOf(t) = PageOf(a)
        /\ parent[t] # None \/ PageOf(t) # None
    BY <2>1 DEF Inv, LinksAgree, AttributesStay, Placed
  <2> QED BY <1>1, <1>3, <1>4, <2>1, <2>2, <2>3, ObjectsAssumption
<1>6. Loose'
  BY <1>1, <1>2, <1>3 DEF Inv, Loose, TypeOK
<1>7. Owned'
  <2>1. \A x \in Live : x \in Objects
    BY DEF Live
  <2>2. InC(o) /\ ~InC(o)'
    BY <1>1, <1>2, <1>2a, <1>3 DEF InC
  <2>3. o \in Live => OwnedBy(o, w)'
    BY <1>1, <2>2 DEF Inv, Owned, Unowned, OwnedBy
  <2>4. \A x \in Live \ {o} :
          /\ InC(x)' <=> InC(x)
          /\ \A v \in Wrappers : <<x, v>> \in gc' <=> <<x, v>> \in gc
    BY <1>1, <1>2a, <1>3, <2>1 DEF InC
  <2> QED BY <1>3, <2>2, <2>3, <2>4 DEF Inv, Owned, Unowned, OwnedBy
<1> QED BY <1>3, <1>5, <1>6, <1>7 DEF Inv, LinksAgree

LEMMA DeleteSelectedStep ==
  ASSUME Inv, NEW p \in Pages, NEW S \in SUBSET selection[p], DeleteSelected(p, S)
  PROVE  Inv'
<1>1. /\ RemoveFrom(p, S) /\ removed' = S /\ removed = {}
      /\ selection' = [selection EXCEPT ![p] = @ \ S]
      /\ UNCHANGED <<kind, line, parent, prims, attached_to, attribs, held, gc, merging>>
  BY DEF DeleteSelected, shape, links, wraps
<1>2. S \in SUBSET objects[p] /\ gc' \subseteq held
  BY <1>1 DEF Inv, TypeOK, LinksAgree, ListsAgree
<1>3. S \subseteq Objects /\ \A o \in S : o \in Live /\ page[o] = p /\ parent[o] = None /\ p # None
  BY <1>2, ObjectsAssumption DEF Inv, TypeOK, LinksAgree, TreesAgree, FreeIsForgotten
<1>4. /\ TypeOK' /\ FreeIsForgotten' /\ TreesAgree' /\ ListsAgree'
      /\ ConnectionsAgree' /\ Meeting' /\ Tagged' /\ Live' = Live
      /\ \A x \in Objects : /\ page'[x] = IF x \in S THEN None ELSE page[x]
                           /\ PageOf(x)' = IF x \in Groups(S) THEN None ELSE PageOf(x)
  BY <1>1, <1>2, <1>3, RemoveKeeps
<1>5. \A x \in Objects : x \in Groups(S) <=> x \in S \/ parent[x] \in S
  BY <1>3, GroupsAre
<1>6. AttributesStay' /\ Placed'
  <2> SUFFICES ASSUME NEW t \in Objects, NEW a \in Objects, attached_to[t] = a,
                      {a, t} \cap S = {}
      PROVE  /\ parent[t] = parent[a] /\ PageOf(t)' = PageOf(a)'
             /\ parent[t] # None \/ PageOf(t)' # None
    BY <1>1, ObjectsAssumption DEF Inv, TypeOK, AttributesStay, Placed, PageOf
  <2>1. /\ parent[t] = parent[a] /\ PageOf(t) = PageOf(a)
        /\ parent[t] # None \/ PageOf(t) # None
    BY <1>1, ObjectsAssumption DEF Inv, LinksAgree, AttributesStay, Placed
  <2> QED BY <1>3, <1>4, <1>5, <2>1, ObjectsAssumption
<1>7. Loose'
  BY <1>1, <1>3, <1>4 DEF Loose
<1>8. Owned'
  <2>1. \A x \in Live : x \in Objects
    BY DEF Live
  <2>2. \A x \in Live : InC(x)' <=> InC(x)
    BY <1>1, <1>3, <1>4, <2>1 DEF InC
  <2> QED BY <1>1, <1>4, <2>2 DEF Inv, Owned, Unowned, OwnedBy
<1> QED BY <1>4, <1>6, <1>7, <1>8 DEF Inv, LinksAgree

LEMMA ComplexRemoveStep ==
  ASSUME Inv, NEW c \in Objects, NEW o \in Objects, NEW w \in Wrappers,
         ComplexRemove(c, o, w)
  PROVE  Inv'
<1> DEFINE S == Conducting({o})
<1>1. /\ prims' = [prims EXCEPT ![c] = @ \ {o}] /\ parent' = [parent EXCEPT ![o] = None]
      /\ connectible' = IF page[c] = None THEN connectible
                        ELSE [connectible EXCEPT ![page[c]] = @ \ {o}]
      /\ conn' = Disconnected(S) /\ parent[o] = c /\ kind[c] = "component"
      /\ attached_to[o] = None /\ attribs[o] = {} /\ <<o, w>> \in held
      /\ gc' = gc \cup {<<o, w>>} /\ moved' = moved \ {o} /\ merged' = merged \ {o}
      /\ UNCHANGED <<kind, line, page, objects, attached_to, attribs, selection, held,
                     removed, merging>>
  BY DEF ComplexRemove, Free, Looked, shape, links, calls
<1>2. /\ c # None /\ c # o /\ page[o] = None /\ parent[c] = None /\ o \notin removed
      /\ prims[o] = {} /\ PageOf(o) = page[c]
  BY <1>1, ObjectsAssumption DEF Inv, LinksAgree, TreesAgree, Loose, PageOf
<1>3. Live' = Live
  BY <1>1 DEF Live
<1>4. /\ \A x \in Objects : parent'[x] = IF x = o THEN None ELSE parent[x]
      /\ \A x \in Objects : PageOf(x)' = IF x = o THEN None ELSE PageOf(x)
  <2>1. \A x \in Objects : parent'[x] = IF x = o THEN None ELSE parent[x]
    BY <1>1 DEF Inv, TypeOK
  <2> QED BY <1>1, <1>2, <2>1 DEF PageOf
<1>5. S \in SUBSET Objects /\ \A x \in Objects : x \in S <=> x = o /\ kind[x] \in Conductors
  BY DEF Conducting
<1> HIDE DEF S
<1>6. TypedConn' /\ ConnectionsAgree' /\ Meeting'
  <2>1. Without(Disconnected(S), S) /\ DOMAIN Disconnected(S) = Objects
    BY <1>5, DisconnectedIs
  <2>2. \A a \in Objects : conn[a] # {} => kind[a] \in Conductors
    BY DEF Inv, Meeting
  <2>3. Without(Disconnected(S), {o})
    <3>1. \A a \in Objects : \A d \in conn[a] : d.other \in Objects /\ conn[d.other] # {}
      BY DEF Inv, TypeOK, LinksAgree, ConnectionsAgree
    <3> QED BY <1>5, <2>1, <2>2, <3>1 DEF Without
  <2>4. Holds(Disconnected(S))
    BY <1>1, <1>4, <2>3, CutHolds
  <2> QED BY <1>1, <2>1, <2>4, CutKeeps
<1>7. TypeOK'
  <2>1. page[c] \in Pages \cup {None}
    BY DEF Inv, TypeOK
  <2>2. connectible' \in [Pages -> SUBSET Objects]
    BY <1>1, <2>1 DEF Inv, TypeOK
  <2>3. prims' \in [Objects -> SUBSET Objects] /\ parent' \in [Objects -> Objects \cup {None}]
    BY <1>1 DEF Inv, TypeOK
  <2>4. moved' \subseteq Objects /\ merged' \subseteq Objects /\ gc' \subseteq held'
    BY <1>1 DEF Inv, TypeOK
  <2> QED BY <1>1, <1>6, <2>2, <2>3, <2>4 DEF Inv, TypeOK, TypedConn
<1>8. FreeIsForgotten'
  <2>1. \A a \in Objects : conn'[a] = {} \/ PageOf(a)' # None
    BY <1>6 DEF ConnectionsAgree, PageOf
  <2>2. \A x \in Objects \ Live : /\ PageOf(x)' = None /\ parent'[x] = None
                                 /\ prims'[x] = {}
    <3>1. \A x \in Objects \ Live : PageOf(x) = None /\ parent[x] = None /\ prims[x] = {}
      BY Places DEF Inv, LinksAgree, FreeIsForgotten
    <3>2. \A x \in Objects : prims'[x] \subseteq prims[x]
      BY <1>1 DEF Inv, TypeOK
    <3> QED BY <1>4, <3>1, <3>2
  <2> QED BY <1>1, <1>3, <2>1, <2>2 DEF Inv, LinksAgree, FreeIsForgotten
<1>9. TreesAgree'
  <2>1. ASSUME NEW d \in Objects, NEW x \in Objects
        PROVE  x \in prims'[d] <=> parent'[x] = d
    <3>1. x \in prims[d] <=> parent[x] = d
      BY DEF Inv, LinksAgree, TreesAgree
    <3>2. d # None /\ prims'[d] = IF d = c THEN prims[d] \ {o} ELSE prims[d]
      BY <1>1, ObjectsAssumption DEF Inv, TypeOK
    <3> QED BY <1>1, <1>4, <3>1, <3>2
  <2>2. \A d \in Objects : prims'[d] \subseteq Objects /\ (prims'[d] # {} => prims[d] # {})
    BY <1>1 DEF Inv, TypeOK
  <2>3. \A x \in Objects : parent'[x] # None => page[x] = None /\ kind[x] # "component"
    BY <1>4 DEF Inv, LinksAgree, TreesAgree
  <2> QED BY <1>1, <2>1, <2>2, <2>3 DEF Inv, LinksAgree, TreesAgree
<1>10. ListsAgree'
  <2>1. ASSUME NEW q \in Pages, NEW x \in Objects
        PROVE  x \in connectible'[q] <=> PageOf(x)' = q /\ kind'[x] \in Conductors
    <3>1. x \in connectible[q] <=> PageOf(x) = q /\ kind[x] \in Conductors
      BY DEF Inv, LinksAgree, ListsAgree
    <3>2. q # None /\ connectible'[q] = IF q = page[c] THEN connectible[q] \ {o} ELSE connectible[q]
      <4>1. page[c] \in Pages \cup {None} /\ DOMAIN connectible = Pages
        BY DEF Inv, TypeOK
      <4>2. q # None
        BY ObjectsAssumption
      <4> QED BY <1>1, <4>1, <4>2
    <3> QED BY <1>1, <1>2, <1>4, <3>1, <3>2
  <2> QED BY <1>1, <1>3, <2>1 DEF Inv, LinksAgree, ListsAgree, PageOf
<1>11. AttributesStay' /\ Placed'
  <2> SUFFICES ASSUME NEW t \in Objects, NEW a \in Objects, attached_to'[t] = a,
                      {a, t} \cap removed' = {}
      PROVE  /\ parent'[t] = parent'[a] /\ PageOf(t)' = PageOf(a)'
             /\ parent'[t] # None \/ PageOf(t)' # None
    BY <1>7, ObjectsAssumption DEF TypeOK, AttributesStay, Placed, PageOf
  <2>1. attached_to[t] = a /\ t \in attribs[a] /\ a # None /\ {a, t} \cap removed = {}
    BY <1>1, ObjectsAssumption DEF Inv, LinksAgree, TreesAgree
  <2>2. t # o /\ a # o
    BY <1>1, <2>1
  <2>3. /\ parent[t] = parent[a] /\ PageOf(t) = PageOf(a)
        /\ parent[t] # None \/ PageOf(t) # None
    BY <2>1 DEF Inv, LinksAgree, AttributesStay, Placed
  <2> QED BY <1>4, <2>2, <2>3
<1>12. Loose' /\ Tagged'
  <2>1. \A x \in removed : page[x] = None /\ parent[x] = None /\ x \in Objects
    BY DEF Inv, Loose, TypeOK
  <2> QED BY <1>1, <1>4, <2>1 DEF Inv, Loose, Tagged
<1>13. Owned'
  <2>1. \A x \in Live : x \in Objects
    BY DEF Live
  <2>2. InC(o) /\ ~InC(o)'
    BY <1>1, <1>2, <1>4 DEF InC
  <2>3. o \in Live => OwnedBy(o, w)'
    BY <1>1, <2>2 DEF Inv, Owned, Unowned, OwnedBy
  <2>4. \A x \in Live \ {o} :
          /\ InC(x)' <=> InC(x)
          /\ \A v \in Wrappers : <<x, v>> \in gc' <=> <<x, v>> \in gc
    BY <1>1, <1>4, <2>1 DEF InC
  <2> QED BY <1>3, <2>2, <2>3, <2>4 DEF Inv, Owned, Unowned, OwnedBy
<1> QED BY <1>6, <1>7, <1>8, <1>9, <1>10, <1>11, <1>12, <1>13 DEF Inv, LinksAgree

-----------------------------------------------------------------------------
(* Freeing objects that are in no component, and what is in them.          *)

LEMMA DeleteStep ==
  ASSUME Inv, NEW S \in SUBSET Live, \A o \in S : parent[o] = None, Delete(S),
         selection' \in [Pages -> SUBSET Objects],
         \A q \in Pages : selection'[q] \subseteq objects[q] \ S,
         removed' \subseteq removed \ S, \A o \in removed \ S : o \in removed',
         merging' = merging
  PROVE  Inv'
<1> DEFINE F == Groups(S)
<1>1. /\ kind' = [o \in Objects |-> IF o \in F THEN "free" ELSE kind[o]]
      /\ line' = [o \in Objects |-> IF o \in F THEN NoLine ELSE line[o]]
      /\ page' = [o \in Objects |-> IF o \in F THEN None ELSE page[o]]
      /\ parent' = [o \in Objects |-> IF o \in F THEN None ELSE parent[o]]
      /\ prims' = [o \in Objects |-> IF o \in F THEN {} ELSE prims[o]]
      /\ objects' = [p \in Pages |-> objects[p] \ {o \in S : page[o] = p}]
      /\ connectible' = [p \in Pages |-> connectible[p] \ Groups({o \in S : page[o] = p})]
      /\ conn' = Disconnected(F)
      /\ attached_to' = [t \in Objects |->
           IF t \in F \/ \E o \in F : t \in attribs[o] THEN None ELSE attached_to[t]]
      /\ attribs' = [o \in Objects |->
           IF o \in F THEN {} ELSE attribs[o] \ {t \in F : attached_to[t] = o}]
      /\ held' = {h \in held : h[1] \notin F} /\ gc' = {h \in gc : h[1] \notin F}
      /\ moved' = moved \ F /\ merged' = merged \ F
  BY DEF Delete, Groups, Looked
<1>2. /\ S \subseteq Objects /\ F \subseteq Objects
      /\ \A x \in Objects : x \in F <=> x \in S \/ parent[x] \in S
  BY GroupsAre DEF Live
<1> HIDE DEF F
<1>3. /\ None \notin S /\ None \notin F /\ F \subseteq Live
      /\ \A x \in Objects : parent[x] \in F <=> parent[x] \in S
      /\ \A x \in S : parent[x] = None
      /\ \A x \in Objects : parent[x] # None => page[x] = None
  <2>1. None \notin S /\ None \notin F
    BY <1>2, ObjectsAssumption
  <2>2. F \subseteq Live
    <3>1. \A x \in Objects : parent[x] \in S => x \in Live
      BY <2>1 DEF Inv, LinksAgree, FreeIsForgotten
    <3> QED BY <1>2, <3>1
  <2>3. ASSUME NEW x \in Objects, parent[x] \in F PROVE parent[x] \in S
    <3>1. parent[x] \in Objects /\ parent[x] # None
      BY <1>2, <2>1, <2>3
    <3>2. kind[parent[x]] = "component"
      BY <3>1 DEF Inv, LinksAgree, TreesAgree
    <3>3. parent[parent[x]] = None
      BY <3>1, <3>2 DEF Inv, LinksAgree, TreesAgree
    <3> QED BY <1>2, <2>1, <2>3, <3>1, <3>3
  <2>4. \A x \in Objects : parent[x] # None => page[x] = None
    BY DEF Inv, LinksAgree, TreesAgree
  <2> QED BY <1>2, <2>1, <2>2, <2>3, <2>4
<1>4. Live' = Live \ F
  <2>1. \A x \in Objects : kind'[x] = IF x \in F THEN "free" ELSE kind[x]
    BY <1>1
  <2> QED BY <2>1 DEF Live
<1>5. ASSUME NEW x \in Objects
      PROVE  /\ kind'[x] = IF x \in F THEN "free" ELSE kind[x]
             /\ page'[x] = IF x \in F THEN None ELSE page[x]
             /\ parent'[x] = IF x \in F THEN None ELSE parent[x]
             /\ PageOf(x)' = IF x \in F THEN None ELSE PageOf(x)
  <2>1. /\ kind'[x] = IF x \in F THEN "free" ELSE kind[x]
        /\ page'[x] = IF x \in F THEN None ELSE page[x]
        /\ parent'[x] = IF x \in F THEN None ELSE parent[x]
    BY <1>1
  <2>2. CASE x \in F
    BY <2>1, <2>2 DEF PageOf
  <2>3. CASE x \notin F /\ parent[x] = None
    BY <2>1, <2>3 DEF PageOf
  <2>4. CASE x \notin F /\ parent[x] # None
    <3>1. parent[x] \in Objects /\ parent[x] \notin F
      BY <1>2, <1>3, <2>4 DEF Inv, TypeOK
    <3>2. page'[parent[x]] = page[parent[x]]
      BY <1>1, <3>1
    <3> QED BY <2>1, <2>4, <3>2 DEF PageOf
  <2> QED BY <2>1, <2>2, <2>3, <2>4
<1>6. TypedConn' /\ ConnectionsAgree' /\ Meeting'
  <2>1. Without(Disconnected(F), F) /\ DOMAIN Disconnected(F) = Objects
    BY <1>2, DisconnectedIs
  <2>2. Holds(Disconnected(F))
    BY <1>5, <2>1, CutHolds
  <2> QED BY <1>1, <2>1, <2>2, CutKeeps
<1>7. TypeOK'
  <2>1. /\ kind' \in [Objects -> Kinds \cup {"free"}]
        /\ DOMAIN line' = Objects /\ \A x \in Objects : line'[x] \in Int \X Int
        /\ page' \in [Objects -> Pages \cup {None}]
        /\ parent' \in [Objects -> Objects \cup {None}]
    BY <1>1 DEF Inv, TypeOK, NoLine
  <2>2. /\ attached_to' \in [Objects -> Objects \cup {None}]
        /\ prims' \in [Objects -> SUBSET Objects] /\ attribs' \in [Objects -> SUBSET Objects]
    BY <1>1 DEF Inv, TypeOK
  <2>3. /\ objects' \in [Pages -> SUBSET Objects] /\ connectible' \in [Pages -> SUBSET Objects]
    BY <1>1 DEF Inv, TypeOK
  <2>4. /\ held' \subseteq Objects \X Wrappers /\ gc' \subseteq held'
        /\ removed' \subseteq Objects /\ moved' \subseteq Objects /\ merged' \subseteq Objects
    BY <1>1 DEF Inv, TypeOK
  <2> QED BY <1>6, <2>1, <2>2, <2>3, <2>4 DEF Inv, TypeOK, TypedConn
<1>8. \A c \in Objects : \A t \in Objects : t \in attribs[c] <=> attached_to[t] = c
  BY DEF Inv, LinksAgree, TreesAgree
<1>9. ASSUME NEW t \in Objects
      PROVE  attached_to'[t] = IF t \in F \/ attached_to[t] \in F THEN None ELSE attached_to[t]
  BY <1>1, <1>2, <1>8
<1>10. FreeIsForgotten'
  <2>1. \A a \in Objects : conn'[a] = {} \/ PageOf(a)' # None
    BY <1>6 DEF ConnectionsAgree, PageOf
  <2>2. \A x \in Objects \ Live : PageOf(x) = None
    BY Places
  <2>3. ASSUME NEW x \in Objects \ Live'
        PROVE  /\ prims'[x] = {} /\ attribs'[x] = {} /\ conn'[x] = {}
               /\ parent'[x] = None /\ page'[x] = None /\ attached_to'[x] = None
    <3>1. CASE x \in F
      BY <1>1, <1>5, <1>9, <2>1, <3>1
    <3>2. CASE x \notin F
      <4>1. x \notin Live
        BY <1>4, <3>2
      <4>2. /\ prims[x] = {} /\ attribs[x] = {} /\ parent[x] = None /\ page[x] = None
            /\ attached_to[x] = None
        BY <4>1 DEF Inv, LinksAgree, FreeIsForgotten
      <4> QED BY <1>1, <1>5, <1>9, <2>1, <2>2, <4>1, <4>2
    <3> QED BY <3>1, <3>2
  <2> QED BY <2>3 DEF FreeIsForgotten
<1>11. TreesAgree'
  <2>1. ASSUME NEW q \in Pages, NEW x \in Objects
        PROVE  x \in objects'[q] <=> page'[x] = q
    <3>1. x \in objects[q] <=> page[x] = q
      BY DEF Inv, LinksAgree, TreesAgree
    <3>2. q # None
      BY ObjectsAssumption
    <3> QED BY <1>1, <1>2, <1>3, <1>5, <3>1, <3>2
  <2>2. ASSUME NEW c \in Objects, NEW x \in Objects
        PROVE  x \in prims'[c] <=> parent'[x] = c
    <3>1. x \in prims[c] <=> parent[x] = c
      BY DEF Inv, LinksAgree, TreesAgree
    <3>2. c # None /\ (parent[x] = c /\ c \in F => x \in F)
      BY <1>2, <1>3, ObjectsAssumption
    <3>3. prims'[c] = IF c \in F THEN {} ELSE prims[c]
      BY <1>1
    <3>4. x \in F /\ parent[x] = c => c \in F
      BY <1>2, <1>3, <3>2
    <3> QED BY <1>5, <3>1, <3>2, <3>3, <3>4
  <2>3. ASSUME NEW c \in Objects, NEW x \in Objects
        PROVE  x \in attribs'[c] <=> attached_to'[x] = c
    <3>1. x \in attribs[c] <=> attached_to[x] = c
      BY <1>8
    <3>2. c # None
      BY ObjectsAssumption
    <3>3. x \in attribs'[c] <=> c \notin F /\ x \in attribs[c] /\ ~(x \in F /\ attached_to[x] = c)
      BY <1>1
    <3> QED BY <1>9, <3>1, <3>2, <3>3
  <2>4. \A c \in Objects : prims'[c] # {} => kind'[c] = "component"
    BY <1>1, <1>5 DEF Inv, LinksAgree, TreesAgree
  <2>5. \A x \in Objects : parent'[x] # None => page'[x] = None /\ kind'[x] # "component"
    BY <1>5 DEF Inv, LinksAgree, TreesAgree
  <2>6. /\ \A q \in Pages : objects'[q] \subseteq Objects
        /\ \A c \in Objects : prims'[c] \subseteq Objects /\ attribs'[c] \subseteq Objects
    BY <1>7 DEF TypeOK
  <2> QED BY <2>1, <2>2, <2>3, <2>4, <2>5, <2>6 DEF TreesAgree
<1>12. ListsAgree'
  <2>1. ASSUME NEW q \in Pages, NEW x \in Objects
        PROVE  x \in connectible'[q] <=> PageOf(x)' = q /\ kind'[x] \in Conductors
    <3>1. x \in connectible[q] <=> PageOf(x) = q /\ kind[x] \in Conductors
      BY DEF Inv, LinksAgree, ListsAgree
    <3>2. q # None
      BY ObjectsAssumption
    <3> DEFINE R == {o \in S : page[o] = q}
    <3>3. x \in Groups(R) <=> x \in R \/ parent[x] \in R
      BY <1>2, GroupsAre
    <3>4. PageOf(x) = q => (x \in Groups(R) <=> x \in F)
      BY <1>2, <1>3, <3>2, <3>3 DEF PageOf
    <3>5. x \in Groups(R) => x \in F
      BY <1>2, <3>3
    <3>6. x \in connectible'[q] <=> x \in connectible[q] /\ x \notin Groups(R)
      BY <1>1
    <3> HIDE DEF R
    <3> QED BY <1>5, <3>1, <3>2, <3>4, <3>5, <3>6
  <2>2. \A q \in Pages : selection'[q] \subseteq objects'[q]
    BY <1>1
  <2>3. removed' \cup {h[1] : h \in held'} \subseteq Live'
    <3>1. removed \cup {h[1] : h \in held} \subseteq Live
      BY DEF Inv, LinksAgree, ListsAgree
    <3>2. \A x \in removed : parent[x] = None
      BY DEF Inv, Loose
    <3> QED BY <1>1, <1>2, <1>3, <1>4, <3>1, <3>2 DEF Live
  <2> QED BY <2>1, <2>2, <2>3 DEF ListsAgree, PageOf
<1>13. AttributesStay' /\ Placed' /\ Tagged' /\ Loose'
  <2>1. Tagged'
    BY <1>5, <1>9 DEF Inv, Tagged
  <2>2. Loose'
    BY <1>5 DEF Inv, Loose, TypeOK
  <2>3. AttributesStay' /\ Placed'
    <3> SUFFICES ASSUME NEW t \in Objects, NEW a \in Objects, attached_to'[t] = a,
                        {a, t} \cap removed' = {}
        PROVE  /\ parent'[t] = parent'[a] /\ PageOf(t)' = PageOf(a)'
               /\ parent'[t] # None \/ PageOf(t)' # None
      BY <1>7, ObjectsAssumption DEF TypeOK, AttributesStay, Placed, PageOf
    <3>1. attached_to[t] = a /\ t \notin F /\ a \notin F /\ a # None
      BY <1>9, ObjectsAssumption
    <3>2. t \notin S /\ a \notin S
      BY <1>2, <3>1
    <3>3. /\ parent[t] = parent[a] /\ PageOf(t) = PageOf(a)
          /\ parent[t] # None \/ PageOf(t) # None
      BY <3>1, <3>2 DEF Inv, LinksAgree, AttributesStay, Placed
    <3> QED BY <1>5, <3>1, <3>3
  <2> QED BY <2>1, <2>2, <2>3
<1>14. Owned'
  <2> SUFFICES ASSUME NEW x \in Live \ F
               PROVE  IF InC(x)' THEN Unowned(x)' ELSE \E w \in Wrappers : OwnedBy(x, w)'
    BY <1>4 DEF Owned
  <2>1. x \in Objects /\ IF InC(x) THEN Unowned(x) ELSE \E w \in Wrappers : OwnedBy(x, w)
    BY DEF Inv, Owned, Live
  <2>2. \A w \in Wrappers : <<x, w>> \in gc' <=> <<x, w>> \in gc
    BY <1>1
  <2>3. x \in removed' <=> x \in removed
    BY <1>2, <2>1
  <2>4. InC(x)' <=> InC(x)
    BY <1>5, <2>1, <2>3 DEF InC
  <2> QED BY <2>1, <2>2, <2>4 DEF Unowned, OwnedBy
<1> QED BY <1>6, <1>7, <1>10, <1>11, <1>12, <1>13, <1>14 DEF Inv, LinksAgree

LEMMA ClosePageStep ==
  ASSUME Inv, NEW p \in Pages, ClosePage(p) PROVE Inv'
<1> DEFINE S == objects[p]
<1>1. Delete(S) /\ removed = {} /\ selection' = [selection EXCEPT ![p] = {}] /\ UNCHANGED calls
  BY DEF ClosePage
<1>2. S \in SUBSET Live /\ \A o \in S : parent[o] = None
  <2>1. p # None /\ \A o \in S : page[o] = p /\ o \in Objects
    BY ObjectsAssumption DEF Inv, TypeOK, LinksAgree, TreesAgree
  <2> QED BY <2>1 DEF Inv, LinksAgree, TreesAgree, FreeIsForgotten
<1>3. selection' \in [Pages -> SUBSET Objects]
  BY <1>1 DEF Inv, TypeOK
<1>4. ASSUME NEW q \in Pages PROVE selection'[q] \subseteq objects[q] \ S
  <2>1. selection'[q] = IF q = p THEN {} ELSE selection[q]
    BY <1>1 DEF Inv, TypeOK
  <2>2. selection[q] \subseteq objects[q]
    BY DEF Inv, LinksAgree, ListsAgree
  <2>3. q # p => objects[q] \cap S = {}
    BY DEF Inv, LinksAgree, TreesAgree
  <2> QED BY <2>1, <2>2, <2>3
<1>5. removed' = {} /\ merging' = merging
  BY <1>1 DEF calls
<1> HIDE DEF S
<1> QED BY <1>1, <1>2, <1>3, <1>4, <1>5, DeleteStep

LEMMA DeleteRemovedStep ==
  ASSUME Inv, DeleteRemoved PROVE Inv'
<1>1. Delete(removed) /\ removed' = {} /\ UNCHANGED <<selection, merging>>
  BY DEF DeleteRemoved
<1>2. removed \in SUBSET Live /\ \A o \in removed : parent[o] = None /\ page[o] = None
  BY DEF Inv, LinksAgree, ListsAgree, Loose
<1>3. selection' \in [Pages -> SUBSET Objects]
  BY <1>1 DEF Inv, TypeOK
<1>4. \A q \in Pages : selection'[q] \subseteq objects[q] \ removed
  BY <1>1, <1>2, ObjectsAssumption DEF Inv, LinksAgree, ListsAgree, TreesAgree
<1> QED BY <1>1, <1>2, <1>3, <1>4, DeleteStep

\* A wrapper is collected, and its object with it.
LEMMA FreeStep ==
  ASSUME Inv, NEW o \in Objects, NEW w \in Wrappers, Collect(o, w), <<o, w>> \in gc
  PROVE  Inv'
<1> DEFINE S == {o}
<1>1. Delete(S) /\ UNCHANGED <<selection, removed, merging>>
  BY DEF Collect, calls
<1>2. o \in Live /\ page[o] = None /\ parent[o] = None /\ o \notin removed
  <2>1. o \in Live
    BY HeldAreLive
  <2>2. ~InC(o)
    BY <2>1 DEF Inv, Owned, Unowned
  <2> QED BY <2>1, <2>2 DEF InC
<1>3. S \in SUBSET Live /\ (\A x \in S : parent[x] = None) /\ removed \cap S = {}
  BY <1>2
<1>4. selection' \in [Pages -> SUBSET Objects]
  BY <1>1 DEF Inv, TypeOK
<1>5. \A q \in Pages : selection'[q] \subseteq objects[q] \ S
  BY <1>1, <1>2, ObjectsAssumption DEF Inv, LinksAgree, ListsAgree, TreesAgree
<1> HIDE DEF S
<1> QED BY <1>1, <1>3, <1>4, <1>5, DeleteStep

-----------------------------------------------------------------------------
(* Placing objects, and looking for connections.                           *)

LEMMA PageAppendStep ==
  ASSUME Inv, NEW p \in Pages, NEW o \in Objects, NEW w \in Wrappers,
         PageAppend(p, o, w), <<o, w>> \in gc
  PROVE  Inv'
<1> DEFINE G == Group(o)
<1>1. /\ objects' = [objects EXCEPT ![p] = @ \cup {o}] /\ page' = [page EXCEPT ![o] = p]
      /\ connectible' = [connectible EXCEPT ![p] = @ \cup Conducting(G)]
      /\ conn' = With(conn, Joined(o, p)')
      /\ moved' = moved \ G /\ merged' = merged \ G
      /\ <<o, w>> \in held /\ o \notin removed /\ PageOf(o) = None /\ parent[o] = None
      /\ gc' = gc \ {<<o, w>>}
      /\ UNCHANGED <<kind, line, parent, prims, attached_to, attribs, selection, held,
                     removed, merging>>
  BY DEF PageAppend, AppendTo, MayPlace, Keep, Looked, shape, links, calls
<1>2. /\ p # None /\ page[o] = None /\ o \in Live /\ None \notin Objects
      /\ \A x \in Objects : x \in G <=> x = o \/ parent[x] = o
  BY <1>1, HeldAreLive, ObjectsAssumption DEF Inv, LinksAgree, TreesAgree, Group, PageOf
<1>3. Live' = Live
  BY <1>1 DEF Live
<1>4. G \subseteq Objects /\ Conducting(G) = {x \in G : kind[x] \in Conductors}
  BY DEF Inv, TypeOK, Group, Conducting
<1> HIDE DEF G
<1>5. ASSUME NEW x \in Objects
      PROVE  /\ page'[x] = IF x = o THEN p ELSE page[x]
             /\ PageOf(x)' = IF x \in G THEN p ELSE PageOf(x)
             /\ x \in G => PageOf(x) = None
  <2>1. page'[x] = IF x = o THEN p ELSE page[x]
    BY <1>1 DEF Inv, TypeOK
  <2>2. parent[x] # None => /\ parent[x] \in Objects /\ x # o
                            /\ page'[parent[x]] = IF parent[x] = o THEN p ELSE page[parent[x]]
    BY <1>1 DEF Inv, TypeOK
  <2>3. CASE parent[x] = None
    BY <1>1, <1>2, <2>1, <2>3 DEF PageOf
  <2>4. CASE parent[x] # None
    BY <1>1, <1>2, <2>1, <2>2, <2>4 DEF PageOf
  <2> QED BY <2>1, <2>3, <2>4
<1>6. ASSUME NEW q \in Pages, NEW x \in Objects
      PROVE  x \in connectible'[q] <=> PageOf(x)' = q /\ kind'[x] \in Conductors
  <2>1. x \in connectible[q] <=> PageOf(x) = q /\ kind[x] \in Conductors
    BY DEF Inv, LinksAgree, ListsAgree
  <2>2. q # None /\ connectible'[q] = IF q = p THEN connectible[q] \cup Conducting(G)
                                      ELSE connectible[q]
    BY <1>1, ObjectsAssumption DEF Inv, TypeOK
  <2> QED BY <1>1, <1>4, <1>5, <2>1, <2>2
<1>7. connectible'[p] \subseteq Objects
  BY <1>1, <1>4 DEF Inv, TypeOK
<1>8. TypedConn' /\ ConnectionsAgree' /\ Meeting'
  <2>1. Without(conn, {}) /\ \A x \in Objects : line'[x] \in Int \X Int
    BY <1>1 DEF Without, Inv, TypeOK
  <2>2. \A a \in Objects \ {} : PageOf(a) # None =>
          PageOf(a)' = PageOf(a) /\ kind'[a] = kind[a] /\ parent'[a] = parent[a]
    BY <1>1, <1>5
  <2>3. Holds(conn)
    BY <2>1, <2>2, CutHolds
  <2>4. \A x \in connectible'[p] : x \in Objects /\ kind'[x] \in Conductors /\ PageOf(x)' = p
    BY <1>6, <1>7
  <2> QED BY <1>1, <2>1, <2>3, <2>4, JoinKeeps
<1>9. TypeOK'
  <2>1. page' \in [Objects -> Pages \cup {None}] /\ objects' \in [Pages -> SUBSET Objects]
    BY <1>1 DEF Inv, TypeOK
  <2>2. connectible' \in [Pages -> SUBSET Objects]
    BY <1>1, <1>4 DEF Inv, TypeOK
  <2>3. moved' \subseteq Objects /\ merged' \subseteq Objects /\ gc' \subseteq held'
    BY <1>1 DEF Inv, TypeOK
  <2> QED BY <1>1, <1>8, <2>1, <2>2, <2>3 DEF Inv, TypeOK, TypedConn
<1>10. FreeIsForgotten'
  <2>1. \A a \in Objects : conn'[a] = {} \/ PageOf(a)' # None
    BY <1>8 DEF ConnectionsAgree, PageOf
  <2>2. \A x \in Objects \ Live : parent[x] = None /\ x # o /\ PageOf(x) = None
    BY <1>2, Places DEF Inv, LinksAgree, FreeIsForgotten
  <2>3. \A x \in Objects \ Live : PageOf(x)' = None /\ page'[x] = page[x]
    BY <1>2, <1>5, <2>2
  <2> QED BY <1>1, <1>3, <2>1, <2>3 DEF Inv, LinksAgree, FreeIsForgotten
<1>11. TreesAgree'
  <2>1. ASSUME NEW q \in Pages, NEW x \in Objects
        PROVE  x \in objects'[q] <=> page'[x] = q
    <3>1. x \in objects[q] <=> page[x] = q
      BY DEF Inv, LinksAgree, TreesAgree
    <3>2. q # None /\ objects'[q] = IF q = p THEN objects[q] \cup {o} ELSE objects[q]
      BY <1>1, ObjectsAssumption DEF Inv, TypeOK
    <3> QED BY <1>2, <1>5, <3>1, <3>2
  <2>2. \A q \in Pages : objects'[q] \subseteq Objects
    BY <1>9 DEF TypeOK
  <2>3. \A x \in Objects : parent'[x] # None => page'[x] = None /\ kind'[x] # "component"
    BY <1>1, <1>5 DEF Inv, LinksAgree, TreesAgree
  <2> QED BY <1>1, <2>1, <2>2, <2>3 DEF Inv, LinksAgree, TreesAgree
<1>12. ListsAgree'
  <2>1. \A q \in Pages : objects[q] \subseteq objects'[q]
    BY <1>1 DEF Inv, TypeOK
  <2> QED BY <1>1, <1>3, <1>6, <2>1 DEF Inv, LinksAgree, ListsAgree, PageOf
<1>13. AttributesStay' /\ Placed' /\ Tagged'
  <2>1. Tagged'
    BY <1>1 DEF Inv, Tagged
  <2> SUFFICES ASSUME NEW t \in Objects, NEW a \in Objects, attached_to'[t] = a,
                      {a, t} \cap removed' = {}
      PROVE  /\ parent'[t] = parent'[a] /\ PageOf(t)' = PageOf(a)'
             /\ parent'[t] # None \/ PageOf(t)' # None
    BY <1>9, <2>1, ObjectsAssumption DEF TypeOK, AttributesStay, Placed, PageOf
  <2>2. attached_to[t] = a /\ a # None /\ {a, t} \cap removed = {}
    BY <1>1, ObjectsAssumption
  <2>3. /\ parent[t] = parent[a] /\ PageOf(t) = PageOf(a)
        /\ parent[t] # None \/ PageOf(t) # None
    BY <2>2 DEF Inv, LinksAgree, AttributesStay, Placed
  <2> QED BY <1>1, <1>2, <1>5, <2>3
<1>14. Loose'
  BY <1>1, <1>5 DEF Inv, Loose, TypeOK
<1>15. Owned'
  <2>1. \A x \in Live : x \in Objects
    BY DEF Live
  <2>2. InC(o)'
    BY <1>1, <1>2, <1>5 DEF InC
  <2>3. o \in Live => Unowned(o)'
    BY <1>1 DEF Inv, Owned, Unowned, OwnedBy
  <2>4. \A x \in Live \ {o} :
          /\ InC(x)' <=> InC(x)
          /\ \A v \in Wrappers : <<x, v>> \in gc' <=> <<x, v>> \in gc
    BY <1>1, <1>5, <2>1 DEF InC
  <2> QED BY <1>3, <2>2, <2>3, <2>4 DEF Inv, Owned, Unowned, OwnedBy
<1> QED BY <1>8, <1>9, <1>10, <1>11, <1>12, <1>13, <1>14, <1>15 DEF Inv, LinksAgree

LEMMA ComplexAppendStep ==
  ASSUME Inv, NEW c \in Objects, NEW o \in Objects, NEW w \in Wrappers,
         ComplexAppend(c, o, w), <<o, w>> \in gc
  PROVE  Inv'
<1>1. /\ <<o, w>> \in held /\ (\E v \in Wrappers : <<c, v>> \in held) /\ o \notin removed
      /\ kind[c] = "component" /\ kind[o] # "component"
      /\ PageOf(o) = None /\ parent[o] = None /\ gc' = gc \ {<<o, w>>}
      /\ prims' = [prims EXCEPT ![c] = @ \cup {o}] /\ parent' = [parent EXCEPT ![o] = c]
      /\ UNCHANGED <<kind, line, page, objects, attached_to, attribs, selection, held,
                     removed, merging, moved, merged>>
  BY DEF ComplexAppend, MayPlace, Keep, shape, links, calls, past
<1>2. IF page[c] # None
      THEN /\ connectible' = [connectible EXCEPT ![page[c]] = @ \cup Conducting({o})]
           /\ conn' = With(conn, Joined(o, page[c])')
      ELSE connectible' = connectible /\ conn' = conn
  BY DEF ComplexAppend
<1>3. /\ c # None /\ c # o /\ page[o] = None /\ parent[c] = None /\ o \in Live
      /\ None \notin Objects /\ page[c] \in Pages \cup {None}
      /\ prims[o] = {} /\ \A x \in Objects : parent[x] # o
  <2>1. c # None /\ None \notin Objects
    BY ObjectsAssumption
  <2>2. parent[c] = None /\ prims[o] = {} /\ \A x \in Objects : parent[x] # o
    BY <1>1 DEF Inv, LinksAgree, TreesAgree
  <2>3. o \in Live /\ page[c] \in Pages \cup {None} /\ c # o
    BY <1>1, HeldAreLive DEF Inv, TypeOK
  <2> QED BY <1>1, <2>1, <2>2, <2>3 DEF PageOf
<1>4. Live' = Live
  BY <1>1 DEF Live
<1>5. ASSUME NEW x \in Objects
      PROVE  /\ parent'[x] = IF x = o THEN c ELSE parent[x]
             /\ PageOf(x)' = IF x = o THEN page[c] ELSE PageOf(x)
  <2>1. parent'[x] = IF x = o THEN c ELSE parent[x]
    BY <1>1 DEF Inv, TypeOK
  <2> QED BY <1>1, <1>3, <2>1 DEF PageOf
<1>6. ASSUME NEW q \in Pages, NEW x \in Objects
      PROVE  x \in connectible'[q] <=> PageOf(x)' = q /\ kind'[x] \in Conductors
  <2>1. x \in connectible[q] <=> PageOf(x) = q /\ kind[x] \in Conductors
    BY DEF Inv, LinksAgree, ListsAgree
  <2>2. x \in Conducting({o}) <=> x = o /\ kind[x] \in Conductors
    BY DEF Conducting
  <2>3. q # None /\ connectible'[q] = IF q = page[c] THEN connectible[q] \cup Conducting({o})
                                      ELSE connectible[q]
    <3>1. DOMAIN connectible = Pages /\ q # None
      BY ObjectsAssumption DEF Inv, TypeOK
    <3> QED BY <1>2, <1>3, <3>1
  <2> QED BY <1>1, <1>5, <2>1, <2>2, <2>3
<1>7. connectible' \in [Pages -> SUBSET Objects]
  <2>1. Conducting({o}) \subseteq Objects
    BY DEF Conducting
  <2>2. connectible \in [Pages -> SUBSET Objects]
    BY DEF Inv, TypeOK
  <2>3. CASE page[c] = None
    BY <1>2, <2>2, <2>3
  <2>4. CASE page[c] \in Pages
    <3>1. page[c] # None
      BY <2>4, ObjectsAssumption
    <3>2. connectible' = [connectible EXCEPT ![page[c]] = @ \cup Conducting({o})]
      BY <1>2, <3>1
    <3> QED BY <2>1, <2>2, <2>4, <3>2
  <2> QED BY <1>3, <2>3, <2>4
<1>8. TypedConn' /\ ConnectionsAgree' /\ Meeting'
  <2>1. Without(conn, {}) /\ \A x \in Objects : line'[x] \in Int \X Int
    BY <1>1 DEF Without, Inv, TypeOK
  <2>2. \A a \in Objects \ {} : PageOf(a) # None =>
          PageOf(a)' = PageOf(a) /\ kind'[a] = kind[a] /\ parent'[a] = parent[a]
    BY <1>1, <1>5
  <2>3. Holds(conn)
    BY <2>1, <2>2, CutHolds
  <2>4. CASE page[c] = None
    <3>1. conn' = conn /\ DOMAIN conn = Objects
      BY <1>2, <2>4 DEF Inv, TypeOK
    <3> QED BY <2>3, <3>1, CutKeeps
  <2>5. CASE page[c] # None
    <3> PICK p \in Pages : p = page[c]
      BY <1>3, <2>5
    <3>1. conn' = With(conn, Joined(o, p)')
      BY <1>1, <1>2, <2>5 DEF Joined
    <3>2. connectible'[p] \subseteq Objects
      BY <1>7
    <3>3. \A x \in connectible'[p] : x \in Objects /\ kind'[x] \in Conductors /\ PageOf(x)' = p
      BY <1>6, <3>1, <3>2
    <3> QED BY <2>1, <2>3, <3>1, <3>3, JoinKeeps
  <2> QED BY <2>4, <2>5
<1>9. TypeOK'
  <2>1. prims' \in [Objects -> SUBSET Objects] /\ parent' \in [Objects -> Objects \cup {None}]
    BY <1>1 DEF Inv, TypeOK
  <2>2. gc' \subseteq held'
    BY <1>1 DEF Inv, TypeOK
  <2> QED BY <1>1, <1>7, <1>8, <2>1, <2>2 DEF Inv, TypeOK, TypedConn
<1>10. FreeIsForgotten'
  <2>1. \A a \in Objects : conn'[a] = {} \/ PageOf(a)' # None
    BY <1>8 DEF ConnectionsAgree, PageOf
  <2>2. \A x \in Objects \ Live : x # o /\ x # c /\ PageOf(x) = None
    BY <1>1, <1>3, Places, HeldAreLive
  <2>3. \A x \in Objects \ Live : /\ PageOf(x)' = None /\ parent'[x] = parent[x]
                                 /\ prims'[x] = prims[x]
    BY <1>1, <1>5, <2>2 DEF Inv, TypeOK
  <2> QED BY <1>1, <1>4, <2>1, <2>3 DEF Inv, LinksAgree, FreeIsForgotten
<1>11. TreesAgree'
  <2>1. ASSUME NEW d \in Objects, NEW x \in Objects
        PROVE  x \in prims'[d] <=> parent'[x] = d
    <3>1. x \in prims[d] <=> parent[x] = d
      BY DEF Inv, LinksAgree, TreesAgree
    <3>2. d # None /\ prims'[d] = IF d = c THEN prims[d] \cup {o} ELSE prims[d]
      BY <1>1, ObjectsAssumption DEF Inv, TypeOK
    <3> QED BY <1>1, <1>5, <3>1, <3>2
  <2>2. \A d \in Objects : /\ prims'[d] \subseteq Objects
                          /\ prims'[d] # {} => d = c \/ prims[d] # {}
    BY <1>1 DEF Inv, TypeOK
  <2>3. \A x \in Objects : parent'[x] # None => page[x] = None /\ kind[x] # "component"
    BY <1>1, <1>3, <1>5 DEF Inv, LinksAgree, TreesAgree
  <2> QED BY <1>1, <2>1, <2>2, <2>3 DEF Inv, LinksAgree, TreesAgree
<1>12. ListsAgree'
  BY <1>1, <1>4, <1>6 DEF Inv, LinksAgree, ListsAgree, PageOf
<1>13. AttributesStay' /\ Placed' /\ Tagged'
  <2>1. Tagged'
    BY <1>1 DEF Inv, Tagged
  <2> SUFFICES ASSUME NEW t \in Objects, NEW a \in Objects, attached_to'[t] = a,
                      {a, t} \cap removed' = {}
      PROVE  /\ parent'[t] = parent'[a] /\ PageOf(t)' = PageOf(a)'
             /\ parent'[t] # None \/ PageOf(t)' # None
    BY <1>9, <2>1, ObjectsAssumption DEF TypeOK, AttributesStay, Placed, PageOf
  <2>2. attached_to[t] = a /\ a # None /\ {a, t} \cap removed = {}
    BY <1>1, ObjectsAssumption
  <2>3. /\ parent[t] = parent[a] /\ PageOf(t) = PageOf(a)
        /\ parent[t] # None \/ PageOf(t) # None
    BY <2>2 DEF Inv, LinksAgree, AttributesStay, Placed
  <2>4. t # o /\ a # o
    BY <1>1, <2>3
  <2> QED BY <1>5, <2>3, <2>4
<1>14. Loose'
  <2>1. \A x \in removed : x \in Objects /\ x # o
    BY <1>1 DEF Inv, TypeOK
  <2> QED BY <1>1, <1>5, <2>1 DEF Inv, Loose
<1>15. Owned'
  <2>1. \A x \in Live : x \in Objects
    BY DEF Live
  <2>2. InC(o)'
    BY <1>1, <1>3, <1>5 DEF InC
  <2>3. o \in Live => Unowned(o)'
    BY <1>1 DEF Inv, Owned, Unowned, OwnedBy
  <2>4. \A x \in Live \ {o} :
          /\ InC(x)' <=> InC(x)
          /\ \A v \in Wrappers : <<x, v>> \in gc' <=> <<x, v>> \in gc
    BY <1>1, <1>5, <2>1 DEF InC
  <2> QED BY <1>4, <2>2, <2>3, <2>4 DEF Inv, Owned, Unowned, OwnedBy
<1> QED BY <1>8, <1>9, <1>10, <1>11, <1>12, <1>13, <1>14, <1>15 DEF Inv, LinksAgree

LEMMA SetLineStep ==
  ASSUME Inv, NEW o \in Objects, NEW l \in Lines, SetLine(o, l)
  PROVE  Inv'
<1> DEFINE S == {o}
<1>1. /\ line' = [line EXCEPT ![o] = l] /\ l \in Int \X Int /\ kind[o] \in Conductors
      /\ moved' = moved \ {o} /\ merged' = merged \ {o}
      /\ UNCHANGED <<kind, page, parent, prims, objects, attached_to, attribs, selection,
                     held, gc, removed, merging>>
  BY ObjectsAssumption DEF SetLine, Looked, place, links, wraps, calls
<1>2. IF PageOf(o) # None
      THEN /\ connectible' = [connectible EXCEPT ![PageOf(o)] = @ \cup {o}]
           /\ conn' = With(Disconnected(S), Joined(o, PageOf(o))')
      ELSE connectible' = connectible /\ conn' = Disconnected(S)
  BY DEF SetLine
<1>3. connectible' = connectible
  <2>1. connectible \in [Pages -> SUBSET Objects] /\ PageOf(o) \in Pages \cup {None}
    BY Places DEF Inv, TypeOK
  <2>2. PageOf(o) # None => o \in connectible[PageOf(o)]
    BY <1>1, <2>1 DEF Inv, LinksAgree, ListsAgree
  <2> QED BY <1>2, <2>1, <2>2
<1>4. \A x \in Objects : PageOf(x)' = PageOf(x)
  BY <1>1 DEF PageOf
<1>5. Live' = Live /\ \A x \in Objects : InC(x)' = InC(x)
  BY <1>1 DEF Live, InC
<1>6. TypedConn' /\ ConnectionsAgree' /\ Meeting'
  <2>1. Without(Disconnected(S), S) /\ DOMAIN Disconnected(S) = Objects
    BY DisconnectedIs
  <2>2. Holds(Disconnected(S))
    BY <1>1, <1>4, <2>1, CutHolds
  <2> HIDE DEF S
  <2>3. CASE PageOf(o) = None
    BY <1>2, <2>1, <2>2, <2>3, CutKeeps
  <2>4. CASE PageOf(o) # None
    <3> PICK p \in Pages : p = PageOf(o)
      BY <2>4, Places
    <3>1. conn' = With(Disconnected(S), Joined(o, p)')
      <4>1. PageOf(o)' = p
        BY <1>4
      <4> QED BY <1>2, <2>4, <4>1 DEF Joined
    <3>2. \A x \in Objects : line'[x] \in Int \X Int
      BY <1>1 DEF Inv, TypeOK
    <3>3. \A x \in connectible'[p] : x \in Objects /\ kind'[x] \in Conductors /\ PageOf(x)' = p
      BY <1>1, <1>3, <1>4 DEF Inv, TypeOK, LinksAgree, ListsAgree
    <3> QED BY <2>2, <3>1, <3>2, <3>3, JoinKeeps
  <2> QED BY <2>3, <2>4
<1>7. TypeOK'
  <2>1. DOMAIN line' = Objects /\ \A x \in Objects : line'[x] \in Int \X Int
    BY <1>1 DEF Inv, TypeOK
  <2>2. moved' \subseteq Objects /\ merged' \subseteq Objects
    BY <1>1 DEF Inv, TypeOK
  <2> QED BY <1>1, <1>3, <1>6, <2>1, <2>2 DEF Inv, TypeOK, TypedConn
<1>8. FreeIsForgotten'
  <2>1. \A a \in Objects : conn'[a] = {} \/ PageOf(a)' # None
    BY <1>6 DEF ConnectionsAgree, PageOf
  <2>2. \A x \in Objects \ Live : PageOf(x)' = None
    BY <1>4, Places
  <2> QED BY <1>1, <1>5, <2>1, <2>2 DEF Inv, LinksAgree, FreeIsForgotten
<1>9. TreesAgree' /\ ListsAgree'
  BY <1>1, <1>3, <1>4, <1>5 DEF Inv, LinksAgree, TreesAgree, ListsAgree, PageOf
<1>10. AttributesStay' /\ Placed' /\ Tagged' /\ Loose'
  BY <1>1 DEF Inv, TypeOK, LinksAgree, AttributesStay, Placed, Tagged, Loose, PageOf
<1>11. Owned'
  <2>1. Live \subseteq Objects
    BY DEF Live
  <2> QED BY <1>1, <1>5, <2>1 DEF Inv, Owned, Unowned, OwnedBy
<1> QED BY <1>6, <1>7, <1>8, <1>9, <1>10, <1>11 DEF Inv, LinksAgree

-----------------------------------------------------------------------------
(* One net takes over another one's place.                                 *)

LEMMA MergeStep ==
  ASSUME Inv, NEW p \in Pages, NEW o \in Objects, NEW x \in Objects, Merge(p, o, x)
  PROVE  Inv'
<1> DEFINE S == {x}
<1>1. /\ o \in objects[p] /\ kind[o] = "net" /\ x \in Mergeable(o)
      /\ kind' = [kind EXCEPT ![x] = "free"]
      /\ line' = [line EXCEPT ![o] = Hull(line[o], line[x]), ![x] = NoLine]
      /\ attached_to' = [t \in Objects |-> IF t \in attribs[x] THEN o ELSE attached_to[t]]
      /\ attribs' = [attribs EXCEPT ![o] = @ \cup attribs[x], ![x] = {}]
      /\ page' = [page EXCEPT ![x] = None]
      /\ objects' = [objects EXCEPT ![p] = @ \ S]
      /\ connectible' = [connectible EXCEPT ![p] = @ \ S]
      /\ UNCHANGED <<parent, prims, removed, merging>>
      /\ conn' = With(Disconnected(S), Joined(o, p)')
      /\ selection' = [selection EXCEPT ![p] = IF x \in @ THEN (@ \ S) \cup {o} ELSE @]
      /\ held' = {h \in held : h[1] # x} /\ gc' = {h \in gc : h[1] # x}
      /\ moved' = moved \ S /\ merged' = (merged \ S) \cup {o}
  BY DEF Merge, calls
\* Both nets are on the page itself.
<1>2. /\ p # None /\ None \notin Objects
      /\ page[o] = p /\ parent[o] = None /\ o \in Live
      /\ kind[x] = "net" /\ parent[x] = None /\ page[x] = p /\ x # o /\ x \in Live
      /\ prims[x] = {} /\ prims[o] = {} /\ attached_to[x] = None /\ attached_to[o] = None
      /\ x \notin removed /\ o \notin removed
  <2>1. p # None /\ None \notin Objects
    BY ObjectsAssumption
  <2>2. page[o] = p /\ parent[o] = None
    BY <1>1, <2>1 DEF Inv, LinksAgree, TreesAgree
  <2>3. PICK c \in conn[o] : c.other = x /\ kind[x] = "net"
    BY <1>1 DEF Mergeable
  <2>4. MayMeet(o, x) /\ PageOf(x) = PageOf(o) /\ x # o
    BY <2>3 DEF Inv, TypeOK, Meeting, LinksAgree, ConnectionsAgree
  <2>5. parent[x] = None /\ page[x] = p
    BY <2>2, <2>3, <2>4 DEF MayMeet, IsPin, PageOf
  <2>6. attached_to[x] = None /\ attached_to[o] = None
    BY <1>1, <2>3 DEF Inv, Tagged
  <2>7. prims[x] = {} /\ prims[o] = {}
    BY <1>1, <2>3 DEF Inv, LinksAgree, TreesAgree
  <2>8. x \notin removed /\ o \notin removed
    BY <2>1, <2>2, <2>5 DEF Inv, Loose
  <2>9. x \in Live /\ o \in Live
    BY <1>1, <2>3 DEF Live
  <2> QED BY <2>1, <2>2, <2>3, <2>4, <2>5, <2>6, <2>7, <2>8, <2>9
<1>3. /\ Live' = Live \ S
      /\ \A y \in Objects : kind'[y] = IF y = x THEN "free" ELSE kind[y]
  <2>1. \A y \in Objects : kind'[y] = IF y = x THEN "free" ELSE kind[y]
    BY <1>1 DEF Inv, TypeOK
  <2> QED BY <2>1 DEF Live
<1>4. \A y \in Objects : parent[y] # x
  BY <1>2 DEF Inv, LinksAgree, TreesAgree
<1>5. ASSUME NEW y \in Objects
      PROVE  /\ page'[y] = IF y = x THEN None ELSE page[y]
             /\ PageOf(y)' = IF y = x THEN None ELSE PageOf(y)
  <2>1. page'[y] = IF y = x THEN None ELSE page[y]
    BY <1>1 DEF Inv, TypeOK
  <2>2. parent[y] # None => parent[y] \in Objects /\ page'[parent[y]] = page[parent[y]]
    BY <1>1, <1>4 DEF Inv, TypeOK
  <2> QED BY <1>1, <1>2, <2>1, <2>2 DEF PageOf
<1>6. ASSUME NEW q \in Pages, NEW y \in Objects
      PROVE  y \in connectible'[q] <=> PageOf(y)' = q /\ kind'[y] \in Conductors
  <2>1. y \in connectible[q] <=> PageOf(y) = q /\ kind[y] \in Conductors
    BY DEF Inv, LinksAgree, ListsAgree
  <2>2. q # None /\ connectible'[q] = IF q = p THEN connectible[q] \ S ELSE connectible[q]
    BY <1>1, ObjectsAssumption DEF Inv, TypeOK
  <2>3. PageOf(x) = p
    BY <1>2 DEF PageOf
  <2> QED BY <1>3, <1>5, <2>1, <2>2, <2>3
<1>7. DOMAIN line' = Objects /\ \A y \in Objects : line'[y] \in Int \X Int
  <2>1. line[o] \in Int \X Int /\ line[x] \in Int \X Int
    BY DEF Inv, TypeOK
  <2>2. PICK i, j, k, m \in Int : line[o] = <<i, j>> /\ line[x] = <<k, m>>
    BY <2>1
  <2> DEFINE E == {i, j, k, m}
             low == CHOOSE a \in E : \A b \in E : a <= b
             high == CHOOSE a \in E : \A b \in E : a >= b
  <2>3. (\E a \in E : \A b \in E : a <= b) /\ (\E a \in E : \A b \in E : a >= b)
    OBVIOUS
  <2>4. Hull(line[o], line[x]) = <<low, high>>
    BY <2>2 DEF Hull
  <2>5. E \subseteq Int
    OBVIOUS
  <2> HIDE DEF E
  <2>6. low \in E /\ high \in E
    BY <2>3, Zenon
  <2> HIDE DEF low, high
  <2>7. Hull(line[o], line[x]) \in Int \X Int
    BY <2>4, <2>5, <2>6
  <2>8. \A y \in Objects : line'[y] = IF y = x THEN NoLine
                                    ELSE IF y = o THEN Hull(line[o], line[x]) ELSE line[y]
    BY <1>1, <1>2 DEF Inv, TypeOK
  <2>9. DOMAIN line' = Objects /\ \A y \in Objects : line[y] \in Int \X Int
    BY <1>1 DEF Inv, TypeOK
  <2> QED BY <2>7, <2>8, <2>9 DEF NoLine
<1>8. TypedConn' /\ ConnectionsAgree' /\ Meeting'
  <2>1. Without(Disconnected(S), S) /\ DOMAIN Disconnected(S) = Objects
    BY DisconnectedIs
  <2>2. \A a \in Objects \ S : PageOf(a) # None =>
          PageOf(a)' = PageOf(a) /\ kind'[a] = kind[a] /\ parent'[a] = parent[a]
    BY <1>1, <1>3, <1>5
  <2> HIDE DEF S
  <2>3. Holds(Disconnected(S))
    BY <2>1, <2>2, CutHolds
  <2>4. connectible'[p] \subseteq Objects
    BY <1>1 DEF Inv, TypeOK
  <2>5. \A y \in connectible'[p] : y \in Objects /\ kind'[y] \in Conductors /\ PageOf(y)' = p
    BY <1>6, <2>4
  <2> QED BY <1>1, <1>7, <2>3, <2>5, JoinKeeps
<1>9. TypeOK'
  <2>1. /\ kind' \in [Objects -> Kinds \cup {"free"}]
        /\ page' \in [Objects -> Pages \cup {None}]
        /\ attached_to' \in [Objects -> Objects \cup {None}]
        /\ attribs' \in [Objects -> SUBSET Objects]
    BY <1>1 DEF Inv, TypeOK
  <2>2. /\ objects' \in [Pages -> SUBSET Objects] /\ connectible' \in [Pages -> SUBSET Objects]
        /\ selection' \in [Pages -> SUBSET Objects]
    BY <1>1 DEF Inv, TypeOK
  <2>3. /\ held' \subseteq Objects \X Wrappers /\ gc' \subseteq held'
        /\ moved' \subseteq Objects /\ merged' \subseteq Objects
    BY <1>1 DEF Inv, TypeOK
  <2> QED BY <1>1, <1>7, <1>8, <2>1, <2>2, <2>3 DEF Inv, TypeOK, TypedConn
<1>10. \A t \in Objects : attached_to'[t] = IF attached_to[t] = x THEN o ELSE attached_to[t]
  BY <1>1 DEF Inv, LinksAgree, TreesAgree
<1>11. \A c \in Objects : attribs'[c] = IF c = x THEN {}
                                      ELSE IF c = o THEN attribs[o] \cup attribs[x]
                                      ELSE attribs[c]
  BY <1>1, <1>2 DEF Inv, TypeOK
<1>12. FreeIsForgotten'
  <2>1. \A a \in Objects : conn'[a] = {} \/ PageOf(a)' # None
    BY <1>8 DEF ConnectionsAgree, PageOf
  <2>2. \A y \in Objects \ Live : PageOf(y) = None
    BY Places
  <2>3. ASSUME NEW y \in Objects \ Live'
        PROVE  /\ prims'[y] = {} /\ attribs'[y] = {} /\ conn'[y] = {}
               /\ parent'[y] = None /\ page'[y] = None /\ attached_to'[y] = None
    <3>1. CASE y = x
      BY <1>1, <1>2, <1>5, <1>10, <1>11, <2>1, <3>1
    <3>2. CASE y # x
      <4>1. y \notin Live /\ y # o
        BY <1>2, <1>3, <3>2
      <4>2. /\ prims[y] = {} /\ attribs[y] = {} /\ parent[y] = None /\ page[y] = None
            /\ attached_to[y] = None
        BY <4>1 DEF Inv, LinksAgree, FreeIsForgotten
      <4> QED BY <1>1, <1>2, <1>5, <1>10, <1>11, <2>1, <2>2, <3>2, <4>1, <4>2
    <3> QED BY <3>1, <3>2
  <2> QED BY <2>3 DEF FreeIsForgotten
<1>13. TreesAgree'
  <2>1. ASSUME NEW q \in Pages, NEW y \in Objects
        PROVE  y \in objects'[q] <=> page'[y] = q
    <3>1. y \in objects[q] <=> page[y] = q
      BY DEF Inv, LinksAgree, TreesAgree
    <3>2. q # None /\ objects'[q] = IF q = p THEN objects[q] \ S ELSE objects[q]
      BY <1>1, ObjectsAssumption DEF Inv, TypeOK
    <3> QED BY <1>2, <1>5, <3>1, <3>2
  <2>2. ASSUME NEW c \in Objects, NEW t \in Objects
        PROVE  t \in attribs'[c] <=> attached_to'[t] = c
    <3>1. /\ t \in attribs[c] <=> attached_to[t] = c
          /\ t \in attribs[x] <=> attached_to[t] = x
          /\ t \in attribs[o] <=> attached_to[t] = o
      BY DEF Inv, LinksAgree, TreesAgree
    <3> QED BY <1>2, <1>10, <1>11, <3>1
  <2>3. \A c \in Objects : prims[c] # {} => kind'[c] = "component"
    BY <1>2, <1>3 DEF Inv, LinksAgree, TreesAgree
  <2>4. \A y \in Objects : parent[y] # None => page'[y] = None /\ kind'[y] # "component"
    BY <1>3, <1>5 DEF Inv, LinksAgree, TreesAgree
  <2>5. /\ \A q \in Pages : objects'[q] \subseteq Objects
        /\ \A c \in Objects : attribs'[c] \subseteq Objects
    BY <1>9 DEF TypeOK
  <2>6. \A c \in Objects : prims[c] = {y \in Objects : parent[y] = c}
    BY DEF Inv, LinksAgree, TreesAgree
  <2>7. /\ \A q \in Pages : objects'[q] = {y \in Objects : page'[y] = q}
        /\ \A c \in Objects : attribs'[c] = {t \in Objects : attached_to'[t] = c}
    BY <2>1, <2>2, <2>5
  <2> QED BY <1>1, <2>3, <2>4, <2>6, <2>7 DEF TreesAgree
<1>14. ListsAgree'
  <2>1. ASSUME NEW q \in Pages PROVE selection'[q] \subseteq objects'[q]
    <3>1. selection[q] \subseteq objects[q]
      BY DEF Inv, LinksAgree, ListsAgree
    <3>2. objects'[q] = IF q = p THEN objects[q] \ S ELSE objects[q]
      BY <1>1 DEF Inv, TypeOK
    <3>3. selection'[q] = IF q = p /\ x \in selection[q] THEN (selection[q] \ S) \cup {o}
                          ELSE selection[q]
      BY <1>1 DEF Inv, TypeOK
    <3>4. CASE q = p
      BY <1>1, <1>2, <3>1, <3>2, <3>3, <3>4
    <3>5. CASE q # p
      BY <3>1, <3>2, <3>3, <3>5
    <3> QED BY <3>4, <3>5
  <2>2. removed' \cup {h[1] : h \in held'} \subseteq Live'
    <3>1. removed \cup {h[1] : h \in held} \subseteq Live
      BY DEF Inv, LinksAgree, ListsAgree
    <3> QED BY <1>1, <1>2, <1>3, <3>1
  <2> QED BY <1>6, <2>1, <2>2 DEF ListsAgree, PageOf
<1>15. AttributesStay' /\ Placed' /\ Tagged' /\ Loose'
  <2>1. Tagged'
    BY <1>2, <1>3, <1>10 DEF Inv, Tagged
  <2>2. Loose'
    BY <1>1, <1>5 DEF Inv, Loose, TypeOK
  <2> SUFFICES ASSUME NEW t \in Objects, NEW a \in Objects, attached_to'[t] = a,
                      {a, t} \cap removed' = {}
      PROVE  /\ parent'[t] = parent'[a] /\ PageOf(t)' = PageOf(a)'
             /\ parent'[t] # None \/ PageOf(t)' # None
    BY <1>9, <2>1, <2>2, ObjectsAssumption DEF TypeOK, AttributesStay, Placed, PageOf
  <2> DEFINE b == attached_to[t]
  <2>3. b \in Objects /\ b # None /\ a # x /\ t # x /\ b \notin removed /\ t \notin removed
    BY <1>1, <1>2, <1>10 DEF Inv, TypeOK
  <2>4. /\ parent[t] = parent[b] /\ PageOf(t) = PageOf(b)
        /\ parent[t] # None \/ PageOf(t) # None
    BY <2>3 DEF Inv, LinksAgree, AttributesStay, Placed
  <2>5. parent[b] = parent[a] /\ PageOf(b) = PageOf(a)
    <3>1. CASE b = x
      BY <1>2, <1>10, <3>1 DEF PageOf
    <3>2. CASE b # x
      BY <1>10, <3>2
    <3> QED BY <3>1, <3>2
  <2> QED BY <1>1, <1>5, <2>3, <2>4, <2>5
<1>16. Owned'
  <2> SUFFICES ASSUME NEW y \in Live \ S
               PROVE  IF InC(y)' THEN Unowned(y)' ELSE \E w \in Wrappers : OwnedBy(y, w)'
    BY <1>3 DEF Owned
  <2>1. y \in Objects /\ IF InC(y) THEN Unowned(y) ELSE \E w \in Wrappers : OwnedBy(y, w)
    BY DEF Inv, Owned, Live
  <2>2. \A w \in Wrappers : <<y, w>> \in gc' <=> <<y, w>> \in gc
    BY <1>1
  <2>3. InC(y)' <=> InC(y)
    BY <1>1, <1>5, <2>1 DEF InC
  <2> QED BY <2>1, <2>2, <2>3 DEF Unowned, OwnedBy
<1> QED BY <1>8, <1>9, <1>12, <1>13, <1>14, <1>15, <1>16 DEF Inv, LinksAgree

-----------------------------------------------------------------------------

LEMMA NextInv == ASSUME Inv, [Next]_vars, [OwnersHandOver]_vars PROVE Inv'
<1>1. CASE Contents /\ OwnersHandOver
  <2>1. PICK o \in Objects, w \in Wrappers :
          \/ Wrap(o, w) \/ Collect(o, w)
          \/ \E k \in Kinds, l \in Lines \cup {NoLine} : Make(o, k, l, w)
          \/ \E p \in Pages : PageAppend(p, o, w) \/ PageRemove(p, o, w)
          \/ \E c \in Objects : ComplexAppend(c, o, w) \/ ComplexRemove(c, o, w)
    BY <1>1 DEF Contents
  <2>2. CASE Wrap(o, w)
    BY <2>2, WrapStep
  <2>3. CASE Collect(o, w)
    BY <2>3, ReleaseStep, FreeStep
  <2>4. CASE \E k \in Kinds, l \in Lines \cup {NoLine} : Make(o, k, l, w)
    BY <2>4, MakeStep
  <2>5. CASE \E p \in Pages : PageAppend(p, o, w) \/ PageRemove(p, o, w)
    BY <1>1, <2>5, PageAppendStep, PageRemoveStep DEF OwnersHandOver
  <2>6. CASE \E c \in Objects : ComplexAppend(c, o, w) \/ ComplexRemove(c, o, w)
    BY <1>1, <2>6, ComplexAppendStep, ComplexRemoveStep DEF OwnersHandOver
  <2> QED BY <2>1, <2>2, <2>3, <2>4, <2>5, <2>6
<1>2. CASE Change
  <2>1. PICK o \in Objects :
          \/ \E t \in Objects : AttachAttrib(o, t) \/ DetachAttrib(o, t)
          \/ \E l \in Lines : SetLine(o, l)
          \/ \E d \in {-1, 1} : Translate(o, d)
          \/ SelectObject(o) \/ DeselectObject(o)
    BY <1>2 DEF Change
  <2>2. CASE \E t \in Objects : AttachAttrib(o, t) \/ DetachAttrib(o, t)
    BY <2>2, AttachStep, DetachStep
  <2>3. CASE \E l \in Lines : SetLine(o, l)
    BY <2>3, SetLineStep
  <2>4. CASE \E d \in {-1, 1} : Translate(o, d)
    BY <2>4, TranslateStep
  <2>5. CASE SelectObject(o) \/ DeselectObject(o)
    BY <2>5, SelectStep
  <2> QED BY <2>1, <2>2, <2>3, <2>4, <2>5
<1>3. CASE Gschem
  <2>1. CASE DeleteRemoved
    BY <2>1, DeleteRemovedStep
  <2>2. ASSUME NEW p \in Pages,
               \/ ClosePage(p) \/ StartConsolidate(p) \/ FinishConsolidate(p)
               \/ \E S \in SUBSET selection[p] : DeleteSelected(p, S)
               \/ \E o, x \in Objects : Merge(p, o, x)
        PROVE  Inv'
    BY <2>2, ClosePageStep, ConsolidateSteps, DeleteSelectedStep, MergeStep
  <2> QED BY <1>3, <2>1, <2>2 DEF Gschem
<1>4. CASE UNCHANGED vars
  <2>1. /\ Stay
        /\ UNCHANGED <<line, attached_to, attribs, selection, held, gc, merging, moved, merged>>
    BY <1>4 DEF vars, Stay
  <2> QED BY <2>1, HeldAreLive, QuietStep DEF Inv, TypeOK, LinksAgree, ListsAgree
<1> QED BY <1>1, <1>2, <1>3, <1>4 DEF Next

Disciplined == Spec /\ [][OwnersHandOver]_vars

\* With one wrapper for each object, every program is such a program.
LEMMA OneWrapperHandsOver ==
  ASSUME Inv, NEW u, Wrappers = {u} PROVE OwnersHandOver
<1> SUFFICES ASSUME NEW o \in Objects, NEW w \in Wrappers,
                    \/ \E p \in Pages : PageAppend(p, o, w)
                    \/ \E c \in Objects : ComplexAppend(c, o, w)
             PROVE  <<o, w>> \in gc
  BY DEF OwnersHandOver
<1>1. <<o, w>> \in held /\ o \notin removed /\ PageOf(o) = None /\ parent[o] = None
  BY DEF PageAppend, ComplexAppend, MayPlace
<1>2. o \in Live /\ ~InC(o)
  BY <1>1, HeldAreLive DEF InC, PageOf
<1>3. PICK v \in Wrappers : OwnedBy(o, v)
  BY <1>2 DEF Inv, Owned
<1> QED BY <1>3 DEF OwnedBy

LEMMA OneWrapperSuffices ==
  ASSUME NEW u, Wrappers = {u} PROVE Spec => Disciplined
<1>1. Inv => OwnersHandOver
  BY OneWrapperHandsOver
<1>2. Inv /\ [Next]_vars => Inv'
  BY <1>1, NextInv
<1> QED BY <1>1, <1>2, InitInv, PTL DEF Spec, Disciplined

LEMMA SpecInv == Disciplined => []Inv
<1> QED BY InitInv, NextInv, PTL DEF Spec, Disciplined

\* Every variable keeps its type (the lists and fields of o_types.h).
THEOREM ObjectsTypeCorrect == Disciplined => []TypeOK
<1>1. Inv => TypeOK
  BY DEF Inv
<1> QED BY <1>1, SpecInv, PTL

\* The pointers of objects, pages, selections and wrappers agree, and none
\* leads to an object that was freed (s_delete_object, s_basic.c:186).
THEOREM LinksKeepAgreeing == Disciplined => []LinksAgree
<1>1. Inv => LinksAgree
  BY DEF Inv
<1> QED BY <1>1, SpecInv, PTL

\* With any number of wrappers for each object, exactly one of them frees it,
\* or the C code, if programs put it on pages and into components through the
\* one that would free it (edascm_c_set_gc acts on the wrapper it is given).
THEOREM NoneFreedTwice == Disciplined => []OwnedOnce
<1>1. ASSUME Inv PROVE OwnedOnce
  <2> SUFFICES ASSUME NEW o \in Live
      PROVE  LET owners == {w \in Wrappers : <<o, w>> \in gc} IN
             IF InC(o) THEN owners = {} ELSE \E w \in Wrappers : owners = {w}
    BY DEF OwnedOnce
  <2>1. CASE InC(o)
    BY <1>1, <2>1 DEF Inv, Owned, Unowned
  <2>2. CASE ~InC(o)
    <3>1. PICK w \in Wrappers : OwnedBy(o, w)
      BY <1>1, <2>2 DEF Inv, Owned
    <3>2. {v \in Wrappers : <<o, v>> \in gc} = {w}
      BY <3>1 DEF OwnedBy
    <3> QED BY <2>2, <3>2
  <2> QED BY <2>1, <2>2
<1> QED BY <1>1, SpecInv, PTL

-----------------------------------------------------------------------------
(* Connections and touching.                                               *)

Known(a, b) == \E c \in conn[a] : c.other = b
Right(a, b) == /\ Joints(a, b) # {} => Known(a, b)
               /\ Known(a, b) => Joints(a, b) # {} \/ {a, b} \cap merged # {}

LEMMA TouchesAre ==
  /\ ConnectionsAreTouches <=>
       \A p \in Pages : \A a, b \in connectible[p] \ moved : a # b => Right(a, b)
  /\ ConnectionsAreTouches' <=>
       \A p \in Pages : \A a, b \in connectible'[p] \ moved' : a # b => Right(a, b)'
BY DEF ConnectionsAreTouches, Right, Known

\* Nothing that geometry depends on has changed for a.
Same(a) == kind'[a] = kind[a] /\ line'[a] = line[a] /\ parent'[a] = parent[a]

LEMMA SameJoints ==
  ASSUME NEW a, NEW b, Same(a), Same(b) PROVE Joints(a, b)' = Joints(a, b)
BY DEF Same, Joints, MayMeet, EndPoints, MidPoints, Tips, InMiddle, Compatible, IsPin, IsBus

\* The objects S have gone, and nobody looked for connections.
LEMMA TouchCut ==
  ASSUME Inv, ConnectionsAreTouches, NEW S, Without(conn', S),
         \A q \in Pages : connectible'[q] \subseteq connectible[q] \ S,
         \A q \in Pages : \A a \in connectible'[q] \ moved' : Same(a),
         \A q \in Pages : \A a \in connectible'[q] :
            (a \in moved => a \in moved') /\ (a \in merged => a \in merged')
  PROVE  ConnectionsAreTouches'
<1> SUFFICES ASSUME NEW q \in Pages, NEW a \in connectible'[q] \ moved',
                    NEW b \in connectible'[q] \ moved', a # b
    PROVE  Right(a, b)'
  BY TouchesAre
<1>1. /\ a \in connectible[q] \ moved /\ b \in connectible[q] \ moved /\ a \notin S /\ b \notin S
      /\ a \in Objects
  BY DEF Inv, TypeOK
<1>2. Joints(a, b)' = Joints(a, b)
  BY SameJoints
<1>3. Right(a, b)
  BY <1>1, TouchesAre
<1>4. Known(a, b)' <=> Known(a, b)
  <2>1. conn'[a] = {c \in conn[a] : c.other \notin S}
    BY <1>1 DEF Without
  <2> QED BY <1>1, <2>1 DEF Known
<1> QED BY <1>1, <1>2, <1>3, <1>4 DEF Right

LEMMA JoinedTouch ==
  ASSUME NEW p, NEW o, NEW a \in Objects, NEW b, NEW c \in Joined(o, p)'[a], c.other = b,
         \A x \in connectible'[p] : x \in Objects,
         \A x \in Objects : line'[x] \in Int \X Int
  PROVE  Joints(a, b)' # {}
<1>1. PICK d \in connectible'[p] \ {a} : c \in Joints(a, d)'
  BY DEF Joined
<1>2. d \in Objects /\ line'[a] \in Int \X Int /\ line'[d] \in Int \X Int
  OBVIOUS
<1>3. /\ c = [other |-> d, type |-> c.type, x |-> c.x] /\ c.other = d
      /\ c.type \in {"endpoint", "midpoint"} /\ c.x \in Int /\ MayMeet(a, d)'
      /\ [other |-> a, type |-> c.type, x |-> c.x] \in Joints(d, a)'
  BY <1>1, <1>2, JointsAre
<1> QED BY <1>1, <1>3

LEMMA TouchingJoined ==
  ASSUME NEW p, NEW o, NEW a \in Objects, NEW b \in Objects, Joints(a, b)' # {}, a # b,
         a \in connectible'[p], b \in connectible'[p], a \in Group(o)' \/ b \in Group(o)',
         \A x \in Objects : line'[x] \in Int \X Int
  PROVE  \E c \in Joined(o, p)'[a] : c.other = b
<1>1. PICK c : c \in Joints(a, b)'
  OBVIOUS
<1>2. line'[a] \in Int \X Int /\ line'[b] \in Int \X Int
  OBVIOUS
<1>3. /\ c = [other |-> b, type |-> c.type, x |-> c.x] /\ c.other = b
      /\ c.type \in {"endpoint", "midpoint"} /\ c.x \in Int /\ MayMeet(a, b)'
      /\ [other |-> a, type |-> c.type, x |-> c.x] \in Joints(b, a)'
  BY <1>1, <1>2, JointsAre
<1>4. c \in Joined(o, p)'[a]
  BY <1>1 DEF Joined
<1> QED BY <1>3, <1>4

\* On the lists are those of before without S, and T, which are of o's group on p.
Arrived(p, o, S, T) ==
  /\ \A q \in Pages : \A a \in connectible'[q] :
       /\ a \in Objects
       /\ a \in T => q = p /\ a \in Group(o)'
       /\ a \notin T => a \in connectible[q] \ S /\ Same(a)
  /\ \A a \in T : a \in S \/ a \in merged' \/ PageOf(a) = None
  /\ moved \subseteq moved' \cup S \cup T /\ merged \subseteq merged' \cup S \cup T
  /\ \A x \in Objects : line'[x] \in Int \X Int

\* The objects T have come or changed, and were looked for.
LEMMA TouchJoin ==
  ASSUME Inv, ConnectionsAreTouches, NEW K, NEW S, NEW T, Without(K, S),
         NEW p \in Pages, NEW o \in Objects, conn' = With(K, Joined(o, p)'), Arrived(p, o, S, T)
  PROVE  ConnectionsAreTouches'
<1> SUFFICES ASSUME NEW q \in Pages, NEW a \in connectible'[q] \ moved',
                    NEW b \in connectible'[q] \ moved', a # b
    PROVE  Right(a, b)'
  BY TouchesAre
<1> DEFINE J == Joined(o, p)'
<1>1. a \in Objects /\ b \in Objects /\ conn'[a] = K[a] \cup J[a]
  BY DEF With, Arrived
<1>2. /\ \A x \in connectible'[p] : x \in Objects
      /\ \A x \in Objects : line'[x] \in Int \X Int
  BY DEF Arrived
<1>3. ASSUME NEW c \in J[a], c.other = b PROVE Joints(a, b)' # {}
  BY <1>1, <1>3, <1>2, JoinedTouch
<1>4. ASSUME a \in T \/ b \in T, Joints(a, b)' # {} PROVE \E c \in J[a] : c.other = b
  <2>1. q = p /\ (a \in Group(o)' \/ b \in Group(o)')
    BY <1>4 DEF Arrived
  <2> QED BY <1>1, <1>4, <1>2, <2>1, TouchingJoined
<1> HIDE DEF J
<1>5. K[a] = IF a \in S THEN {} ELSE {c \in conn[a] : c.other \notin S}
  BY <1>1 DEF Without
<1>6. CASE a \in T \/ b \in T
  <2>1. Joints(a, b)' # {} => Known(a, b)'
    BY <1>1, <1>4, <1>6 DEF Known
  <2>2. ASSUME NEW c \in K[a], c.other = b PROVE {a, b} \cap merged' # {}
    <3>1. c \in conn[a] /\ a \notin S /\ b \notin S
      BY <1>5, <2>2
    <3>2. PageOf(a) # None /\ PageOf(b) # None
      BY <1>1, <2>2, <3>1 DEF Inv, LinksAgree, ConnectionsAgree
    <3> QED BY <1>6, <3>1, <3>2 DEF Arrived
  <2>3. Known(a, b)' => Joints(a, b)' # {} \/ {a, b} \cap merged' # {}
    BY <1>1, <1>3, <2>2 DEF Known
  <2> QED BY <2>1, <2>3 DEF Right
<1>7. CASE a \notin T /\ b \notin T
  <2>1. /\ a \in connectible[q] \ moved /\ b \in connectible[q] \ moved
        /\ a \notin S /\ b \notin S /\ Same(a) /\ Same(b)
    BY <1>7 DEF Arrived
  <2>2. Joints(a, b)' = Joints(a, b)
    BY <2>1, SameJoints
  <2>3. Right(a, b)
    BY <2>1, TouchesAre
  <2>4. Known(a, b) => Known(a, b)'
    BY <1>1, <1>5, <2>1 DEF Known
  <2>5. Known(a, b)' => Known(a, b) \/ Joints(a, b)' # {}
    BY <1>1, <1>3, <1>5, <2>1 DEF Known
  <2>6. {a, b} \cap merged # {} => {a, b} \cap merged' # {}
    BY <1>7, <2>1 DEF Arrived
  <2> QED BY <2>2, <2>3, <2>4, <2>5, <2>6 DEF Right
<1> QED BY <1>6, <1>7

\* Where an object is follows from the lists.
LEMMA OnPage ==
  ASSUME Inv', NEW q \in Pages, NEW a \in connectible'[q]
  PROVE  a \in Objects /\ PageOf(a)' = q /\ kind'[a] \in Conductors
<1>1. connectible'[q] \subseteq Objects
  BY DEF Inv, TypeOK
<1>2. a \in Objects => (PageOf(a)' = q /\ kind'[a] \in Conductors)
  BY DEF Inv, LinksAgree, ListsAgree, PageOf
<1> QED BY <1>1, <1>2

\* What neither goes nor is moved.
LEMMA TouchStay ==
  ASSUME Inv, ConnectionsAreTouches, UNCHANGED <<connectible, conn>>,
         \A q \in Pages : \A a \in connectible[q] \ moved' : Same(a),
         moved \subseteq moved', merged' = merged
  PROVE  ConnectionsAreTouches'
<1>1. Without(conn', {})
  BY DEF Without
<1> QED BY <1>1, TouchCut

LEMMA TouchTranslate ==
  ASSUME Inv, ConnectionsAreTouches, NEW o \in Objects, NEW d \in {-1, 1}, Translate(o, d)
  PROVE  ConnectionsAreTouches'
<1> DEFINE M == Conducting(Group(o))
<1>1. /\ line' = [x \in Objects |->
           IF x \in M THEN <<line[x][1] + d, line[x][2] + d>> ELSE line[x]]
      /\ moved' = IF PageOf(o) = None THEN moved ELSE moved \cup M
      /\ UNCHANGED <<kind, parent, connectible, conn, merged>>
  BY DEF Translate, place
<1>2. ASSUME NEW q \in Pages, NEW a \in connectible[q] \ moved' PROVE Same(a)
  <2>1. a \in Objects /\ PageOf(a) = q /\ q # None
    BY ObjectsAssumption DEF Inv, TypeOK, LinksAgree, ListsAgree
  <2>2. CASE a \notin M
    BY <1>1, <2>1, <2>2 DEF Same
  <2>3. CASE a \in M
    <3>1. a = o \/ (parent[a] = o /\ PageOf(a) = page[o])
      BY <2>1, <2>3, ObjectsAssumption DEF Conducting, Group, Inv, LinksAgree, TreesAgree, PageOf
    <3>2. PageOf(o) # None
      BY <2>1, <3>1, ObjectsAssumption DEF Inv, LinksAgree, TreesAgree, PageOf
    <3> QED BY <1>1, <2>3, <3>2
  <2> QED BY <2>2, <2>3
<1> HIDE DEF M
<1> QED BY <1>1, <1>2, TouchStay

LEMMA TouchMake ==
  ASSUME Inv, ConnectionsAreTouches, NEW o \in Objects, NEW k \in Kinds,
         NEW l \in Lines \cup {NoLine}, NEW w \in Wrappers, Make(o, k, l, w)
  PROVE  ConnectionsAreTouches'
<1>1. /\ kind' = [kind EXCEPT ![o] = k] /\ line' = [line EXCEPT ![o] = l] /\ kind[o] = "free"
      /\ UNCHANGED <<parent, connectible, conn, moved, merged>>
  BY DEF Make, place, past
<1>2. ASSUME NEW q \in Pages, NEW a \in connectible[q] \ moved' PROVE Same(a)
  <2>1. a \in Objects /\ kind[a] \in Conductors
    BY DEF Inv, TypeOK, LinksAgree, ListsAgree
  <2>2. a # o
    BY <1>1, <2>1, Places
  <2> QED BY <1>1, <2>1, <2>2 DEF Same, Inv, TypeOK
<1> QED BY <1>1, <1>2, TouchStay

LEMMA TouchRemove ==
  ASSUME Inv, ConnectionsAreTouches, NEW p \in Pages, NEW S \in SUBSET objects[p],
         RemoveFrom(p, S), UNCHANGED <<kind, line, parent>>
  PROVE  ConnectionsAreTouches'
<1> DEFINE G == Groups(S)
<1>1. /\ connectible' = [connectible EXCEPT ![p] = @ \ G] /\ conn' = Disconnected(G)
      /\ moved' = moved \ G /\ merged' = merged \ G
  BY DEF RemoveFrom, Groups, Looked
<1>2. S \in SUBSET Objects /\ p # None /\ \A x \in S : page[x] = p /\ parent[x] = None
  BY ObjectsAssumption DEF Inv, TypeOK, LinksAgree, TreesAgree
<1>3. G \in SUBSET Objects /\ \A x \in G : PageOf(x) = p
  <2>1. G \subseteq Objects /\ \A x \in Objects : x \in G <=> x \in S \/ parent[x] \in S
    BY <1>2, GroupsAre
  <2> QED BY <1>2, <2>1, ObjectsAssumption DEF PageOf
<1> HIDE DEF G
<1>4. Without(conn', G)
  BY <1>1, <1>3, DisconnectedIs
<1>5. ASSUME NEW q \in Pages PROVE connectible'[q] \subseteq connectible[q] \ G
  <2>1. \A x \in connectible[q] : PageOf(x) = q
    BY DEF Inv, TypeOK, LinksAgree, ListsAgree
  <2>2. connectible'[q] = IF q = p THEN connectible[q] \ G ELSE connectible[q]
    BY <1>1 DEF Inv, TypeOK
  <2> QED BY <1>3, <2>1, <2>2
<1>6. \A q \in Pages : \A a \in connectible'[q] \ moved' : Same(a)
  BY DEF Same
<1> QED BY <1>1, <1>4, <1>5, <1>6, TouchCut

LEMMA TouchComplexRemove ==
  ASSUME Inv, ConnectionsAreTouches, NEW c \in Objects, NEW o \in Objects, NEW w \in Wrappers,
         ComplexRemove(c, o, w)
  PROVE  ConnectionsAreTouches'
<1> DEFINE S == Conducting({o})
<1>1. /\ connectible' = IF page[c] = None THEN connectible
                        ELSE [connectible EXCEPT ![page[c]] = @ \ {o}]
      /\ parent' = [parent EXCEPT ![o] = None] /\ parent[o] = c
      /\ conn' = Disconnected(S) /\ moved' = moved \ {o} /\ merged' = merged \ {o}
      /\ UNCHANGED <<kind, line>>
  BY DEF ComplexRemove, Looked, shape
<1>2. S \in SUBSET Objects /\ \A x : x \in S <=> x = o /\ kind[x] \in Conductors
  BY DEF Conducting
<1> HIDE DEF S
<1>3. Without(conn', S)
  BY <1>1, <1>2, DisconnectedIs
<1>4. ASSUME NEW q \in Pages
      PROVE  /\ o \notin connectible'[q]
             /\ connectible'[q] \subseteq connectible[q] /\ connectible'[q] \subseteq Objects
  <2>1. \A x \in connectible[q] : x \in Objects /\ PageOf(x) = q
    BY DEF Inv, TypeOK, LinksAgree, ListsAgree
  <2>2. PageOf(o) = page[c] /\ q # None /\ page[c] \in Pages \cup {None}
    BY <1>1, ObjectsAssumption DEF PageOf, Inv, TypeOK
  <2>3. connectible'[q] = IF q = page[c] THEN connectible[q] \ {o} ELSE connectible[q]
    BY <1>1, <2>2 DEF Inv, TypeOK
  <2> QED BY <2>1, <2>2, <2>3
<1>5. \A q \in Pages : connectible'[q] \subseteq connectible[q] \ S
  BY <1>2, <1>4
<1>6. \A q \in Pages : \A a \in connectible'[q] \ moved' : Same(a)
  BY <1>1, <1>4 DEF Same, Inv, TypeOK
<1>7. \A q \in Pages : \A a \in connectible'[q] :
        (a \in moved => a \in moved') /\ (a \in merged => a \in merged')
  BY <1>1, <1>4
<1> QED BY <1>3, <1>5, <1>6, <1>7, TouchCut

LEMMA TouchDelete ==
  ASSUME Inv, Inv', ConnectionsAreTouches, NEW S \in SUBSET Live, Delete(S)
  PROVE  ConnectionsAreTouches'
<1> DEFINE F == Groups(S)
<1>1. /\ kind' = [o \in Objects |-> IF o \in F THEN "free" ELSE kind[o]]
      /\ line' = [o \in Objects |-> IF o \in F THEN NoLine ELSE line[o]]
      /\ parent' = [o \in Objects |-> IF o \in F THEN None ELSE parent[o]]
      /\ connectible' = [p \in Pages |-> connectible[p] \ Groups({o \in S : page[o] = p})]
      /\ conn' = Disconnected(F)
      /\ moved' = moved \ F /\ merged' = merged \ F
  BY DEF Delete, Groups, Looked
<1>2. S \in SUBSET Objects
  BY DEF Live
<1>3. F \in SUBSET Objects
  BY <1>2, GroupsAre
<1> HIDE DEF F
<1>4. Without(conn', F)
  BY <1>1, <1>3, DisconnectedIs
<1>5. ASSUME NEW q \in Pages, NEW a \in connectible'[q]
      PROVE  a \in connectible[q] /\ a \in Objects /\ a \notin F
  <2>1. a \in connectible[q]
    BY <1>1
  <2>2. a \in Objects /\ kind'[a] \in Conductors
    BY OnPage
  <2>3. a \in F => kind'[a] = "free"
    BY <1>1, <2>2
  <2>4. "free" \notin Conductors
    BY Places
  <2> QED BY <2>1, <2>2, <2>3, <2>4
<1>6. \A q \in Pages : \A a \in connectible'[q] : Same(a)
  BY <1>1, <1>5 DEF Same
<1> QED BY <1>1, <1>4, <1>5, <1>6, TouchCut

LEMMA TouchPageAppend ==
  ASSUME Inv, Inv', ConnectionsAreTouches, NEW p \in Pages, NEW o \in Objects,
         NEW w \in Wrappers, PageAppend(p, o, w)
  PROVE  ConnectionsAreTouches'
<1> DEFINE G == Group(o)
<1>1. /\ connectible' = [connectible EXCEPT ![p] = @ \cup Conducting(G)]
      /\ conn' = With(conn, Joined(o, p)')
      /\ moved' = moved \ G /\ merged' = merged \ G /\ page' = [page EXCEPT ![o] = p]
      /\ PageOf(o) = None /\ parent[o] = None
      /\ UNCHANGED <<kind, line, parent, prims>>
  BY DEF PageAppend, AppendTo, Looked, shape
<1>2. \A x \in Objects : x \in G <=> x = o \/ parent[x] = o
  BY DEF Group, Inv, LinksAgree, TreesAgree
<1>3. \A x \in Objects : x \in G => PageOf(x) = None /\ PageOf(x)' = p /\ x \in Group(o)'
  <2>1. o # None /\ page[o] = None /\ page'[o] = p
    BY <1>1, ObjectsAssumption DEF PageOf, Inv, TypeOK
  <2>2. G = Group(o)'
    BY <1>1 DEF Group
  <2> QED BY <1>1, <1>2, <2>1, <2>2 DEF PageOf
<1>4. G \subseteq Objects
  BY DEF Group, Inv, TypeOK
<1> HIDE DEF G
<1>5. ASSUME NEW q \in Pages, NEW a \in connectible'[q]
      PROVE  /\ a \in Objects
             /\ a \in G => q = p /\ a \in Group(o)'
             /\ a \notin G => a \in connectible[q] \ {} /\ Same(a)
  <2>1. a \in Objects /\ PageOf(a)' = q
    BY OnPage
  <2>2. a \notin G => a \in connectible[q]
    BY <1>1 DEF Conducting, Inv, TypeOK
  <2> QED BY <1>1, <1>3, <2>1, <2>2 DEF Same
<1>6. Without(conn, {}) /\ \A x \in Objects : line'[x] \in Int \X Int
  BY DEF Without, Inv, TypeOK
<1>7. /\ \A a \in G : a \in {} \/ a \in merged' \/ PageOf(a) = None
      /\ moved \subseteq moved' \cup {} \cup G /\ merged \subseteq merged' \cup {} \cup G
  BY <1>1, <1>3, <1>4
<1>8. Arrived(p, o, {}, G)
  BY <1>5, <1>6, <1>7 DEF Arrived
<1> QED BY <1>1, <1>6, <1>8, TouchJoin

LEMMA TouchComplexAppend ==
  ASSUME Inv, Inv', ConnectionsAreTouches, NEW c \in Objects, NEW o \in Objects,
         NEW w \in Wrappers, ComplexAppend(c, o, w)
  PROVE  ConnectionsAreTouches'
<1> DEFINE T == {o}
<1>1. /\ IF page[c] # None
         THEN /\ connectible' = [connectible EXCEPT ![page[c]] = @ \cup Conducting(T)]
              /\ conn' = With(conn, Joined(o, page[c])')
         ELSE UNCHANGED <<connectible, conn>>
      /\ parent' = [parent EXCEPT ![o] = c] /\ PageOf(o) = None /\ kind[c] = "component"
      /\ UNCHANGED <<kind, line, page, moved, merged>>
  BY DEF ComplexAppend, shape, past
<1>2. /\ o \in Group(o)' /\ c # None /\ parent[c] = None /\ page[c] \in Pages \cup {None}
      /\ \A q \in Pages : o \notin connectible[q]
  BY <1>1, ObjectsAssumption DEF Group, Inv, TypeOK, LinksAgree, TreesAgree, ListsAgree
<1>3. \A a \in Objects \ T : Same(a)
  BY <1>1 DEF Same, Inv, TypeOK
<1>4. PageOf(o)' = page[c]
  BY <1>1, <1>2 DEF PageOf, Inv, TypeOK
<1>5. CASE page[c] = None
  <2>1. \A q \in Pages : \A a \in connectible[q] \ moved' : Same(a)
    BY <1>2, <1>3 DEF Inv, TypeOK
  <2> QED BY <1>1, <1>5, <2>1, TouchStay
<1>6. CASE page[c] # None
  <2> PICK p \in Pages : p = page[c]
    BY <1>2, <1>6
  <2>1. conn' = With(conn, Joined(o, p)')
    BY <1>1, <1>6 DEF Joined
  <2>2. ASSUME NEW q \in Pages, NEW a \in connectible'[q]
        PROVE  /\ a \in Objects
               /\ a \in T => q = p /\ a \in Group(o)'
               /\ a \notin T => a \in connectible[q] \ {} /\ Same(a)
    <3>1. a \in Objects /\ PageOf(a)' = q
      BY OnPage
    <3>2. connectible' = [connectible EXCEPT ![p] = @ \cup Conducting(T)]
      BY <1>1, <1>6
    <3>3. a \notin T => a \in connectible[q]
      BY <3>2 DEF Conducting, Inv, TypeOK
    <3> QED BY <1>2, <1>3, <1>4, <3>1, <3>3
  <2>3. Without(conn, {}) /\ \A x \in Objects : line'[x] \in Int \X Int
    BY <1>1 DEF Without, Inv, TypeOK
  <2>4. /\ \A a \in T : a \in {} \/ a \in merged' \/ PageOf(a) = None
        /\ moved \subseteq moved' \cup {} \cup T /\ merged \subseteq merged' \cup {} \cup T
    BY <1>1
  <2> HIDE DEF T
  <2>5. Arrived(p, o, {}, T)
    BY <2>2, <2>3, <2>4 DEF Arrived
  <2> QED BY <2>1, <2>3, <2>5, TouchJoin
<1> QED BY <1>5, <1>6

LEMMA TouchSetLine ==
  ASSUME Inv, Inv', ConnectionsAreTouches, NEW o \in Objects, NEW l \in Lines, SetLine(o, l)
  PROVE  ConnectionsAreTouches'
<1> DEFINE S == {o}
<1>1. /\ IF PageOf(o) # None
         THEN /\ connectible' = [connectible EXCEPT ![PageOf(o)] = @ \cup S]
              /\ conn' = With(Disconnected(S), Joined(o, PageOf(o))')
         ELSE connectible' = connectible /\ conn' = Disconnected(S)
      /\ line' = [line EXCEPT ![o] = l]
      /\ moved' = moved \ S /\ merged' = merged \ S
      /\ UNCHANGED <<kind, page, parent>>
  BY DEF SetLine, Looked, place
<1>2. \A a \in Objects \ S : Same(a)
  BY <1>1 DEF Same, Inv, TypeOK
<1>3. PageOf(o)' = PageOf(o) /\ PageOf(o) \in Pages \cup {None} /\ o \in Group(o)'
  BY <1>1, Places DEF PageOf, Group
<1>4. Without(Disconnected(S), S)
  BY DisconnectedIs
<1>5. CASE PageOf(o) = None
  <2>1. \A q \in Pages : o \notin connectible[q]
    BY <1>5, ObjectsAssumption DEF Inv, LinksAgree, ListsAgree
  <2>2. Without(conn', S)
    BY <1>1, <1>4, <1>5
  <2>3. \A q \in Pages : connectible'[q] \subseteq connectible[q] \ S
    BY <1>1, <1>5, <2>1
  <2>4. \A q \in Pages : \A a \in connectible'[q] : a \in Objects \ S
    BY <2>3 DEF Inv, TypeOK
  <2>5. /\ \A q \in Pages : \A a \in connectible'[q] \ moved' : Same(a)
        /\ \A q \in Pages : \A a \in connectible'[q] :
              (a \in moved => a \in moved') /\ (a \in merged => a \in merged')
    BY <1>1, <1>2, <2>4
  <2> HIDE DEF S
  <2> QED BY <2>2, <2>3, <2>5, TouchCut
<1>6. CASE PageOf(o) # None
  <2> PICK p \in Pages : p = PageOf(o)
    BY <1>3, <1>6
  <2>1. conn' = With(Disconnected(S), Joined(o, p)')
    BY <1>1, <1>3, <1>6 DEF Joined
  <2>2. ASSUME NEW q \in Pages, NEW a \in connectible'[q]
        PROVE  /\ a \in Objects
               /\ a \in S => q = p /\ a \in Group(o)'
               /\ a \notin S => a \in connectible[q] \ S /\ Same(a)
    <3>1. a \in Objects /\ PageOf(a)' = q
      BY OnPage
    <3>2. connectible' = [connectible EXCEPT ![p] = @ \cup S]
      BY <1>1, <1>6
    <3>3. a \notin S => a \in connectible[q]
      BY <3>2 DEF Inv, TypeOK
    <3> QED BY <1>2, <1>3, <3>1, <3>3
  <2>3. \A x \in Objects : line'[x] \in Int \X Int
    BY DEF Inv, TypeOK
  <2>4. /\ \A a \in S : a \in S \/ a \in merged' \/ PageOf(a) = None
        /\ moved \subseteq moved' \cup S \cup S /\ merged \subseteq merged' \cup S \cup S
    BY <1>1
  <2> HIDE DEF S
  <2>5. Arrived(p, o, S, S)
    BY <2>2, <2>3, <2>4 DEF Arrived
  <2> QED BY <1>4, <2>1, <2>5, TouchJoin
<1> QED BY <1>5, <1>6

LEMMA TouchMerge ==
  ASSUME Inv, Inv', ConnectionsAreTouches, NEW p \in Pages, NEW o \in Objects,
         NEW x \in Objects, Merge(p, o, x)
  PROVE  ConnectionsAreTouches'
<1> DEFINE S == {x}
           T == {o}
<1>1. /\ o \in objects[p] /\ x \in Mergeable(o)
      /\ kind' = [kind EXCEPT ![x] = "free"]
      /\ line' = [line EXCEPT ![o] = Hull(line[o], line[x]), ![x] = NoLine]
      /\ page' = [page EXCEPT ![x] = None] /\ parent' = parent
      /\ connectible' = [connectible EXCEPT ![p] = @ \ S]
      /\ conn' = With(Disconnected(S), Joined(o, p)')
      /\ moved' = moved \ S /\ merged' = (merged \ S) \cup {o}
  BY DEF Merge
<1>2. x # o /\ p # None /\ page[o] = p /\ parent[o] = None /\ o \in Group(o)'
  BY <1>1, ObjectsAssumption DEF Mergeable, Inv, TypeOK, LinksAgree, TreesAgree, Group
<1>3. \A a \in Objects \ {x, o} : Same(a)
  BY <1>1 DEF Same, Inv, TypeOK
<1>4. PageOf(o)' = p
  BY <1>1, <1>2 DEF PageOf, Inv, TypeOK
<1>5. Without(Disconnected(S), S)
  BY DisconnectedIs
<1>6. ASSUME NEW q \in Pages, NEW a \in connectible'[q]
      PROVE  /\ a \in Objects
             /\ a \in T => q = p /\ a \in Group(o)'
             /\ a \notin T => a \in connectible[q] \ S /\ Same(a)
  <2>1. a \in Objects /\ PageOf(a)' = q /\ kind'[a] \in Conductors
    BY OnPage
  <2>2. a \in connectible[q]
    BY <1>1 DEF Inv, TypeOK
  <2>3. a # x
    BY <1>1, <2>1, Places DEF Inv, TypeOK
  <2> QED BY <1>2, <1>3, <1>4, <2>1, <2>2, <2>3
<1>7. \A y \in Objects : line'[y] \in Int \X Int
  BY DEF Inv, TypeOK
<1>8. /\ \A a \in T : a \in S \/ a \in merged' \/ PageOf(a) = None
      /\ moved \subseteq moved' \cup S \cup T /\ merged \subseteq merged' \cup S \cup T
  BY <1>1
<1> HIDE DEF S, T
<1>9. Arrived(p, o, S, T)
  BY <1>6, <1>7, <1>8 DEF Arrived
<1> QED BY <1>1, <1>5, <1>9, TouchJoin

LEMMA TouchOthers ==
  ASSUME Inv, ConnectionsAreTouches,
         UNCHANGED <<kind, line, parent, connectible, conn, moved, merged>>
  PROVE  ConnectionsAreTouches'
<1>1. \A q \in Pages : \A a \in connectible[q] \ moved' : Same(a)
  BY DEF Same
<1> QED BY <1>1, TouchStay

LEMMA TouchNext ==
  ASSUME Inv, Inv', ConnectionsAreTouches, [Next]_vars PROVE ConnectionsAreTouches'
<1>1. CASE Contents
  <2>1. PICK o \in Objects, w \in Wrappers :
          \/ Wrap(o, w) \/ Collect(o, w)
          \/ \E k \in Kinds, l \in Lines \cup {NoLine} : Make(o, k, l, w)
          \/ \E p \in Pages : PageAppend(p, o, w) \/ PageRemove(p, o, w)
          \/ \E c \in Objects : ComplexAppend(c, o, w) \/ ComplexRemove(c, o, w)
    BY <1>1 DEF Contents
  <2>2. CASE Wrap(o, w)
    BY <2>2, TouchOthers DEF Wrap, shape, place, past
  <2>3. CASE Collect(o, w)
    <3>1. CASE <<o, w>> \in gc
      <4>1. {o} \in SUBSET Live /\ Delete({o})
        BY <2>3, <3>1, HeldAreLive DEF Collect
      <4> QED BY <4>1, TouchDelete
    <3>2. CASE <<o, w>> \notin gc
      BY <2>3, <3>2, TouchOthers DEF Collect, shape, place, past
    <3> QED BY <3>1, <3>2
  <2>4. CASE \E k \in Kinds, l \in Lines \cup {NoLine} : Make(o, k, l, w)
    BY <2>4, TouchMake
  <2>5. ASSUME NEW p \in Pages, PageAppend(p, o, w) PROVE ConnectionsAreTouches'
    BY <2>5, TouchPageAppend
  <2>6. ASSUME NEW p \in Pages, PageRemove(p, o, w) PROVE ConnectionsAreTouches'
    <3> DEFINE S == {o}
    <3>1. RemoveFrom(p, S) /\ UNCHANGED <<kind, line, parent>> /\ page[o] = p
      BY <2>6 DEF PageRemove, shape
    <3>2. S \in SUBSET objects[p]
      BY <3>1 DEF Inv, LinksAgree, TreesAgree
    <3> HIDE DEF S
    <3> QED BY <3>1, <3>2, TouchRemove
  <2>7. CASE \E c \in Objects : ComplexAppend(c, o, w) \/ ComplexRemove(c, o, w)
    BY <2>7, TouchComplexAppend, TouchComplexRemove
  <2> QED BY <2>1, <2>2, <2>3, <2>4, <2>5, <2>6, <2>7
<1>2. CASE Change
  <2>1. PICK o \in Objects :
          \/ \E t \in Objects : AttachAttrib(o, t) \/ DetachAttrib(o, t)
          \/ \E l \in Lines : SetLine(o, l)
          \/ \E d \in {-1, 1} : Translate(o, d)
          \/ SelectObject(o) \/ DeselectObject(o)
    BY <1>2 DEF Change
  <2>2. CASE \E t \in Objects : AttachAttrib(o, t) \/ DetachAttrib(o, t)
    BY <2>2, TouchOthers DEF AttachAttrib, DetachAttrib, shape, place, past
  <2>3. CASE \E l \in Lines : SetLine(o, l)
    BY <2>3, TouchSetLine
  <2>4. CASE \E d \in {-1, 1} : Translate(o, d)
    BY <2>4, TouchTranslate
  <2>5. CASE SelectObject(o) \/ DeselectObject(o)
    BY <2>5, TouchOthers DEF SelectObject, DeselectObject, shape, place, past
  <2> QED BY <2>1, <2>2, <2>3, <2>4, <2>5
<1>3. CASE Gschem
  <2>1. CASE DeleteRemoved
    <3>1. removed \in SUBSET Live /\ Delete(removed)
      BY <2>1 DEF DeleteRemoved, Inv, LinksAgree, ListsAgree
    <3> QED BY <3>1, TouchDelete
  <2>2. ASSUME NEW p \in Pages, ClosePage(p) PROVE ConnectionsAreTouches'
    <3>1. \A x \in objects[p] : x \in Objects /\ page[x] = p
      BY DEF Inv, TypeOK, LinksAgree, TreesAgree
    <3>2. objects[p] \in SUBSET Live /\ Delete(objects[p])
      BY <2>2, <3>1, ObjectsAssumption DEF ClosePage, Inv, LinksAgree, FreeIsForgotten
    <3> QED BY <3>2, TouchDelete
  <2>3. ASSUME NEW p \in Pages, StartConsolidate(p) \/ FinishConsolidate(p)
        PROVE  ConnectionsAreTouches'
    BY <2>3, TouchOthers DEF StartConsolidate, FinishConsolidate, shape, place, past
  <2>4. ASSUME NEW p \in Pages, NEW S \in SUBSET selection[p], DeleteSelected(p, S)
        PROVE  ConnectionsAreTouches'
    <3>1. S \in SUBSET objects[p]
      BY DEF Inv, LinksAgree, ListsAgree
    <3> QED BY <2>4, <3>1, TouchRemove DEF DeleteSelected, shape
  <2>5. ASSUME NEW p \in Pages, NEW o \in Objects, NEW x \in Objects, Merge(p, o, x)
        PROVE  ConnectionsAreTouches'
    BY <2>5, TouchMerge
  <2> QED BY <1>3, <2>1, <2>2, <2>3, <2>4, <2>5 DEF Gschem
<1>4. CASE UNCHANGED vars
  BY <1>4, TouchOthers DEF vars
<1> QED BY <1>1, <1>2, <1>3, <1>4 DEF Next

\* Connections are kept right by s_conn.c without looking at every pair of
\* objects again, but for objects moved by calls that do not look and nets
\* that were merged (s_conn_update_object, s_conn_remove_object).
THEOREM ConnectionsStayRight == Disciplined => []ConnectionsAreTouches
<1>1. Init => ConnectionsAreTouches
  BY DEF Init, ConnectionsAreTouches
<1>2. ASSUME Inv, ConnectionsAreTouches, [Next]_vars, [OwnersHandOver]_vars
      PROVE ConnectionsAreTouches'
  BY <1>2, NextInv, TouchNext
<1> QED BY <1>1, <1>2, SpecInv, PTL DEF Spec, Disciplined
=============================================================================
