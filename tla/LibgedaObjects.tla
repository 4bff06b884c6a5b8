--------------------------- MODULE LibgedaObjects ---------------------------
(* The objects of libgeda: nets, buses, pins, texts and components on       *)
(* pages, the connections and attributes between them, and the wrappers     *)
(* through which Scheme programs hold them (scheme_*.c over s_page.c,       *)
(* s_conn.c, o_attrib.c, s_basic.c), with gschem's deletion and libgeda's   *)
(* consolidation of nets.                                                   *)
(*                                                                          *)
(* Pointers are kept in both directions, as in the code, and an address is  *)
(* used again after its object was freed: a pointer that was forgotten      *)
(* leads to a free address or to an object that knows nothing of it.        *)
(* Geometry is reduced to one line of the grid.                             *)
EXTENDS Integers, FiniteSets

CONSTANTS Objects,    \* addresses of objects
          Pages,
          Wrappers,   \* the smobs that exist for an object at a time
          Kinds,      \* the types of objects that programs make
          Lines,      \* pairs of coordinates
          None

NoLine == <<0, 0>>
Conductors == {"net", "bus", "pin", "buspin"}

ASSUME ObjectsAssumption ==
  /\ None \notin Objects \cup Pages /\ IsFiniteSet(Wrappers)
  /\ Kinds \subseteq Conductors \cup {"text", "component"}
  /\ Lines \subseteq Int \X Int

VARIABLES kind, line, page, parent, attached_to,   \* of each object
          prims, attribs, conn,                    \* of each object, sets
          objects, connectible, selection,         \* of each page, sets
          held, gc,    \* the wrappers in use, and those that free their object
          removed,     \* the objects gschem is about to delete
          merging,     \* the page whose nets are being consolidated
          moved,       \* history: moved without looking for connections
          merged       \* history: nets that took over another one's place

place == <<page, parent, prims, objects>>
links == <<attached_to, attribs>>
shape == <<kind, line>>
wraps == <<held, gc>>
calls == <<removed, merging>>
past == <<moved, merged>>
vars == <<kind, line, page, parent, attached_to, prims, attribs, conn, objects,
          connectible, selection, held, gc, removed, merging, moved, merged>>

Live == {o \in Objects : kind[o] # "free"}
IsPin(o) == kind[o] \in {"pin", "buspin"}
IsBus(o) == kind[o] \in {"bus", "buspin"}
Group(o) == {o} \cup prims[o]

\* complex-append! takes no components, so that symbols are not nested.
PageOf(o) == IF parent[o] # None THEN page[parent[o]] ELSE page[o]

Init ==
  /\ kind = [o \in Objects |-> "free"] /\ line = [o \in Objects |-> NoLine]
  /\ page = [o \in Objects |-> None] /\ parent = [o \in Objects |-> None]
  /\ attached_to = [o \in Objects |-> None]
  /\ prims = [o \in Objects |-> {}] /\ attribs = [o \in Objects |-> {}]
  /\ conn = [o \in Objects |-> {}]
  /\ objects = [p \in Pages |-> {}] /\ connectible = [p \in Pages |-> {}]
  /\ selection = [p \in Pages |-> {}]
  /\ held = {} /\ gc = {} /\ removed = {} /\ merging = None
  /\ moved = {} /\ merged = {}

-----------------------------------------------------------------------------
(* Connections.  Pins connect at one end only, and nothing connects to the  *)
(* middle of a pin.                                                         *)

Tips(o) == IF IsPin(o) THEN {line[o][1]} ELSE {line[o][1], line[o][2]}
InMiddle(x, o) == \/ line[o][1] < x /\ x < line[o][2]
                  \/ line[o][2] < x /\ x < line[o][1]
Compatible(a, b) == IsBus(a) <=> IsBus(b)

\* Inside different symbols, or inside and outside, only pins of symbols connect.
MayMeet(a, b) ==
  \/ parent[a] = parent[b]
  \/ (parent[a] # None => IsPin(a)) /\ (parent[b] # None => IsPin(b))

EndPoints(a, b) == IF Compatible(a, b) THEN Tips(a) \cap Tips(b) ELSE {}
MidPoints(a, b) ==
  {x \in Tips(a) : /\ InMiddle(x, b) /\ ~IsPin(b)
                   /\ (kind[a] = "net" /\ kind[b] = "bus") \/ Compatible(a, b)}

\* What s_conn_update_line_object adds to a about b.
Joints(a, b) ==
  IF ~MayMeet(a, b) THEN {}
  ELSE [other : {b}, type : {"endpoint"}, x : EndPoints(a, b)] \cup
       [other : {b}, type : {"midpoint"}, x : MidPoints(a, b) \cup MidPoints(b, a)]

Conducting(S) == {o \in S : kind[o] \in Conductors}

\* As if an object was compared with itself, too.
JoinedItself(o, p) ==
  [a \in Objects |->
     IF a \in connectible[p]
     THEN UNION {Joints(a, b) : b \in {b \in connectible[p] : a \in Group(o) \/ b \in Group(o)}}
     ELSE {}]

(* What s_conn_update_object adds to the connections for o on page p.       *)
Joined(o, p) ==
  [a \in Objects |->
     IF a \in connectible[p]
     THEN UNION {Joints(a, b) : b \in {b \in connectible[p] \ {a} :
                                         a \in Group(o) \/ b \in Group(o)}}
     ELSE {}]
With(cs, new) == [a \in Objects |-> cs[a] \cup new[a]]

\* As if s_conn_remove_other was called only once for each other object.
DisconnectedOnce(S) ==
  [a \in Objects |->
     IF a \in S THEN {}
     ELSE conn[a] \ {CHOOSE c \in conn[a] : c.other = s :
                      s \in {c.other : c \in conn[a]} \cap S}]
(* The connections after those of S were removed on both sides: the other    *)
(* side is found through the own one.                                       *)
Disconnected(S) ==
  [a \in Objects |->
     IF a \in S THEN {}
     ELSE {c \in conn[a] : ~(c.other \in S /\ \E d \in conn[c.other] : d.other = a)}]

-----------------------------------------------------------------------------
(* What the calls are made of.                                              *)

\* The connections of S are looked for from nothing.
Looked(S) == moved' = moved \ S /\ merged' = merged \ S

AppendTo(p, o) ==   \* s_page_append
  /\ objects' = [objects EXCEPT ![p] = @ \cup {o}]
  /\ page' = [page EXCEPT ![o] = p]
  /\ connectible' = [connectible EXCEPT ![p] = @ \cup Conducting(Group(o))]
  /\ conn' = With(conn, Joined(o, p)')
  /\ Looked(Group(o))

RemoveFrom(p, S) ==   \* s_page_remove, for each of S
  LET G == UNION {Group(o) : o \in S} IN
  /\ objects' = [objects EXCEPT ![p] = @ \ S]
  /\ page' = [o \in Objects |-> IF o \in S THEN None ELSE page[o]]
  /\ connectible' = [connectible EXCEPT ![p] = @ \ G]
  /\ conn' = Disconnected(G)
  /\ Looked(G)

(* s_delete_object for each of S.  An object of a symbol is not taken out   *)
(* of the symbol, nor one of a page out of the selection: whoever deletes   *)
(* it alone has to do that.                                                 *)
Delete(S) ==
  LET F == UNION {Group(o) : o \in S} IN
  /\ kind' = [o \in Objects |-> IF o \in F THEN "free" ELSE kind[o]]
  /\ line' = [o \in Objects |-> IF o \in F THEN NoLine ELSE line[o]]
  /\ page' = [o \in Objects |-> IF o \in F THEN None ELSE page[o]]
  /\ parent' = [o \in Objects |-> IF o \in F THEN None ELSE parent[o]]
  /\ prims' = [o \in Objects |-> IF o \in F THEN {} ELSE prims[o]]
  /\ objects' = [p \in Pages |-> objects[p] \ {o \in S : page[o] = p}]
  /\ connectible' = [p \in Pages |->
       connectible[p] \ UNION {Group(o) : o \in {o \in S : page[o] = p}}]
  /\ conn' = Disconnected(F)
  /\ attached_to' = [t \in Objects |->
       IF t \in F \/ \E o \in F : t \in attribs[o] THEN None ELSE attached_to[t]]
  /\ attribs' = [o \in Objects |->
       IF o \in F THEN {} ELSE attribs[o] \ {t \in F : attached_to[t] = o}]
  /\ held' = {h \in held : h[1] \notin F} /\ gc' = {h \in gc : h[1] \notin F}
  /\ Looked(F)

\* edascm_c_set_gc: Guile frees the object along with this wrapper, or no longer.
Free(w, o) == gc' = gc \cup {<<o, w>>}
KeepFreeing(w, o) == gc' = gc   \* as if that was forgotten
Keep(w, o) == gc' = gc \ {<<o, w>>}

Idle == merging = None
\* While gschem deletes, hooks make calls; they keep nothing of what is deleted.
MayPlace(o) == o \notin removed

-----------------------------------------------------------------------------
(* The calls of Scheme programs.                                            *)

(* make-net and its like, which set the line at once.                       *)
Make(o, k, l, w) ==
  /\ Idle /\ kind[o] = "free"
  /\ IF k \in Conductors THEN l \in Lines ELSE l = NoLine
  /\ kind' = [kind EXCEPT ![o] = k] /\ line' = [line EXCEPT ![o] = l]
  /\ held' = held \cup {<<o, w>>} /\ Free(w, o)
  /\ UNCHANGED <<place, links, conn, connectible, selection, calls, past>>

(* page-contents, component-contents, object-component and the others that  *)
(* give another wrapper for an object.                                      *)
Wrap(o, w) ==
  /\ Idle /\ o \in Live /\ <<o, w>> \notin held
  /\ \/ PageOf(o) # None
     \/ \E h \in held : o \in prims[h[1]] \/ h[1] \in prims[o]
     \/ o \in removed
  /\ held' = held \cup {<<o, w>>}
  /\ UNCHANGED <<shape, place, links, conn, connectible, selection, gc, calls, past>>

(* Guile collects a wrapper that the program holds no more.                 *)
Collect(o, w) ==
  /\ Idle /\ <<o, w>> \in held
  /\ IF <<o, w>> \in gc
     THEN Delete({o}) /\ UNCHANGED <<selection, calls>>
     ELSE /\ held' = held \ {<<o, w>>}
          /\ UNCHANGED <<shape, place, links, conn, connectible, selection, gc, calls, past>>

PageAppend(p, o, w) ==
  /\ Idle /\ <<o, w>> \in held /\ MayPlace(o)
  /\ PageOf(o) = None /\ parent[o] = None
  /\ Keep(w, o)
  /\ UNCHANGED <<shape, parent, prims, links, selection, held, calls>>
  /\ AppendTo(p, o)

PageRemove(p, o, w) ==
  /\ Idle /\ <<o, w>> \in held
  /\ page[o] = p /\ parent[o] = None /\ attached_to[o] = None /\ attribs[o] = {}
  /\ RemoveFrom(p, {o})
  /\ selection' = [selection EXCEPT ![p] = @ \ {o}]
  /\ Free(w, o)
  /\ UNCHANGED <<shape, parent, prims, links, held, calls>>

ComplexAppend(c, o, w) ==
  /\ Idle /\ \E v \in Wrappers : <<c, v>> \in held
  /\ <<o, w>> \in held /\ MayPlace(o)
  /\ kind[c] = "component" /\ kind[o] # "component"
  /\ PageOf(o) = None /\ parent[o] = None
  /\ Keep(w, o)
  /\ prims' = [prims EXCEPT ![c] = @ \cup {o}]
  /\ parent' = [parent EXCEPT ![o] = c]
  /\ UNCHANGED <<shape, page, objects, links, selection, held, calls, past>>
  /\ IF page[c] # None
     THEN /\ connectible' = [connectible EXCEPT ![page[c]] = @ \cup Conducting({o})]
          /\ conn' = With(conn, Joined(o, page[c])')
     ELSE UNCHANGED <<connectible, conn>>

ComplexRemove(c, o, w) ==
  /\ Idle /\ \E v \in Wrappers : <<c, v>> \in held
  /\ <<o, w>> \in held /\ kind[c] = "component"
  /\ parent[o] = c /\ attached_to[o] = None /\ attribs[o] = {}
  /\ prims' = [prims EXCEPT ![c] = @ \ {o}]
  /\ parent' = [parent EXCEPT ![o] = None]
  /\ connectible' = IF page[c] = None THEN connectible
                    ELSE [connectible EXCEPT ![page[c]] = @ \ {o}]
  /\ conn' = Disconnected(Conducting({o}))
  /\ Looked({o})
  /\ Free(w, o)
  /\ UNCHANGED <<shape, page, objects, links, selection, held, calls>>

AttachAttrib(o, t) ==
  /\ Idle /\ \E v, w \in Wrappers : {<<o, v>>, <<t, w>>} \subseteq held
  /\ kind[t] = "text"
  /\ parent[o] = parent[t] /\ PageOf(o) = PageOf(t)
  /\ parent[o] # None \/ PageOf(o) # None
  /\ attached_to[o] = None /\ attached_to[t] = None
  /\ attached_to' = [attached_to EXCEPT ![t] = o]
  /\ attribs' = [attribs EXCEPT ![o] = @ \cup {t}]
  /\ UNCHANGED <<shape, place, conn, connectible, selection, wraps, calls, past>>

DetachAttrib(o, t) ==
  /\ Idle /\ \E v, w \in Wrappers : {<<o, v>>, <<t, w>>} \subseteq held
  /\ attached_to[t] = o /\ o # None
  /\ attached_to' = [attached_to EXCEPT ![t] = None]
  /\ attribs' = [attribs EXCEPT ![o] = @ \ {t}]
  /\ UNCHANGED <<shape, place, conn, connectible, selection, wraps, calls, past>>

\* With the connections added, but the old ones left.
SetLineAdding(o, l) ==
  /\ Idle /\ \E w \in Wrappers : <<o, w>> \in held
  /\ kind[o] \in Conductors
  /\ line' = [line EXCEPT ![o] = l]
  /\ UNCHANGED <<kind, place, links, selection, wraps, calls>>
  /\ IF PageOf(o) # None
     THEN /\ connectible' = [connectible EXCEPT ![PageOf(o)] = @ \cup {o}]
          /\ conn' = With(conn, Joined(o, PageOf(o))')
     ELSE UNCHANGED <<conn, connectible>>
  /\ Looked({o})

(* set-line!, set-net! and so on: look at the connections again.            *)
SetLine(o, l) ==
  /\ Idle /\ \E w \in Wrappers : <<o, w>> \in held
  /\ kind[o] \in Conductors
  /\ line' = [line EXCEPT ![o] = l]
  /\ UNCHANGED <<kind, place, links, selection, wraps, calls>>
  /\ IF PageOf(o) # None
     THEN /\ connectible' = [connectible EXCEPT ![PageOf(o)] = @ \cup {o}]
          /\ conn' = With(Disconnected({o}), Joined(o, PageOf(o))')
     ELSE conn' = Disconnected({o}) /\ UNCHANGED connectible
  /\ Looked({o})

(* translate-objects!, set-component!: nobody looks at connections.         *)
Translate(o, d) ==
  LET M == Conducting(Group(o)) IN
  /\ Idle /\ \E w \in Wrappers : <<o, w>> \in held
  /\ M # {} /\ \A x \in M : <<line[x][1] + d, line[x][2] + d>> \in Lines
  /\ line' = [x \in Objects |->
       IF x \in M THEN <<line[x][1] + d, line[x][2] + d>> ELSE line[x]]
  /\ moved' = IF PageOf(o) = None THEN moved ELSE moved \cup M
  /\ UNCHANGED merged
  /\ UNCHANGED <<kind, place, links, conn, connectible, selection, wraps, calls>>

SelectObject(o) ==
  /\ Idle /\ \E w \in Wrappers : <<o, w>> \in held
  /\ page[o] # None /\ parent[o] = None
  /\ selection' = [selection EXCEPT ![page[o]] = @ \cup {o}]
  /\ UNCHANGED <<shape, place, links, conn, connectible, wraps, calls, past>>

DeselectObject(o) ==
  /\ Idle /\ \E w \in Wrappers : <<o, w>> \in held
  /\ page[o] # None /\ parent[o] = None
  /\ selection' = [selection EXCEPT ![page[o]] = @ \ {o}]
  /\ UNCHANGED <<shape, place, links, conn, connectible, wraps, calls, past>>

(* close-page!, or gschem's Close Page.                                     *)
ClosePage(p) ==
  /\ Idle /\ removed = {}
  /\ Delete(objects[p])
  /\ selection' = [selection EXCEPT ![p] = {}]
  /\ UNCHANGED calls

-----------------------------------------------------------------------------
(* gschem's Delete takes the selected objects S (all, or those that are not *)
(* locked) from the page, runs %remove-objects-hook, and deletes them.      *)
DeleteSelected(p, S) ==
  /\ Idle /\ removed = {} /\ S # {}
  /\ selection' = [selection EXCEPT ![p] = @ \ S]
  /\ RemoveFrom(p, S)
  /\ removed' = S
  /\ UNCHANGED <<shape, parent, prims, links, wraps, merging>>

DeleteRemoved ==
  /\ Idle /\ removed # {}
  /\ Delete(removed)
  /\ removed' = {}
  /\ UNCHANGED <<selection, merging>>

-----------------------------------------------------------------------------
(* o_net_consolidate goes through the nets of the page again and again.     *)

Mergeable(o) ==
  {c.other : c \in {c \in conn[o] :
     /\ c.type = "endpoint" /\ kind[c.other] = "net"
     /\ ~\E d \in conn[o] : d.type = "midpoint" /\ d.x = c.x}}
Hull(a, b) ==
  LET ends == {a[1], a[2], b[1], b[2]} IN
  <<CHOOSE x \in ends : \A y \in ends : x <= y, CHOOSE x \in ends : \A y \in ends : x >= y>>

StartConsolidate(p) ==
  /\ Idle /\ removed = {} /\ merging' = p
  /\ UNCHANGED <<shape, place, links, conn, connectible, selection, wraps, removed, past>>

Merge(p, o, x) ==
  /\ merging = p /\ o \in objects[p] /\ kind[o] = "net" /\ x \in Mergeable(o)
  /\ kind' = [kind EXCEPT ![x] = "free"]
  /\ line' = [line EXCEPT ![o] = Hull(line[o], line[x]), ![x] = NoLine]
  /\ attached_to' = [t \in Objects |-> IF t \in attribs[x] THEN o ELSE attached_to[t]]
  /\ attribs' = [attribs EXCEPT ![o] = @ \cup attribs[x], ![x] = {}]
  /\ page' = [page EXCEPT ![x] = None]
  /\ objects' = [objects EXCEPT ![p] = @ \ {x}]
  /\ connectible' = [connectible EXCEPT ![p] = @ \ {x}]
  /\ UNCHANGED <<parent, prims, calls>>
  /\ conn' = With(Disconnected({x}), Joined(o, p)')
  /\ selection' = [selection EXCEPT ![p] = IF x \in @ THEN (@ \ {x}) \cup {o} ELSE @]
  /\ held' = {h \in held : h[1] # x} /\ gc' = {h \in gc : h[1] # x}
  /\ moved' = moved \ {x} /\ merged' = (merged \ {x}) \cup {o}

FinishConsolidate(p) ==
  /\ merging = p /\ merging' = None
  /\ \A o \in objects[p] : kind[o] = "net" => Mergeable(o) = {}
  /\ UNCHANGED <<shape, place, links, conn, connectible, selection, wraps, removed, past>>

-----------------------------------------------------------------------------

Contents ==
  \E o \in Objects, w \in Wrappers :
     \/ Wrap(o, w) \/ Collect(o, w)
     \/ \E k \in Kinds, l \in Lines \cup {NoLine} : Make(o, k, l, w)
     \/ \E p \in Pages : PageAppend(p, o, w) \/ PageRemove(p, o, w)
     \/ \E c \in Objects : ComplexAppend(c, o, w) \/ ComplexRemove(c, o, w)
Change ==
  \E o \in Objects :
     \/ \E t \in Objects : AttachAttrib(o, t) \/ DetachAttrib(o, t)
     \/ \E l \in Lines : SetLine(o, l)
     \/ \E d \in {-1, 1} : Translate(o, d)
     \/ SelectObject(o) \/ DeselectObject(o)
Gschem ==
  \/ \E p \in Pages : \/ ClosePage(p) \/ StartConsolidate(p) \/ FinishConsolidate(p)
                      \/ \E S \in SUBSET selection[p] : DeleteSelected(p, S)
                      \/ \E o, x \in Objects : Merge(p, o, x)
  \/ DeleteRemoved
Next == Contents \/ Change \/ Gschem
Spec == Init /\ [][Next]_vars

-----------------------------------------------------------------------------

(* Every variable has its type, and a connection names another object.      *)
TypeOK ==
  /\ kind \in [Objects -> Kinds \cup {"free"}]
  /\ DOMAIN line = Objects /\ \A o \in Objects : line[o] \in Int \X Int
  /\ page \in [Objects -> Pages \cup {None}]
  /\ parent \in [Objects -> Objects \cup {None}]
  /\ attached_to \in [Objects -> Objects \cup {None}]
  /\ prims \in [Objects -> SUBSET Objects] /\ attribs \in [Objects -> SUBSET Objects]
  /\ DOMAIN conn = Objects
  /\ \A o \in Objects : \A c \in conn[o] :
       /\ c = [other |-> c.other, type |-> c.type, x |-> c.x]
       /\ c.other \in Objects \ {o} /\ c.type \in {"endpoint", "midpoint"} /\ c.x \in Int
  /\ objects \in [Pages -> SUBSET Objects] /\ connectible \in [Pages -> SUBSET Objects]
  /\ selection \in [Pages -> SUBSET Objects]
  /\ held \subseteq Objects \X Wrappers /\ gc \subseteq held
  /\ removed \subseteq Objects /\ merging \in Pages \cup {None}
  /\ moved \subseteq Objects /\ merged \subseteq Objects

(* Whatever an object, a page, the selection or a wrapper points to exists, *)
(* and points back: no pointer to an object that was freed is left, and no  *)
(* list keeps an object that has gone elsewhere (s_basic.c:186).            *)
FreeIsForgotten ==
  \A o \in Objects \ Live : /\ prims[o] = {} /\ attribs[o] = {} /\ conn[o] = {}
                            /\ parent[o] = None /\ page[o] = None /\ attached_to[o] = None
TreesAgree ==
  /\ \A p \in Pages : objects[p] = {o \in Objects : page[o] = p}
  /\ \A c \in Objects : /\ prims[c] = {o \in Objects : parent[o] = c}
                        /\ prims[c] # {} => kind[c] = "component"
                        /\ attribs[c] = {t \in Objects : attached_to[t] = c}
  /\ \A o \in Objects : parent[o] # None => page[o] = None /\ kind[o] # "component"
ListsAgree ==
  /\ \A p \in Pages, o \in Objects :
       o \in connectible[p] <=> PageOf(o) = p /\ kind[o] \in Conductors
  /\ \A p \in Pages : selection[p] \subseteq objects[p]
  /\ removed \cup {h[1] : h \in held} \subseteq Live
ConnectionsAgree ==
  \A a \in Objects : \A c \in conn[a] :
     /\ PageOf(a) # None /\ PageOf(c.other) = PageOf(a)
     /\ [other |-> a, type |-> c.type, x |-> c.x] \in conn[c.other]
\* An object and its attributes stay on one page and in one symbol, unless
\* gschem is about to delete one of them (scheme_attrib.c:160).
AttributesStay ==
  \A t \in Objects : LET o == attached_to[t] IN
     o = None \/ {o, t} \cap removed # {} \/ (parent[t] = parent[o] /\ PageOf(t) = PageOf(o))
LinksAgree ==
  FreeIsForgotten /\ TreesAgree /\ ListsAgree /\ ConnectionsAgree /\ AttributesStay

(* Every object is freed by exactly one: the page or the component that it  *)
(* belongs to, gschem's deletion, or one wrapper when it is collected.  So  *)
(* none is freed twice and none leaks (scheme_page.c:274).                  *)
InC(o) == page[o] # None \/ parent[o] # None \/ o \in removed
OwnedOnce ==
  \A o \in Live :
     LET owners == {w \in Wrappers : <<o, w>> \in gc} IN
     IF InC(o) THEN owners = {} ELSE \E w \in Wrappers : owners = {w}

(* The comment "Object cleanup now managed by C code" of scheme_page.c:274  *)
(* and scheme_complex.c:280: no wrapper frees an object that is on a page   *)
(* or in a component.                                                       *)
CleanupByC == \A h \in gc : page[h[1]] = None /\ parent[h[1]] = None

(* Conductors on a page are connected if and only if they touch, unless one *)
(* was moved by a call that does not look, and except that a merged net may *)
(* keep connections of the nets it is made of (s_conn.c:336).               *)
ConnectionsAreTouches ==
  \A p \in Pages : \A a, b \in connectible[p] \ moved :
     LET known == \E c \in conn[a] : c.other = b IN
     a # b => /\ Joints(a, b) # {} => known
              /\ known => Joints(a, b) # {} \/ {a, b} \cap merged # {}

=============================================================================
