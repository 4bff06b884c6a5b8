---------------------------- MODULE XornStorage ----------------------------
(***************************************************************************)
(* The storage backend of Xorn (src/xorn/src/storage): revisions of a      *)
(* document that share immutable, reference-counted object states.         *)
(*                                                                         *)
(* A revision is three maps: obstates (object to object state), children   *)
(* (object or NULL to the vector of objects attached to it, in drawing     *)
(* order) and parent (object to the object it is attached to, or NULL).    *)
(* Copying a revision copies the maps and shares the object states; every  *)
(* operation is one call of the library, which runs to completion, and may *)
(* fail with std::bad_alloc at each of its allocations.                    *)
(***************************************************************************)
EXTENDS Integers, FiniteSets, Sequences

CONSTANTS
  Revs,     \* addresses a xorn_revision_t can have
  Cells,    \* addresses an obstate can have; memory is reused once released
  MaxId,    \* bound on next_object_id: the objects one behaviour can create
  ObTypes,  \* the object types used, see below
  Data,     \* object data that data_is_valid accepts
  BadData   \* object data that data_is_valid rejects

ASSUME StorageAssumption ==
  /\ MaxId \in Nat
  /\ IsFiniteSet(Revs) /\ IsFiniteSet(Cells)
  /\ BadData \notin Data
  /\ ObTypes \subseteq {"net", "text", "line"}

Null == 0                       \* the NULL object; objects count up from 1
Objects == 1..MaxId

(* The nine object types, by what the code distinguishes: nets and         *)
(* components ("net") can have objects attached, texts ("text") can be     *)
(* attached, and the others ("line") neither.                              *)

ObData == [type : ObTypes, data : Data]         \* what an obstate holds
ObArgs == [type : ObTypes, data : Data \cup {BadData}]
Freed == [type |-> "none"]                      \* a cell that is not allocated

Errors == {"revision_not_transient", "invalid_object_data",
           "object_doesnt_exist", "parent_doesnt_exist",
           "successor_doesnt_exist", "invalid_parent",
           "invalid_existing_child", "successor_not_sibling",
           "out_of_memory"}

VARIABLES
  live,            \* revisions allocated and not freed
  is_transient,    \* per revision: may it be changed?
  obstates,        \* per revision: object -> cell, for the objects in it
  children,        \* per revision: object or Null -> sequence of objects
  parent,          \* per revision: object -> object or Null
  refcnt,          \* per cell: obstate::refcnt
  content,         \* per cell: obstate::type and obstate::data
  next_object_id,  \* the last object number handed out
  ret,             \* "ok" or the error code of the last call
  aborted          \* an exception left a C function: std::terminate

rev_vars == <<obstates, children, parent>>
heap_vars == <<refcnt, content>>
vars == <<live, is_transient, obstates, children, parent, refcnt, content,
          next_object_id, ret, aborted>>

-----------------------------------------------------------------------------
(* std::map and std::vector.                                               *)

Put(map, k, v) == [x \in DOMAIN map \cup {k} |-> IF x = k THEN v ELSE map[x]]
Drop(map, D) == [x \in DOMAIN map \ D |-> map[x]]
EmptyMap == [x \in {} |-> x]

\* The vector at key p; reading a missing key finds no children.
Kids(ch, p) == IF p \in DOMAIN ch THEN ch[p] ELSE << >>
\* ch[p]: operator[] enters an empty vector when the key is missing.
Touch(ch, p) == Put(ch, p, Kids(ch, p))
PushBack(ch, p, ob) == Put(ch, p, Append(Kids(ch, p), ob))
PopBack(ch, p) == Put(ch, p, SubSeq(ch[p], 1, Len(ch[p]) - 1))

Elems(s) == {s[i] : i \in 1..Len(s)}
Find(s, x) == CHOOSE i \in 1..Len(s) : s[i] = x /\ \A j \in 1..i-1 : s[j] # x
Insert(s, i, x) == SubSeq(s, 1, i-1) \o <<x>> \o SubSeq(s, i, Len(s))
EraseAt(s, i) == SubSeq(s, 1, i-1) \o SubSeq(s, i+1, Len(s))

(* The elements of the finite set S in the order of the relation `before`. *)
Ranked(S, before) ==
  [k \in 1..Cardinality(S) |->
     CHOOSE x \in S : Cardinality({y \in S : <<y, x>> \in before}) = k - 1]
(* The sequence s without the elements of D.                               *)
Without(s, D) ==
  LET kept == {i \in 1..Len(s) : s[i] \notin D}
      pos == Ranked(kept, {p \in kept \X kept : p[1] < p[2]})
  IN  [k \in 1..Cardinality(kept) |-> s[pos[k]]]

-----------------------------------------------------------------------------
(* Reading a revision.                                                     *)

Exists(r, ob) == ob \in DOMAIN obstates[r]
TypeOf(r, ob) == IF Exists(r, ob) THEN content[obstates[r][ob]].type ELSE "none"

(* The references to a cell among the objects D of a map to cells.         *)
Uses(map, D, c) == {ob \in D : map[ob] = c}
\* Mutant: the copy constructor counts nothing.
RetainNothing(rc, map, D) == rc
\* Mutant: a cell that a revision uses twice is counted once.
RetainOnce(rc, map, D) == [c \in Cells |-> IF Uses(map, D, c) = {} THEN rc[c] ELSE rc[c] + 1]

Retain(rc, map, D) == [c \in Cells |-> rc[c] + Cardinality(Uses(map, D, c))]
Release(rc, map, D) == [c \in Cells |-> rc[c] - Cardinality(Uses(map, D, c))]

(* dec_refcnt deletes an object state whose count reaches zero.            *)
Sweep(rc, held) == [c \in Cells |-> IF rc[c] = 0 THEN Freed ELSE held[c]]

Init ==
  /\ live = {}
  /\ is_transient = [r \in Revs |-> FALSE]
  /\ obstates = [r \in Revs |-> EmptyMap]
  /\ children = [r \in Revs |-> EmptyMap]
  /\ parent = [r \in Revs |-> EmptyMap]
  /\ refcnt = [c \in Cells |-> 0]
  /\ content = [c \in Cells |-> Freed]
  /\ next_object_id = 0
  /\ ret = "ok"
  /\ aborted = FALSE

(* A call that returns an error and changes nothing.                       *)
Reject(err) ==
  /\ ret' = err
  /\ UNCHANGED <<live, is_transient, rev_vars, heap_vars, next_object_id, aborted>>

-----------------------------------------------------------------------------
(* Revisions.                                                              *)

NewRevision(r) ==
  /\ r \notin live
  /\ live' = live \cup {r}
  /\ is_transient' = [is_transient EXCEPT ![r] = TRUE]
  /\ ret' = "ok"
  /\ UNCHANGED <<rev_vars, heap_vars, next_object_id, aborted>>

\* The copy constructor copies the maps, then counts every object state.
CopyRevision(r, from) ==
  /\ r \notin live /\ from \in live
  /\ live' = live \cup {r}
  /\ is_transient' = [is_transient EXCEPT ![r] = TRUE]
  /\ obstates' = [obstates EXCEPT ![r] = obstates[from]]
  /\ children' = [children EXCEPT ![r] = children[from]]
  /\ parent' = [parent EXCEPT ![r] = parent[from]]
  /\ refcnt' = Retain(refcnt, obstates[from], DOMAIN obstates[from])
  /\ ret' = "ok"
  /\ UNCHANGED <<content, next_object_id, aborted>>

\* Allocating the revision or copying one of its maps fails before any count
\* is touched.
NewRevisionFails == Revs \ live # {} /\ Reject("out_of_memory")

FinalizeRevision(r) ==
  /\ r \in live
  /\ is_transient' = [is_transient EXCEPT ![r] = FALSE]
  /\ ret' = "ok"
  /\ UNCHANGED <<live, rev_vars, heap_vars, next_object_id, aborted>>

FreeRevision(r) ==
  /\ r \in live
  /\ live' = live \ {r}
  /\ is_transient' = [is_transient EXCEPT ![r] = FALSE]
  /\ obstates' = [obstates EXCEPT ![r] = EmptyMap]
  /\ children' = [children EXCEPT ![r] = EmptyMap]
  /\ parent' = [parent EXCEPT ![r] = EmptyMap]
  /\ refcnt' = Release(refcnt, obstates[r], DOMAIN obstates[r])
  /\ content' = Sweep(refcnt', content)
  /\ ret' = "ok"
  /\ UNCHANGED <<next_object_id, aborted>>

-----------------------------------------------------------------------------
(* Adding an object and setting the data of one.                           *)

\* Mutant: the replaced state is not dropped.
BindLeaking(r, ob, c, arg) ==
  /\ refcnt[c] = 0
  /\ obstates' = [obstates EXCEPT ![r] = Put(@, ob, c)]
  /\ refcnt' = [refcnt EXCEPT ![c] = 1]
  /\ content' = [content EXCEPT ![c] = arg]
\* Mutant: an existing object state is overwritten instead of replaced.
BindInPlace(r, ob, c, arg) ==
  IF ob \in DOMAIN obstates[r]
    THEN content' = [content EXCEPT ![obstates[r][ob]] = arg] /\ UNCHANGED <<obstates, refcnt>>
    ELSE BindLeaking(r, ob, c, arg)

(* set_object_data: allocate an object state, store it under ob and drop   *)
(* the one it replaces.  The new state is allocated while the old one is   *)
(* still held, so the two cells differ.                                    *)
Bind(r, ob, c, arg) ==
  LET old == DOMAIN obstates[r] \cap {ob}
  IN  /\ refcnt[c] = 0
      /\ obstates' = [obstates EXCEPT ![r] = Put(@, ob, c)]
      /\ refcnt' = [Release(refcnt, obstates[r], old) EXCEPT ![c] = 1]
      /\ content' = [Sweep(refcnt', content) EXCEPT ![c] = arg]

(* Append ob to the object list of r.                                      *)
Enter(r, ob) ==
  /\ children' = [children EXCEPT ![r] = PushBack(@, Null, ob)]
  /\ parent' = [parent EXCEPT ![r] = Put(@, ob, Null)]

\* Mutant: the append is not undone when the entry in parent fails.
EnterFailsKeeping(r, ob) ==
  /\ children' = [children EXCEPT ![r] = PushBack(@, Null, ob)]
  /\ UNCHANGED parent

(* What an allocation failure leaves of children and parent: failing to    *)
(* append leaves at most an empty vector, a later failure undoes the       *)
(* append, and after the second also the entry in parent.                  *)
EnterFails(r, ob) ==
  LET ch == PushBack(children[r], Null, ob)
      pa == Put(parent[r], ob, Null)
  IN  \/ /\ \/ UNCHANGED children
            \/ children' = [children EXCEPT ![r] = Touch(@, Null)]
         /\ UNCHANGED parent
      \/ /\ children' = [children EXCEPT ![r] = PopBack(ch, Null)]
         /\ UNCHANGED parent
      \/ /\ children' = [children EXCEPT ![r] = PopBack(ch, Null)]
         /\ parent' = [parent EXCEPT ![r] = Drop(pa, {ob})]

\* Mutant: a finalized revision accepts changes.
AddCheckUnlocked(r, arg) == IF arg.data = BadData THEN "invalid_object_data" ELSE "ok"

AddCheck(r, arg) ==
  IF ~is_transient[r] THEN "revision_not_transient"
  ELSE IF arg.data = BadData THEN "invalid_object_data"
  ELSE "ok"

\* Mutant: objects are numbered by the size of their revision.
AddObjectLocally(r, arg) ==
  /\ r \in live
  /\ AddCheck(r, arg) = "ok"
  /\ next_object_id' = Cardinality(DOMAIN obstates[r]) + 1
  /\ next_object_id' <= MaxId
  /\ \E c \in Cells : Bind(r, next_object_id', c, arg)
  /\ Enter(r, next_object_id')
  /\ ret' = "ok"
  /\ UNCHANGED <<live, is_transient, aborted>>

AddObject(r, arg) ==
  /\ r \in live
  /\ AddCheck(r, arg) = "ok"
  /\ next_object_id < MaxId
  /\ next_object_id' = next_object_id + 1
  /\ \E c \in Cells : Bind(r, next_object_id', c, arg)
  /\ Enter(r, next_object_id')
  /\ ret' = "ok"
  /\ UNCHANGED <<live, is_transient, aborted>>

\* The object number is spent before the first allocation.
AddObjectFails(r, arg) ==
  /\ r \in live
  /\ AddCheck(r, arg) = "ok"
  /\ next_object_id < MaxId
  /\ next_object_id' = next_object_id + 1
  /\ EnterFails(r, next_object_id')
  /\ ret' = "out_of_memory"
  /\ UNCHANGED <<live, is_transient, obstates, heap_vars, aborted>>

AddObjectRejected(r, arg) ==
  r \in live /\ AddCheck(r, arg) # "ok" /\ Reject(AddCheck(r, arg))

\* Mutant: the object's own attachment is not looked at.
SetCheckParentless(r, ob, arg) ==
  IF AddCheck(r, arg) # "ok" THEN AddCheck(r, arg)
  ELSE IF arg.type # "net" /\ Kids(children[r], ob) # << >>
    THEN "invalid_existing_child"
  ELSE "ok"

SetCheck(r, ob, arg) ==
  IF AddCheck(r, arg) # "ok" THEN AddCheck(r, arg)
  ELSE IF arg.type # "net" /\ Kids(children[r], ob) # << >>
    THEN "invalid_existing_child"
  ELSE IF arg.type # "text" /\ ob \in DOMAIN parent[r] /\ parent[r][ob] # Null
    THEN "invalid_parent"
  ELSE "ok"

\* An object that is not in the revision is (re-)created at the end of the list.
SetObjectData(r, ob, arg) ==
  /\ r \in live /\ ob \in 1..next_object_id
  /\ SetCheck(r, ob, arg) = "ok"
  /\ \E c \in Cells : Bind(r, ob, c, arg)
  /\ IF ob \in DOMAIN parent[r] THEN UNCHANGED <<children, parent>>
     ELSE Enter(r, ob)
  /\ ret' = "ok"
  /\ UNCHANGED <<live, is_transient, next_object_id, aborted>>

SetObjectDataFails(r, ob, arg) ==
  /\ r \in live /\ ob \in 1..next_object_id
  /\ SetCheck(r, ob, arg) = "ok"
  /\ IF ob \in DOMAIN parent[r] THEN UNCHANGED <<children, parent>>
     ELSE EnterFails(r, ob)
  /\ ret' = "out_of_memory"
  /\ UNCHANGED <<live, is_transient, obstates, heap_vars, next_object_id, aborted>>

SetObjectDataRejected(r, ob, arg) ==
  /\ r \in live /\ ob \in 1..next_object_id
  /\ SetCheck(r, ob, arg) # "ok"
  /\ Reject(SetCheck(r, ob, arg))

-----------------------------------------------------------------------------
(* Reordering and attaching an object.                                     *)

RelocateCheck(r, ob, to) ==
  IF ~is_transient[r] THEN "revision_not_transient"
  ELSE IF ~Exists(r, ob) THEN "object_doesnt_exist"
  ELSE IF to = Null THEN "ok"
  ELSE IF TypeOf(r, ob) # "text" THEN "invalid_parent"
  ELSE IF ~Exists(r, to) THEN "parent_doesnt_exist"
  ELSE IF TypeOf(r, to) # "net" THEN "invalid_parent"
  ELSE "ok"

\* Mutant: the old position is not adjusted.
MovedUnshifted(ch, from, ob, to, before) ==
  LET i == Find(ch[from], ob)
      j == IF before = Null THEN Len(Kids(ch, to)) + 1 ELSE Find(Kids(ch, to), before)
      inserted == Put(ch, to, Insert(Kids(ch, to), j, ob))
  IN  Put(inserted, from, EraseAt(inserted[from], i))

(* The new entry goes in first; the position of the old one moves up when  *)
(* the new one lands at or before it in the same vector.                   *)
Moved(ch, from, ob, to, before) ==
  LET i == Find(ch[from], ob)
      j == IF before = Null THEN Len(Kids(ch, to)) + 1 ELSE Find(Kids(ch, to), before)
      pos == IF to = from /\ before # Null /\ j <= i THEN i + 1 ELSE i
      inserted == Put(ch, to, Insert(Kids(ch, to), j, ob))
  IN  Put(inserted, from, EraseAt(inserted[from], pos))

Relocate(r, ob, to, before) ==
  /\ r \in live /\ ob \in 1..next_object_id
  /\ RelocateCheck(r, ob, to) = "ok"
  /\ before = Null \/ before \in Elems(Kids(children[r], to))
  /\ children' = [children EXCEPT ![r] = Moved(@, parent[r][ob], ob, to, before)]
  /\ parent' = [parent EXCEPT ![r][ob] = to]
  /\ ret' = "ok"
  /\ UNCHANGED <<live, is_transient, obstates, heap_vars, next_object_id, aborted>>

\* The successor is looked up after operator[] has entered a vector for `to`.
RelocateNoSuccessor(r, ob, to, before) ==
  /\ r \in live /\ ob \in 1..next_object_id
  /\ RelocateCheck(r, ob, to) = "ok"
  /\ before # Null /\ before \notin Elems(Kids(children[r], to))
  /\ children' = [children EXCEPT ![r] = Touch(@, to)]
  /\ ret' = IF Exists(r, before) THEN "successor_not_sibling"
                                 ELSE "successor_doesnt_exist"
  /\ UNCHANGED <<live, is_transient, obstates, parent, heap_vars,
                 next_object_id, aborted>>

\* The vector cannot grow.
RelocateFails(r, ob, to, before) ==
  /\ r \in live /\ ob \in 1..next_object_id
  /\ RelocateCheck(r, ob, to) = "ok"
  /\ before = Null \/ before \in Elems(Kids(children[r], to))
  /\ children' = [children EXCEPT ![r] = Touch(@, to)]
  /\ ret' = "out_of_memory"
  /\ UNCHANGED <<live, is_transient, obstates, parent, heap_vars,
                 next_object_id, aborted>>

\* Entering a vector for `to` allocates outside the try block.
RelocateAborts(r, ob, to) ==
  /\ r \in live /\ ob \in 1..next_object_id
  /\ RelocateCheck(r, ob, to) = "ok"
  /\ to \notin DOMAIN children[r]
  /\ aborted' = TRUE
  /\ UNCHANGED <<live, is_transient, rev_vars, heap_vars, next_object_id, ret>>

RelocateRejected(r, ob, to) ==
  /\ r \in live /\ ob \in 1..next_object_id
  /\ RelocateCheck(r, ob, to) # "ok"
  /\ Reject(RelocateCheck(r, ob, to))

-----------------------------------------------------------------------------
(* Deleting objects.                                                       *)

(* The objects S of revision r with everything attached to them.           *)
Subtree(r, S) ==
  LET tops == S \cap DOMAIN obstates[r]
  IN  tops \cup UNION {Elems(Kids(children[r], ob)) : ob \in tops}

\* Mutant: the vectors of deleted objects stay.
EraseEntries(ch, D) == [p \in DOMAIN ch |-> Without(ch[p], D)]

(* A vector entry of a deleted object goes with it, and so does the        *)
(* vector of what was attached to it.                                      *)
Erase(ch, D) == [p \in DOMAIN ch \ D |-> Without(ch[p], D)]

DeleteObjects(r, S) ==
  LET D == Subtree(r, S)
  IN  /\ obstates' = [obstates EXCEPT ![r] = Drop(@, D)]
      /\ parent' = [parent EXCEPT ![r] = Drop(@, D)]
      /\ children' = [children EXCEPT ![r] = Erase(@, D)]
      /\ refcnt' = Release(refcnt, obstates[r], D)
      /\ content' = Sweep(refcnt', content)
      /\ ret' = "ok"
      /\ UNCHANGED <<live, is_transient, next_object_id, aborted>>

DeleteObject(r, ob) ==
  /\ r \in live /\ is_transient[r] /\ Exists(r, ob)
  /\ DeleteObjects(r, {ob})

DeleteObjectRejected(r, ob) ==
  /\ r \in live /\ ob \in 1..next_object_id
  /\ \/ ~is_transient[r] /\ Reject("revision_not_transient")
     \/ is_transient[r] /\ ~Exists(r, ob) /\ Reject("object_doesnt_exist")

\* Selected objects that are not in the revision are ignored, and so are
\* those already deleted along with what they were attached to.
DeleteSelectedObjects(r, sel) ==
  /\ r \in live /\ sel \subseteq 1..next_object_id
  /\ is_transient[r]
  /\ DeleteObjects(r, sel)

DeleteSelectedRejected(r) ==
  r \in live /\ ~is_transient[r] /\ Reject("revision_not_transient")

-----------------------------------------------------------------------------
(* Copying objects from revision src to revision dest.                     *)

(* What one call copies: item <<ob, 0>> is the selected object ob itself,  *)
(* <<ob, i>> the i-th object attached to it.  An object that is selected   *)
(* and attached to another selected object is copied for each.             *)
Items(src, S) ==
  UNION {{<<ob, i>> : i \in 0..Len(Kids(children[src], ob))} :
            ob \in S \cap DOMAIN obstates[src]}
Original(src, it) ==
  IF it[2] = 0 THEN it[1] ELSE children[src][it[1]][it[2]]

(* The order of the recursion: selected objects by number, each followed   *)
(* by what is attached to it.  The k-th copy is number next_object_id + k. *)
Precedes(a, b) == a[1] < b[1] \/ (a[1] = b[1] /\ a[2] < b[2])
CopyOrder(items) ==
  Ranked(items, {p \in items \X items : Precedes(p[1], p[2])})

(* The maps of dest once the first m items of the order are copied.        *)
NewIds(m) == next_object_id+1 .. next_object_id+m
SourceOf(src, order, id) == Original(src, order[id - next_object_id])
CopiedCells(src, order, m) ==
  [id \in NewIds(m) |-> obstates[src][SourceOf(src, order, id)]]
TopCopies(order, m) == {id \in NewIds(m) : order[id - next_object_id][2] = 0}
CopiedParent(order, m) ==
  [id \in NewIds(m) |->
     IF id \in TopCopies(order, m) THEN Null
     ELSE CHOOSE t \in TopCopies(order, m) :
            order[t - next_object_id][1] = order[id - next_object_id][1]]
InOrderMade(D, m) == Without([k \in 1..m |-> next_object_id + k], NewIds(m) \ D)
CopiedChildren(ch, order, m) ==
  LET pa == CopiedParent(order, m)
      attached(t) == {id \in NewIds(m) : pa[id] = t}
      hosts == {t \in TopCopies(order, m) : attached(t) # {}}
  IN  [p \in DOMAIN ch \cup {Null} \cup hosts |->
         IF p \in hosts THEN InOrderMade(attached(p), m)
         ELSE IF p = Null THEN Kids(ch, Null) \o InOrderMade(TopCopies(order, m), m)
         ELSE ch[p]]
Merge(f, g) == [x \in DOMAIN f \cup DOMAIN g |-> IF x \in DOMAIN g THEN g[x] ELSE f[x]]

CopyObjects(dest, src, S) ==
  LET n == Cardinality(Items(src, S))
      order == CopyOrder(Items(src, S))
  IN  /\ next_object_id + n <= MaxId
      /\ next_object_id' = next_object_id + n
      /\ obstates' = [obstates EXCEPT ![dest] = Merge(@, CopiedCells(src, order, n))]
      /\ parent' = [parent EXCEPT ![dest] = Merge(@, CopiedParent(order, n))]
      /\ children' = [children EXCEPT ![dest] =
                        IF n = 0 THEN @ ELSE CopiedChildren(@, order, n)]
      /\ refcnt' = Retain(refcnt, CopiedCells(src, order, n), NewIds(n))
      /\ ret' = "ok"
      /\ UNCHANGED <<live, is_transient, content, aborted>>

\* Mutant: the caller does not delete the copies already made.
CopyObjectsFailsKeeping(dest, src, S) ==
  \E m \in 0..Cardinality(Items(src, S)) - 1 :
      LET order == CopyOrder(Items(src, S))
      IN  /\ next_object_id + m + 1 <= MaxId
          /\ next_object_id' = next_object_id + m + 1
          /\ obstates' = [obstates EXCEPT ![dest] = Merge(@, CopiedCells(src, order, m))]
          /\ parent' = [parent EXCEPT ![dest] = Merge(@, CopiedParent(order, m))]
          /\ children' = [children EXCEPT ![dest] =
                            IF m = 0 THEN @ ELSE CopiedChildren(@, order, m)]
          /\ refcnt' = Retain(refcnt, CopiedCells(src, order, m), NewIds(m))
          /\ ret' = "out_of_memory"
          /\ UNCHANGED <<live, is_transient, content, aborted>>

(* An allocation fails while item m+1 is copied: copy_object takes back    *)
(* what it did for that item, and the caller deletes the m copies made.    *)
CopyObjectsFails(dest, src, S) ==
  \E m \in 0..Cardinality(Items(src, S)) - 1 :
      LET order == CopyOrder(Items(src, S))
          made == CopiedCells(src, order, m)
          ch == IF m = 0 THEN children[dest]
                ELSE CopiedChildren(children[dest], order, m)
      IN  /\ next_object_id + m + 1 <= MaxId
          /\ next_object_id' = next_object_id + m + 1
          /\ obstates' = [obstates EXCEPT ![dest] = Drop(Merge(@, made), NewIds(m))]
          /\ parent' = [parent EXCEPT ![dest] =
                          Drop(Merge(@, CopiedParent(order, m)), NewIds(m))]
          /\ \E left \in {ch, Touch(ch, Null)} :
               children' = [children EXCEPT ![dest] = Erase(left, NewIds(m))]
          /\ refcnt' = Release(Retain(refcnt, made, NewIds(m)), made, NewIds(m))
          /\ content' = Sweep(refcnt', content)
          /\ ret' = "out_of_memory"
          /\ UNCHANGED <<live, is_transient, aborted>>

CopyObject(dest, src, ob) ==
  /\ {dest, src} \subseteq live /\ is_transient[dest] /\ Exists(src, ob)
  /\ CopyObjects(dest, src, {ob}) \/ CopyObjectsFails(dest, src, {ob})

CopyObjectRejected(dest, src, ob) ==
  /\ {dest, src} \subseteq live /\ ob \in 1..next_object_id
  /\ \/ ~is_transient[dest] /\ Reject("revision_not_transient")
     \/ is_transient[dest] /\ ~Exists(src, ob) /\ Reject("object_doesnt_exist")

CopySelected(dest, src, sel) ==
  /\ {dest, src} \subseteq live /\ is_transient[dest]
  /\ sel \subseteq 1..next_object_id
  /\ \/ CopyObjects(dest, src, sel)
     \/ CopyObjectsFails(dest, src, sel)
     \/ Reject("out_of_memory")           \* no memory for the new selection

CopySelectedRejected(dest, src) ==
  /\ {dest, src} \subseteq live
  /\ ~is_transient[dest] /\ Reject("revision_not_transient")

-----------------------------------------------------------------------------
RevisionCall ==
  \/ \E r \in Revs : NewRevision(r) \/ FinalizeRevision(r) \/ FreeRevision(r)
  \/ \E r, from \in Revs : CopyRevision(r, from)
  \/ NewRevisionFails

ObjectCall ==
  \E r \in Revs, arg \in ObArgs :
    \/ AddObject(r, arg)
    \/ AddObjectFails(r, arg)
    \/ AddObjectRejected(r, arg)
    \/ \E ob \in Objects :
         \/ SetObjectData(r, ob, arg)
         \/ SetObjectDataFails(r, ob, arg)
         \/ SetObjectDataRejected(r, ob, arg)

RelocateCall ==
  \E r \in Revs, ob \in Objects, to \in Objects \cup {Null} :
    \/ RelocateAborts(r, ob, to)
    \/ RelocateRejected(r, ob, to)
    \/ \E before \in 0..next_object_id :
         \/ Relocate(r, ob, to, before)
         \/ RelocateNoSuccessor(r, ob, to, before)
         \/ RelocateFails(r, ob, to, before)

DeleteCall ==
  \E r \in Revs :
    \/ \E ob \in Objects : DeleteObject(r, ob) \/ DeleteObjectRejected(r, ob)
    \/ \E sel \in SUBSET Objects : DeleteSelectedObjects(r, sel)
    \/ DeleteSelectedRejected(r)

CopyCall ==
  \E dest, src \in Revs :
    \/ \E ob \in Objects : CopyObject(dest, src, ob) \/ CopyObjectRejected(dest, src, ob)
    \/ \E sel \in SUBSET Objects : CopySelected(dest, src, sel)
    \/ CopySelectedRejected(dest, src)

Next == ~aborted /\ (RevisionCall \/ ObjectCall \/ RelocateCall \/ DeleteCall \/ CopyCall)

Spec == Init /\ [][Next]_vars
-----------------------------------------------------------------------------
(* Properties.                                                             *)

IsMap(map, K, V) == DOMAIN map \subseteq K /\ map \in [DOMAIN map -> V]

(* Type correctness of the three maps of every revision and of the heap.   *)
TypeOK ==
  /\ live \subseteq Revs
  /\ is_transient \in [Revs -> BOOLEAN]
  /\ next_object_id \in 0..MaxId
  /\ obstates = [r \in Revs |-> obstates[r]]
  /\ parent = [r \in Revs |-> parent[r]]
  /\ children = [r \in Revs |-> children[r]]
  /\ \A r \in Revs : /\ IsMap(obstates[r], Objects, Cells)
                     /\ IsMap(parent[r], Objects, Objects \cup {Null})
                     /\ IsMap(children[r], Objects \cup {Null}, Seq(Objects))
  /\ refcnt \in [Cells -> Nat]
  /\ content \in [Cells -> ObData \cup {Freed}]
  /\ ret \in Errors \cup {"ok"}
  /\ aborted \in BOOLEAN

(* obstate::refcnt counts exactly the entries of all revisions that refer  *)
(* to the object state, whichever calls shared, replaced, dropped or, after*)
(* running out of memory, took back references: none is leaked and none is *)
(* released while a revision still uses it.                                *)
References(c) == {ref \in Revs \X Objects :
                    ref[2] \in DOMAIN obstates[ref[1]] /\ obstates[ref[1]][ref[2]] = c}
RefcountExact == \A c \in Cells : refcnt[c] = Cardinality(References(c))

(* No revision refers to an object state that has been deleted, so a query *)
(* never reads freed memory.                                               *)
NoDanglingState ==
  \A r \in Revs : \A ob \in DOMAIN obstates[r] : content[obstates[r][ob]] # Freed

(* The three maps of a revision describe one forest: an object is in the   *)
(* vector of exactly the object its parent entry names, once, and a vector *)
(* is kept for no object but those in the revision (otherwise an object    *)
(* re-created with xorn_set_object_data would come back with attachments). *)
NoDuplicates(s) == \A i, j \in 1..Len(s) : s[i] = s[j] => i = j
IsForest(obs, pa, ch) ==
  /\ DOMAIN pa = obs
  /\ DOMAIN ch \subseteq obs \cup {Null}
  /\ \A ob \in obs : pa[ob] \in DOMAIN ch
  /\ \A p \in DOMAIN ch : /\ Elems(ch[p]) = {ob \in obs : pa[ob] = p}
                          /\ NoDuplicates(ch[p])
TreeConsistent == \A r \in Revs : IsForest(DOMAIN obstates[r], parent[r], children[r])

(* Only a text is ever attached, and only to a net or component, although  *)
(* types change under xorn_set_object_data after the attachment is made.   *)
AttachmentsTyped ==
  \A r \in Revs : \A ob \in DOMAIN parent[r] :
    parent[r][ob] # Null =>
      TypeOf(r, ob) = "text" /\ TypeOf(r, parent[r][ob]) = "net"

(* What the query functions show of a revision: the data, the parent and   *)
(* the drawing order of its objects.                                       *)
View(r) ==
  [objects |-> [ob \in DOMAIN obstates[r] |-> content[obstates[r][ob]]],
   parent |-> parent[r],
   order |-> [p \in DOMAIN obstates[r] \cup {Null} |-> Kids(children[r], p)]]

(* A finalized revision shows the same until it is freed, although it      *)
(* shares its object states with revisions that are changed and freed.     *)
FinalizedFrozen ==
  [][\A r \in live \cap live' : ~is_transient[r] => ~is_transient'[r] /\ View(r)' = View(r)]_vars

(* A call changes at most one revision, the one it was given.              *)
OneRevisionChanges ==
  [][\A r, s \in live \cap live' : View(r)' # View(r) /\ View(s)' # View(s) => r = s]_vars

(* A call that reports an error has changed nothing that can be seen: the  *)
(* allocation failures in the middle of a call are completely undone.      *)
ErrorChangesNothing ==
  [][ret' # "ok" => live' = live /\ \A r \in live : View(r)' = View(r)]_vars

(* A new object never takes the number of one that exists or existed in    *)
(* any revision, so objects can be identified across revisions.            *)
NumbersNeverReused ==
  [][\A r \in live \cap live' : \A ob \in DOMAIN obstates'[r] \ DOMAIN obstates[r] :
        next_object_id' # next_object_id =>
          ob > next_object_id /\ ob <= next_object_id']_vars

(* "Return a list of objects which exist in two revisions but have         *)
(* different type or data" (xorn_get_modified_objects).                    *)
ModifiedObjects(from, to) ==
  {ob \in DOMAIN obstates[from] \cap DOMAIN obstates[to] :
      obstates[from][ob] # obstates[to][ob]}
ModifiedDiffer ==
  \A from, to \in live : \A ob \in ModifiedObjects(from, to) :
    content[obstates[from][ob]] # content[obstates[to][ob]]

(* Running out of memory is reported as xorn_error_out_of_memory: no call  *)
(* lets the exception through to its C caller.                             *)
NeverAborts == ~aborted
=============================================================================
