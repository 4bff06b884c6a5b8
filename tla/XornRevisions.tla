--------------------------- MODULE XornRevisions ---------------------------
(***************************************************************************)
(* What Xorn's storage interface (src/xorn/include/xornstorage.h) promises *)
(* to its users: every revision is a value of its own.  There is no shared *)
(* memory here, no reference count and no partial failure: a call changes  *)
(* one transient revision completely or changes nothing.                   *)
(*                                                                         *)
(* A revision's document is the data of its objects and, for each object   *)
(* and for NULL, the sequence of objects attached to it in drawing order.  *)
(***************************************************************************)
EXTENDS Integers, FiniteSets, SequencesExt

CONSTANTS Revs, MaxId, ObTypes, Data

Null == 0
Objects == 1..MaxId
ObData == [type : ObTypes, data : Data]

VARIABLES live, is_transient, doc, next_object_id
vars == <<live, is_transient, doc, next_object_id>>

EmptyDoc == [data |-> [ob \in {} |-> Null], order |-> [p \in {Null} |-> << >>]]

Init ==
  /\ live = {}
  /\ is_transient = [r \in Revs |-> FALSE]
  /\ doc = [r \in Revs |-> EmptyDoc]
  /\ next_object_id = 0

-----------------------------------------------------------------------------
(* Documents.                                                              *)

ObjectsIn(d) == DOMAIN d.data
Attached(d, p) == ToSet(d.order[p])
WithAttached(d, S) == S \cup UNION {Attached(d, ob) : ob \in S}

\* A text may be attached to anything that takes attachments, nothing else may.
MayBe(d, ob, type) ==
  /\ Attached(d, ob) # {} => type = "net"
  /\ (\E host \in ObjectsIn(d) : ob \in Attached(d, host)) => type = "text"

\* The numbers in S in ascending order.
Ascending(S) ==
  [k \in 1..Cardinality(S) |-> CHOOSE i \in S : Cardinality({j \in S : j < i}) = k - 1]

\* The list without the objects in S.
Left(list, S) ==
  LET kept == Ascending({i \in DOMAIN list : list[i] \notin S})
  IN  [k \in DOMAIN kept |-> list[kept[k]]]

\* ob takes its place in the list, before the object `before` or last.
Placed(list, ob, before) ==
  IF before = Null THEN Append(list, ob)
  ELSE InsertAt(list, CHOOSE i \in DOMAIN list : list[i] = before, ob)

Grown(d, ob, state) ==
  [data |-> [x \in ObjectsIn(d) \cup {ob} |-> IF x = ob THEN state ELSE d.data[x]],
   order |-> [p \in DOMAIN d.order \cup {ob} |->
                IF p = ob THEN << >>
                ELSE IF p = Null THEN Append(d.order[Null], ob)
                ELSE d.order[p]]]

Pruned(d, S) ==
  [data |-> [ob \in ObjectsIn(d) \ S |-> d.data[ob]],
   order |-> [p \in DOMAIN d.order \ S |-> Left(d.order[p], S)]]

\* ob leaves its list and takes its place in that of `to`.
Rearranged(d, ob, to, before) ==
  IF before = ob THEN d
  ELSE [d EXCEPT !.order = [p \in DOMAIN d.order |->
          IF p = to THEN Placed(Left(d.order[p], {ob}), ob, before)
          ELSE Left(d.order[p], {ob})]]

(* d with the copies of objects of s and of what is attached to them: the  *)
(* copy of object ob has number number[ob], and the copies of what is      *)
(* attached to it the numbers that follow.                                 *)
Items(s, S) == UNION {{<<ob, i>> : i \in 0..Len(s.order[ob])} : ob \in S}
WithCopies(d, s, S, number, new) ==
  LET item == [id \in new |-> CHOOSE it \in Items(s, S) : number[it[1]] + it[2] = id]
      original(ob, i) == IF i = 0 THEN ob ELSE s.order[ob][i]
      tops == {number[ob] : ob \in S}
      followers(id) == IF id \in tops THEN Len(s.order[item[id][1]]) ELSE 0
  IN  [data |-> [ob \in ObjectsIn(d) \cup new |->
                   IF ob \in new THEN s.data[original(item[ob][1], item[ob][2])]
                   ELSE d.data[ob]],
       order |-> [p \in DOMAIN d.order \cup new |->
                    IF p \in new THEN [i \in 1..followers(p) |-> p + i]
                    ELSE IF p = Null THEN d.order[Null] \o Ascending(tops)
                    ELSE d.order[p]]]

-----------------------------------------------------------------------------
(* Calls.                                                                  *)

New(r) ==
  /\ r \notin live
  /\ live' = live \cup {r}
  /\ is_transient' = [is_transient EXCEPT ![r] = TRUE]
  /\ \E d \in {EmptyDoc} \cup {doc[from] : from \in live} : doc' = [doc EXCEPT ![r] = d]
  /\ UNCHANGED next_object_id

Finalize(r) ==
  /\ r \in live
  /\ is_transient' = [is_transient EXCEPT ![r] = FALSE]
  /\ UNCHANGED <<live, doc, next_object_id>>

Free(r) ==
  /\ r \in live
  /\ live' = live \ {r}
  /\ is_transient' = [is_transient EXCEPT ![r] = FALSE]
  /\ doc' = [doc EXCEPT ![r] = EmptyDoc]
  /\ UNCHANGED next_object_id

\* A transient revision gets document d, in which the objects numbered up to
\* `last` may be new.
Change(r, d, last) ==
  /\ r \in live /\ is_transient[r]
  /\ doc' = [doc EXCEPT ![r] = d]
  /\ next_object_id' = last
  /\ UNCHANGED <<live, is_transient>>

Add(r, state) ==
  Change(r, Grown(doc[r], next_object_id + 1, state), next_object_id + 1)

Set(r, ob, state) ==
  IF ob \in ObjectsIn(doc[r])
    THEN MayBe(doc[r], ob, state.type)
         /\ Change(r, [doc[r] EXCEPT !.data[ob] = state], next_object_id)
    ELSE Change(r, Grown(doc[r], ob, state), next_object_id)

Move(r, ob, to, before) ==
  /\ ob \in ObjectsIn(doc[r])
  /\ to # Null => /\ to \in ObjectsIn(doc[r])
                  /\ doc[r].data[to].type = "net" /\ doc[r].data[ob].type = "text"
  /\ before # Null => before \in Attached(doc[r], to)
  /\ Change(r, Rearranged(doc[r], ob, to, before), next_object_id)

Delete(r, S) ==
  Change(r, Pruned(doc[r], WithAttached(doc[r], S)), next_object_id)

\* The copies appear at the end of the list of dest in the order they are made;
\* which of the objects is copied first is not said.
Copy(dest, src, S) ==
  LET items == Items(doc[src], S)
      last == next_object_id + Cardinality(items)
      new == next_object_id+1 .. last
  IN  /\ last <= MaxId
      /\ \E number \in [S -> new] :
           /\ {number[it[1]] + it[2] : it \in items} = new
           /\ Change(dest, WithCopies(doc[dest], doc[src], S, number, new), last)

\* A call that runs out of memory may have used up object numbers.
SpendNumbers(last) ==
  next_object_id' = last /\ UNCHANGED <<live, is_transient, doc>>

Next ==
  \/ \E r \in Revs : New(r) \/ Finalize(r) \/ Free(r)
  \/ \E r \in Revs, state \in ObData :
       \/ next_object_id < MaxId /\ Add(r, state)
       \/ \E ob \in 1..next_object_id : Set(r, ob, state)
  \/ \E r \in Revs : \E ob \in ObjectsIn(doc[r]), to, before \in ObjectsIn(doc[r]) \cup {Null} :
       Move(r, ob, to, before)
  \/ \E r \in Revs : \E S \in SUBSET ObjectsIn(doc[r]) : Delete(r, S)
  \/ \E dest \in Revs, src \in live : \E S \in SUBSET ObjectsIn(doc[src]) : Copy(dest, src, S)
  \/ \E last \in next_object_id..MaxId : SpendNumbers(last)

Spec == Init /\ [][Next]_vars
=============================================================================
