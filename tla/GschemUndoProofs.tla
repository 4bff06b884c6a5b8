-------------------------- MODULE GschemUndoProofs --------------------------
(***************************************************************************)
(* Proofs about GschemUndo, for any number of contents and levels.         *)
(***************************************************************************)
EXTENDS UndoRefinement, FiniteSetTheorems, SequenceTheorems, WellFoundedInduction, TLAPS

Full(list, n) == \A i \in 1..n : HasData(list[i])

(* As many records hold a content as there are records, at most.           *)
LEMMA LevelsBounded ==
  ASSUME NEW list \in Seq(Record)
  PROVE  Levels(list) \in 0..Len(list)
<1>1. WithData(list, Len(list)) \subseteq 1..Len(list)
  BY DEF WithData
<1>2. IsFiniteSet(1..Len(list)) /\ Cardinality(1..Len(list)) = Len(list)
  <2>1. Len(list) \in Nat
    OBVIOUS
  <2> HIDE DEF Record
  <2>2. \A n \in Nat : IsFiniteSet(1..n) /\ Cardinality(1..n) = n
    BY FS_Interval
  <2> QED BY <2>1, <2>2
<1> QED BY <1>1, <1>2, FS_Subset, FS_CardinalityType DEF Levels

(* A list whose records all hold contents has as many levels as records.   *)
LEMMA LevelsFull ==
  ASSUME NEW list \in Seq(Record), Full(list, Len(list))
  PROVE  Levels(list) = Len(list)
<1>1. WithData(list, Len(list)) = 1..Len(list)
  BY DEF WithData, Full
<1> QED BY <1>1, FS_Interval DEF Levels

(* l is the list up to position n and rec, with the first k records freed. *)
Kept(l, list, n, rec, index, k) ==
  /\ l \in Seq(Record) /\ Len(l) = n + 1 - k
  /\ \A i \in 1..Len(l) : l[i] = IF k + i = n + 1 THEN rec ELSE list[k + i]
  /\ Full(list, n) /\ HasData(rec) =>
       /\ k > 0 => Len(l) = UndoLevels
       /\ index = 0 /\ k = 0 => n + 1 < UndoLevels + UndoPadding

(* Recording cuts the list behind position n and appends rec; then k       *)
(* records may be freed from the bottom.                                   *)
LEMMA RecordedIs ==
  ASSUME UndoLevels \in Nat \ {0}, NEW list \in Seq(Record), NEW n \in 0..Len(list),
         NEW rec \in Record, NEW index
  PROVE  \E k \in 0..n : Kept(Recorded(list, n, rec, index), list, n, rec, index, k)
<1> DEFINE grown == Append(SubSeq(list, 1, n), rec)
<1>1. /\ grown \in Seq(Record) /\ Len(grown) = n + 1
      /\ \A i \in 1..n + 1 : grown[i] = IF i = n + 1 THEN rec ELSE list[i]
  OBVIOUS
<1> HIDE DEF grown
<1>2. Levels(grown) \in 0..n + 1
  BY <1>1, LevelsBounded
<1>3. Full(list, n) /\ HasData(rec) => Levels(grown) = n + 1
  <2>1. ASSUME Full(list, n), HasData(rec)
        PROVE  Full(grown, Len(grown))
    BY <1>1, <2>1 DEF Full
  <2> QED BY <1>1, <2>1, LevelsFull
<1>4. UndoPadding \in Nat \ {0}
  BY UndoAssumption
<1>5. CASE index = 0 /\ Levels(grown) >= UndoLevels + UndoPadding
  <2>2. PICK k \in 0..n : k = Levels(grown) - UndoLevels
    BY <1>2, <1>4, <1>5
  <2> DEFINE l == SubSeq(grown, k + 1, n + 1)
  <2>1. Recorded(list, n, rec, index) = l
    BY <1>1, <1>5, <2>2 DEF Recorded, Trimmed, grown
  <2>3. /\ l \in Seq(Record) /\ Len(l) = n + 1 - k
        /\ \A i \in 1..Len(l) : l[i] = grown[k + i]
    <3>1. k + 1 \in Int /\ n + 1 \in Int /\ k + 1 >= 1 /\ n + 1 <= Len(grown) /\ k + 1 <= n + 1
      BY <1>1
    <3> DEFINE a == k + 1
               b == n + 1
    <3>2. a \in Int /\ b \in Int /\ a >= 1 /\ b <= Len(grown) /\ a <= b
      BY <3>1
    <3> HIDE DEF a, b
    <3>3. /\ SubSeq(grown, a, b) \in Seq(Record) /\ Len(SubSeq(grown, a, b)) = b - a + 1
          /\ \A i \in 1..b - a + 1 : SubSeq(grown, a, b)[i] = grown[a + i - 1]
      BY <1>1, <3>2
    <3>4. l = SubSeq(grown, a, b) /\ b - a + 1 = n + 1 - k
      BY DEF a, b
    <3>5. \A i \in 1..n + 1 - k : a + i - 1 = k + i
      BY DEF a
    <3> QED BY <3>3, <3>4, <3>5
  <2> HIDE DEF l
  <2>4. \A i \in 1..Len(l) : l[i] = IF k + i = n + 1 THEN rec ELSE list[k + i]
    BY <1>1, <2>3
  <2>5. Full(list, n) /\ HasData(rec) =>
          /\ k > 0 => Len(l) = UndoLevels
          /\ index = 0 /\ k = 0 => n + 1 < UndoLevels + UndoPadding
    <3> SUFFICES ASSUME Full(list, n), HasData(rec)
                 PROVE  Len(l) = UndoLevels /\ k > 0
      BY <1>4
    <3>1. Levels(grown) = n + 1
      BY <1>3
    <3> QED BY <1>4, <1>5, <2>2, <2>3, <3>1
  <2> QED BY <2>1, <2>3, <2>4, <2>5 DEF Kept
<1>6. CASE ~(index = 0 /\ Levels(grown) >= UndoLevels + UndoPadding)
  <2>1. Recorded(list, n, rec, index) = grown
    BY <1>6 DEF Recorded, Trimmed, grown
  <2>2. Full(list, n) /\ HasData(rec) /\ index = 0 =>
          n + 1 < UndoLevels + UndoPadding
    BY <1>2, <1>3, <1>4, <1>6
  <2>3. Kept(grown, list, n, rec, index, 0)
    BY <1>1, <2>2 DEF Kept
  <2> QED BY <2>1, <2>3
<1> QED BY <1>5, <1>6

-----------------------------------------------------------------------------
(* Type correctness.  A closed page has no cursor.                         *)

Typed == TypeOK /\ \A p \in Pages \ open : current[p] = 0

(* Page p got a record behind its cursor, and k were freed.                *)
Appended(p, rec, k) ==
  /\ Len(undo'[p]) = current[p] + 1 - k
  /\ \A i \in 1..Len(undo'[p]) :
       undo'[p][i] = IF k + i = current[p] + 1 THEN rec ELSE undo[p][k + i]
  /\ Full(undo[p], current[p]) /\ HasData(rec) =>
       /\ k > 0 => Len(undo'[p]) = UndoLevels
       /\ undo_file_index' = 0 /\ k = 0 => current[p] + 1 < UndoLevels + UndoPadding

LEMMA StoredType ==
  ASSUME NEW c \in Contents
  PROVE  Stored(c) \subseteq Contents \cup {None, Lost}
BY DEF Stored

(* What saving the state does: a record of the page is appended behind its *)
(* cursor, k records are freed, and the cursor is at the new end.          *)
LEMMA SavedIs ==
  ASSUME Typed, NEW p \in Pages, NEW type \in {"all", "viewport"}, NEW c \in Contents,
         NEW ch \in BOOLEAN, Savestate(p, type, c, ch)
  PROVE  /\ undo' \in [Pages -> Seq(Record)] /\ current' \in [Pages -> Nat]
         /\ undo_file_index' \in 0..CheckEvery - 1
         /\ \A q \in Pages \ {p} : undo'[q] = undo[q] /\ current'[q] = current[q]
         /\ current'[p] = Len(undo'[p]) /\ Len(undo'[p]) >= 1
         /\ missed' \in [Pages -> Nat]
         /\ missed' = Checked(p, undo_file_index', type = "all" /\ Medium = "disk")
         /\ \E d \in IF type = "all" THEN Stored(c) ELSE {None} : \E k \in 0..current[p] :
              Appended(p, [type |-> type, data |-> d, changed |-> ch], k)
<1>1. PICK d \in IF type = "all" THEN Stored(c) ELSE {None} :
        LET rec == [type |-> type, data |-> d, changed |-> ch]
        IN  /\ undo_file_index' = IF type = "all" /\ Medium = "disk"
                                    THEN (undo_file_index + 1) % CheckEvery
                                    ELSE undo_file_index
            /\ undo' = [undo EXCEPT ![p] = Recorded(@, current[p], rec, undo_file_index')]
            /\ current' = [current EXCEPT ![p] = Len(undo'[p])]
            /\ missed' = Checked(p, undo_file_index', type = "all" /\ Medium = "disk")
  BY DEF Savestate
<1> DEFINE rec == [type |-> type, data |-> d, changed |-> ch]
           list == Recorded(undo[p], current[p], rec, undo_file_index')
<1>2. rec \in Record
  <2>1. d \in Contents \cup {None, Lost}
    <3>1. CASE type = "all"
      BY <3>1, StoredType
    <3>2. CASE type # "all"
      BY <3>2
    <3> QED BY <3>1, <3>2
  <2> QED BY <2>1 DEF Record
<1>3. undo[p] \in Seq(Record) /\ current[p] \in 0..Len(undo[p])
  <2>1. undo[p] \in Seq(Record) /\ current[p] \in Nat
    BY DEF Typed, TypeOK
  <2>2. CASE p \in open
    BY <2>1, <2>2 DEF Typed, TypeOK
  <2>3. CASE p \notin open
    <3>1. current[p] = 0
      BY <2>3 DEF Typed
    <3> QED BY <2>1, <3>1
  <2> QED BY <2>2, <2>3
<1>4. UndoLevels \in Nat \ {0}
  BY UndoAssumption DEF Typed, TypeOK, UndoLevels
<1> HIDE DEF rec
<1>5. PICK k \in 0..current[p] : Kept(list, undo[p], current[p], rec, undo_file_index', k)
  BY <1>2, <1>3, <1>4, RecordedIs
<1>6. undo' = [undo EXCEPT ![p] = list] /\ current' = [current EXCEPT ![p] = Len(undo'[p])]
  BY <1>1 DEF rec
<1> HIDE DEF list
<1>7. /\ undo' \in [Pages -> Seq(Record)] /\ undo'[p] = list
      /\ \A q \in Pages \ {p} : undo'[q] = undo[q]
  BY <1>5, <1>6 DEF Typed, TypeOK, Kept
<1>8. Len(list) \in Nat /\ Len(list) >= 1
  BY <1>3, <1>5 DEF Kept
<1>9. /\ current' \in [Pages -> Nat] /\ current'[p] = Len(list)
      /\ \A q \in Pages \ {p} : current'[q] = current[q]
  BY <1>6, <1>7, <1>8 DEF Typed, TypeOK
<1>10. undo_file_index' \in 0..CheckEvery - 1
  <2>1. undo_file_index \in 0..CheckEvery - 1 /\ CheckEvery \in Nat \ {0}
    BY UndoAssumption DEF Typed, TypeOK
  <2>2. (undo_file_index + 1) % CheckEvery \in 0..CheckEvery - 1
    BY <2>1
  <2> QED BY <1>1, <2>1, <2>2
<1>11. Appended(p, rec, k)
  BY <1>5, <1>7 DEF Appended, Kept
<1>12. missed' = Checked(p, undo_file_index', type = "all" /\ Medium = "disk")
  BY <1>1
<1>13. missed' \in [Pages -> Nat]
  BY <1>12 DEF Checked, Typed, TypeOK
<1> QED BY <1>7, <1>8, <1>9, <1>10, <1>11, <1>12, <1>13 DEF rec

(* A page that was opened or edited has its cursor at the end.             *)
LEMMA SavedTyped ==
  ASSUME Typed, NEW p \in Pages, NEW type \in {"all", "viewport"}, NEW c \in Contents,
         NEW ch \in BOOLEAN, Savestate(p, type, c, ch),
         open' = open \cup {p}, rc' = rc, disk' = disk,
         content' \in [Pages -> Contents], changed' \in [Pages -> BOOLEAN]
  PROVE  Typed'
<1>1. /\ undo' \in [Pages -> Seq(Record)] /\ current' \in [Pages -> Nat]
      /\ undo_file_index' \in 0..CheckEvery - 1
      /\ \A q \in Pages \ {p} : undo'[q] = undo[q] /\ current'[q] = current[q]
      /\ current'[p] = Len(undo'[p]) /\ Len(undo'[p]) >= 1
      /\ missed' \in [Pages -> Nat]
  BY SavedIs
<1>2. current'[p] \in 1..Len(undo'[p])
  BY <1>1
<1>3. \A q \in open' : current'[q] \in 1..Len(undo'[q])
  BY <1>1, <1>2 DEF Typed, TypeOK
<1> QED BY <1>1, <1>3 DEF Typed, TypeOK

(* The latest content before a record is one of them.                      *)
LEMMA LatestIs ==
  ASSUME NEW list, NEW n \in Nat, NEW i \in 1..n, HasData(list[i]),
         \A j \in 1..n : HasData(list[j]) => j <= i
  PROVE  LatestData(list, n) = list[i].data
<1>1. i \in WithData(list, n) /\ \A j \in WithData(list, n) : j <= i
  BY DEF WithData
<1>2. \A m \in WithData(list, n) : (\A j \in WithData(list, n) : j <= m) => m = i
  BY <1>1 DEF WithData
<1>3. (CHOOSE m \in WithData(list, n) : \A j \in WithData(list, n) : j <= m) = i
  BY <1>1, <1>2
<1>4. WithData(list, n) # {}
  BY <1>1
<1> QED BY <1>3, <1>4 DEF LatestData

\* A set of positions that is not empty has a last one.
LEMMA LastPosition ==
  ASSUME NEW n \in Nat, NEW S \in SUBSET (1..n), S # {}
  PROVE  \E i \in S : \A j \in S : j <= i
<1> DEFINE T == {n - i : i \in S}
<1>1. T \subseteq Nat /\ T # {}
  <2>1. \A i \in S : n - i \in Nat
    OBVIOUS
  <2> QED BY <2>1
<1> DEFINE R == OpToRel(<, Nat)
<1>2. IsWellFoundedOn(R, Nat)
  BY NatLessThanWellFounded, Zenon
<1>3. \A a, b \in Nat : a < b => <<a, b>> \in R
  BY SMT DEF OpToRel
<1> HIDE DEF R, T
<1>4. PICK x \in T : \A y \in T : ~ (<<y, x>> \in R)
  BY <1>1, <1>2, WFMin
<1>5. \A y \in T : x <= y
  <2> SUFFICES ASSUME NEW y \in T PROVE x <= y
    OBVIOUS
  <2>1. x \in Nat /\ y \in Nat /\ ~ (<<y, x>> \in R)
    BY <1>1, <1>4
  <2>2. ~ (y < x)
    BY <1>3, <2>1
  <2> QED BY <2>1, <2>2
<1>6. PICK i \in S : x = n - i
  BY <1>4 DEF T
<1>7. \A j \in S : n - i <= n - j
  BY <1>5, <1>6 DEF T
<1>8. \A j \in S : j <= i
  BY <1>7
<1> QED BY <1>8

LEMMA LatestType ==
  ASSUME NEW list \in Seq(Record), NEW n \in 0..Len(list)
  PROVE  LatestData(list, n) \in Contents \cup {None, Lost}
<1>1. CASE WithData(list, n) = {}
  BY <1>1 DEF LatestData
<1>2. CASE WithData(list, n) # {}
  <2>1. WithData(list, n) \in SUBSET (1..n)
    BY DEF WithData
  <2>2. PICK i \in WithData(list, n) : \A j \in WithData(list, n) : j <= i
    <3> n \in Nat
      OBVIOUS
    <3> HIDE DEF WithData
    <3> QED BY <1>2, <2>1, LastPosition
  <2>3. i \in 1..n /\ HasData(list[i]) /\ \A j \in 1..n : HasData(list[j]) => j <= i
    BY <2>2 DEF WithData
  <2>4. LatestData(list, n) = list[i].data
    BY <2>3, LatestIs
  <2>5. list[i] \in Record
    BY <2>3
  <2> QED BY <2>4, <2>5 DEF Record
<1> QED BY <1>1, <1>2

LEMMA TypedStep ==
  ASSUME Typed, NEW p \in Pages,
         \/ OpenPage(p) \/ \E c \in Contents : Edit(p, c)
         \/ Look(p) \/ SavePage(p) \/ ClosePage(p) \/ Undo(p) \/ Redo(p)
  PROVE  Typed'
<1>1. CASE OpenPage(p)
  <2>1. disk[p] \in Contents /\ content' \in [Pages -> Contents]
        /\ changed' \in [Pages -> BOOLEAN]
    BY <1>1 DEF OpenPage, Typed, TypeOK
  <2> QED BY <1>1, <2>1, SavedTyped DEF OpenPage
<1>2. ASSUME NEW c \in Contents, Edit(p, c) PROVE Typed'
  <2>1. /\ content' \in [Pages -> Contents] /\ changed' \in [Pages -> BOOLEAN]
        /\ open' = open \cup {p}
    BY <1>2 DEF Edit, Typed, TypeOK
  <2> QED BY <1>2, <2>1, SavedTyped DEF Edit
<1>3. CASE Look(p)
  <2>1. /\ content' \in [Pages -> Contents] /\ changed' \in [Pages -> BOOLEAN]
        /\ open' = open \cup {p} /\ content[p] \in Contents /\ changed[p] \in BOOLEAN
    BY <1>3 DEF Look, Typed, TypeOK
  <2> QED BY <1>3, <2>1, SavedTyped DEF Look
<1>4. CASE SavePage(p)
  BY <1>4 DEF SavePage, Typed, TypeOK
<1>5. CASE ClosePage(p)
  <2>1. << >> \in Seq(Record) /\ Empty \in Contents
    BY UndoAssumption
  <2> QED BY <1>5, <2>1 DEF ClosePage, Typed, TypeOK
<1>6. ASSUME NEW to, MoveTo(p, to) PROVE Typed'
  <2>1. undo[p] \in Seq(Record) /\ to \in 1..Len(undo[p])
    BY <1>6 DEF MoveTo, Typed, TypeOK
  <2>2. \A i \in 1..Len(undo[p]) : undo[p][i] \in Record
    BY <2>1
  <2>3. Source(p, to) \in Contents \cup {None, Lost}
    <3>1. LatestData(undo[p], to - 1) \in Contents \cup {None, Lost}
      BY <2>1, LatestType
    <3>2. undo[p][to].data \in Contents \cup {None, Lost}
      BY <2>1, <2>2 DEF Record
    <3> QED BY <3>1, <3>2 DEF Source
  <2>4. content' \in [Pages -> Contents]
    BY <1>6, <2>3, UndoAssumption DEF MoveTo, Typed, TypeOK
  <2>5. changed' \in [Pages -> BOOLEAN]
    BY <1>6, <2>1, <2>2 DEF MoveTo, Typed, TypeOK, Record
  <2>6. /\ current' \in [Pages -> Nat] /\ current'[p] = to
        /\ \A q \in Pages \ {p} : current'[q] = current[q]
    BY <1>6, <2>1 DEF MoveTo, Typed, TypeOK
  <2> QED BY <1>6, <2>1, <2>4, <2>5, <2>6 DEF MoveTo, Typed, TypeOK
<1> QED BY <1>1, <1>2, <1>3, <1>4, <1>5, <1>6 DEF Undo, Redo

\* The types are invariant, with the cursors of the closed pages.
LEMMA AlwaysTyped == Spec => []Typed
<1>1. Init => Typed
  <2> SUFFICES ASSUME Init PROVE Typed
    OBVIOUS
  <2>1. << >> \in Seq(Record) /\ Empty \in Contents /\ 0 \in 0..CheckEvery - 1
    BY UndoAssumption
  <2>2. undo \in [Pages -> Seq(Record)] /\ current \in [Pages -> Nat]
    BY <2>1 DEF Init
  <2> QED BY <2>1, <2>2 DEF Init, Typed, TypeOK
<1>2. Typed /\ [Next]_vars => Typed'
  <2> SUFFICES ASSUME Typed, [Next]_vars PROVE Typed'
    OBVIOUS
  <2>1. CASE Next
    BY <2>1, TypedStep DEF Next
  <2>2. CASE UNCHANGED vars
    BY <2>2 DEF vars, Typed, TypeOK
  <2> QED BY <2>1, <2>2
<1> QED BY <1>1, <1>2, PTL DEF Spec

(* After any operations on any pages the lists, the cursors and the number *)
(* of undo files have their types, and an open page has a current record.  *)
THEOREM StateTyped == Spec => []TypeOK
<1>1. Typed => TypeOK
  BY DEF Typed
<1> QED BY <1>1, AlwaysTyped, PTL

-----------------------------------------------------------------------------
(* The default settings: the contents are kept in files, and panning and   *)
(* zooming are not recorded.  Then every record holds a content.           *)

Plain == Medium = "disk" /\ \A s \in Settings : ~ s.undo_panzoom

Whole ==
  \A p \in open : \A i \in 1..Len(undo[p]) :
    /\ undo[p][i].type = "all" /\ undo[p][i].data # None
    /\ DiskFull \/ undo[p][i].data # Lost

Shown == DiskFull \/ \A p \in open : undo[p][current[p]].data = content[p]

(* Between two checks a list grows with the number of undo files, but not  *)
(* when a record of another page brings that to a multiple.                *)
Most(p) == UndoLevels + UndoPadding - 1 + (CheckEvery - 1) * missed[p] + undo_file_index
Short == \A p \in open : Len(undo[p]) <= Most(p)

Sound == Typed /\ Whole /\ Shown /\ Short

\* A product of natural numbers is one.
LEMMA Product == ASSUME NEW a \in Nat, NEW b \in Nat PROVE a * b \in Nat
OBVIOUS

\* Counting modulo CheckEvery either goes on or starts again.
LEMMA Counting ==
  ASSUME NEW n \in Nat, NEW i \in Nat, i < n
  PROVE  (i + 1) % n = IF i + 1 = n THEN 0 ELSE i + 1
OBVIOUS

(* Recording content c on a page keeps all of this.                        *)
LEMMA SoundSave ==
  ASSUME Plain, Sound, NEW p \in Pages, NEW c \in Contents,
         NEW ch \in BOOLEAN, Savestate(p, "all", c, ch),
         open' = open \cup {p}, rc' = rc, disk' = disk, content' = [content EXCEPT ![p] = c],
         changed' = [changed EXCEPT ![p] = ch]
  PROVE  Sound'
<1>1. content' \in [Pages -> Contents] /\ changed' \in [Pages -> BOOLEAN]
  BY DEF Sound, Typed, TypeOK
<1>2. Typed'
  BY <1>1, SavedTyped DEF Sound
<1>3. /\ undo' \in [Pages -> Seq(Record)] /\ current' \in [Pages -> Nat]
      /\ \A q \in Pages \ {p} : undo'[q] = undo[q] /\ current'[q] = current[q]
      /\ current'[p] = Len(undo'[p]) /\ Len(undo'[p]) >= 1
  BY SavedIs DEF Sound
<1>4. PICK d \in Stored(c) : \E k \in 0..current[p] :
        Appended(p, [type |-> "all", data |-> d, changed |-> ch], k)
  <2>1. \E d \in IF "all" = "all" THEN Stored(c) ELSE {None} : \E k \in 0..current[p] :
          Appended(p, [type |-> "all", data |-> d, changed |-> ch], k)
    BY SavedIs DEF Sound
  <2> QED BY <2>1
<1> DEFINE rec == [type |-> "all", data |-> d, changed |-> ch]
<1>5. PICK k \in 0..current[p] : Appended(p, rec, k)
  BY <1>4
<1>6. /\ d # None /\ (DiskFull \/ d = c) /\ (DiskFull \/ d # Lost)
      /\ rec.type = "all" /\ rec.data = d
  BY UndoAssumption DEF Plain, Stored, None, Lost
<1> HIDE DEF rec
<1>7. current[p] \in 0..Len(undo[p]) /\ (p \notin open => current[p] = 0)
      /\ undo[p] \in Seq(Record) /\ undo_file_index \in 0..CheckEvery - 1
      /\ \A q \in open : q \in Pages
  BY DEF Sound, Typed, TypeOK
<1>8. \A i \in 1..current[p] :
        /\ undo[p][i].type = "all" /\ undo[p][i].data # None
        /\ DiskFull \/ undo[p][i].data # Lost
  BY <1>7 DEF Sound, Whole
<1>9. /\ Len(undo'[p]) = current[p] + 1 - k
      /\ \A i \in 1..Len(undo'[p]) :
           undo'[p][i] = IF k + i = current[p] + 1 THEN rec ELSE undo[p][k + i]
  BY <1>5 DEF Appended
<1>10. Whole'
  <2> SUFFICES ASSUME NEW q \in open', NEW i \in 1..Len(undo'[q])
               PROVE  /\ undo'[q][i].type = "all" /\ undo'[q][i].data # None
                      /\ DiskFull \/ undo'[q][i].data # Lost
    BY DEF Whole
  <2>1. CASE q # p
    BY <1>3, <1>7, <2>1 DEF Sound, Whole
  <2>2. CASE q = p
    <3>1. CASE k + i = current[p] + 1
      BY <1>6, <1>9, <2>2, <3>1
    <3>2. CASE k + i # current[p] + 1
      <4>1. k + i \in 1..current[p] /\ undo'[p][i] = undo[p][k + i]
        <5>1. i \in 1..current[p] + 1 - k
          BY <1>9, <2>2
        <5>2. k + i \in 1..current[p]
          BY <1>7, <3>2, <5>1, SMTT(30)
        <5> QED BY <1>9, <2>2, <3>2, <5>2
      <4> QED BY <1>8, <2>2, <4>1
    <3> QED BY <3>1, <3>2
  <2> QED BY <2>1, <2>2
<1>11. Shown'
  <2> SUFFICES ASSUME ~ DiskFull, NEW q \in open'
               PROVE  undo'[q][current'[q]].data = content'[q]
    BY DEF Shown
  <2>1. CASE q # p
    BY <1>3, <1>7, <2>1 DEF Sound, Shown, Typed, TypeOK
  <2>2. CASE q = p
    <3>1. undo'[p][current'[p]] = rec
      BY <1>3, <1>7, <1>9
    <3> QED BY <1>6, <2>2, <3>1 DEF Sound, Typed, TypeOK
  <2> QED BY <2>1, <2>2
<1>12. UndoLevels \in Nat \ {0} /\ UndoPadding \in Nat \ {0} /\ CheckEvery \in Nat \ {0}
       /\ UndoLevels' = UndoLevels /\ missed \in [Pages -> Nat]
  BY UndoAssumption DEF UndoLevels, Sound, Typed, TypeOK
<1>13. undo_file_index' = IF undo_file_index + 1 = CheckEvery THEN 0 ELSE undo_file_index + 1
  <2>1. undo_file_index' = (undo_file_index + 1) % CheckEvery
    BY DEF Savestate, Plain
  <2>2. CheckEvery \in Nat /\ undo_file_index \in Nat /\ undo_file_index < CheckEvery
    BY <1>7, <1>12
  <2> QED BY <2>1, <2>2, Counting
<1>14. missed' \in [Pages -> Nat] /\ missed' = Checked(p, undo_file_index', TRUE)
  BY SavedIs DEF Sound, Plain
<1>15. ASSUME NEW q \in open, q # p PROVE Len(undo'[q]) <= Most(q)'
  <2>1. undo'[q] = undo[q] /\ q \in Pages /\ missed[q] \in Nat /\ undo_file_index \in Nat
    BY <1>3, <1>7, <1>12, <1>15
  <2>2. Len(undo[q]) <= Most(q) /\ Len(undo[q]) \in Nat
    BY <1>7, <1>15, <2>1 DEF Sound, Short, Typed, TypeOK
  <2>3. CASE undo_file_index' = 0
    <3>1. missed'[q] = missed[q] + 1 /\ undo_file_index = CheckEvery - 1
      BY <1>7, <1>12, <1>13, <1>14, <1>15, <2>1, <2>3 DEF Checked
    <3> DEFINE m == (CheckEvery - 1) * missed[q]
    <3>2. m \in Nat /\ (CheckEvery - 1) * (missed[q] + 1) = m + (CheckEvery - 1)
      BY <1>12, <2>1
    <3>3. /\ Most(q) = UndoLevels + UndoPadding - 1 + m + undo_file_index
          /\ Most(q)' = UndoLevels + UndoPadding - 1 + (m + (CheckEvery - 1)) + 0
      BY <1>12, <2>3, <3>1, <3>2 DEF Most
    <3> HIDE DEF m
    <3> QED BY <1>12, <2>1, <2>2, <3>1, <3>2, <3>3
  <2>4. CASE undo_file_index' # 0
    <3>1. missed'[q] = missed[q] /\ undo_file_index' = undo_file_index + 1
      BY <1>7, <1>13, <1>14, <2>1, <2>4 DEF Checked
    <3> DEFINE m == (CheckEvery - 1) * missed[q]
    <3>2. m \in Nat
      BY <1>12, <2>1
    <3>3. /\ Most(q) = UndoLevels + UndoPadding - 1 + m + undo_file_index
          /\ Most(q)' = UndoLevels + UndoPadding - 1 + m + (undo_file_index + 1)
      BY <1>12, <3>1 DEF Most
    <3> HIDE DEF m
    <3> QED BY <1>12, <2>1, <2>2, <3>2, <3>3
  <2> QED BY <2>3, <2>4
<1>16. Len(undo'[p]) <= Most(p)'
  <2>1. Full(undo[p], current[p]) /\ HasData(rec)
    BY <1>6, <1>8 DEF Full, HasData
  <2>2. /\ k > 0 => Len(undo'[p]) = UndoLevels
        /\ undo_file_index' = 0 /\ k = 0 => current[p] + 1 < UndoLevels + UndoPadding
    BY <1>5, <2>1 DEF Appended
  <2>3. k \in 0..current[p] /\ current[p] \in Nat /\ undo_file_index \in Nat
        /\ Len(undo'[p]) = current[p] + 1 - k /\ undo_file_index' \in Nat
    BY <1>7, <1>9, <1>12, <1>13
  <2> DEFINE m == (CheckEvery - 1) * missed'[p]
  <2>4. m \in Nat
    <3>1. CheckEvery - 1 \in Nat
      BY <1>12
    <3>2. missed'[p] \in Nat
      BY <1>14
    <3> QED BY <3>1, <3>2, Product
  <2>5. Most(p)' = UndoLevels + UndoPadding - 1 + m + undo_file_index'
    BY <1>12 DEF Most
  <2>6. CASE undo_file_index' = 0 \/ k > 0
    <3> HIDE DEF m
    <3> QED BY <1>12, <2>2, <2>3, <2>4, <2>5, <2>6
  <2>7. CASE undo_file_index' # 0
    <3>1. undo_file_index' = undo_file_index + 1 /\ missed'[p] = missed[p]
      BY <1>7, <1>13, <1>14, <2>7 DEF Checked
    <3>2. current[p] <= UndoLevels + UndoPadding - 1 + m + undo_file_index
      <4>1. CASE p \in open
        <5>1. Len(undo[p]) <= UndoLevels + UndoPadding - 1 + m + undo_file_index
          BY <3>1, <4>1 DEF Sound, Short, Most
        <5> HIDE DEF m
        <5> QED BY <1>7, <1>12, <2>3, <2>4, <5>1
      <4>2. CASE p \notin open
        <5> HIDE DEF m
        <5> QED BY <1>7, <1>12, <2>3, <2>4, <4>2
      <4> QED BY <4>1, <4>2
    <3> HIDE DEF m
    <3> QED BY <1>12, <2>3, <2>4, <2>5, <3>1, <3>2
  <2> QED BY <2>6, <2>7
<1>17. Short'
  BY <1>15, <1>16 DEF Short
<1> QED BY <1>2, <1>10, <1>11, <1>17 DEF Sound

LEMMA SoundStep ==
  ASSUME Plain, Sound, NEW p \in Pages,
         \/ OpenPage(p) \/ \E c \in Contents : Edit(p, c)
         \/ Look(p) \/ SavePage(p) \/ ClosePage(p) \/ Undo(p) \/ Redo(p)
  PROVE  Sound'
<1>0. Typed'
  BY TypedStep DEF Sound
<1>1. CASE OpenPage(p)
  <2>1. disk[p] \in Contents
    BY DEF Sound, Typed, TypeOK
  <2> QED BY <1>1, <2>1, SoundSave DEF OpenPage
<1>2. ASSUME NEW c \in Contents, Edit(p, c) PROVE Sound'
  <2>1. open' = open \cup {p}
    BY <1>2 DEF Edit
  <2> QED BY <1>2, <2>1, SoundSave DEF Edit
<1>3. CASE Look(p)
  BY <1>3 DEF Look, Plain, Sound, Typed, TypeOK
<1>4. CASE SavePage(p)
  BY <1>0, <1>4 DEF SavePage, Sound, Whole, Shown, Short, Most, UndoLevels
<1>5. CASE ClosePage(p)
  <2>1. \A q \in open' :
          /\ q \in open /\ q # p
          /\ undo'[q] = undo[q] /\ current'[q] = current[q] /\ content'[q] = content[q]
    BY <1>5 DEF ClosePage, Sound, Typed, TypeOK
  <2>2. Whole' /\ Shown'
    BY <2>1 DEF Sound, Whole, Shown
  <2>3. Short'
    <3>1. \A q \in open' : Most(q)' = Most(q)
      BY <1>5, <2>1 DEF ClosePage, Most, UndoLevels, Sound, Typed, TypeOK
    <3> QED BY <2>1, <3>1 DEF Sound, Short
  <2> QED BY <1>0, <2>2, <2>3 DEF Sound
<1>6. ASSUME NEW to, MoveTo(p, to), Typed' PROVE Sound'
  <2>1. p \in open /\ to \in 1..Len(undo[p]) /\ undo' = undo /\ open' = open
        /\ rc' = rc /\ undo_file_index' = undo_file_index /\ missed' = missed
    BY <1>6 DEF MoveTo
  <2>2. Source(p, to) = undo[p][to].data
    BY <2>1 DEF Source, Sound, Whole
  <2>3. Whole' /\ Short'
    BY <2>1 DEF Sound, Whole, Short, Most, UndoLevels
  <2>4. Shown'
    <3> SUFFICES ASSUME ~ DiskFull, NEW q \in open
                 PROVE  undo[q][current'[q]].data = content'[q]
      BY <2>1 DEF Shown
    <3>1. CASE q # p
      BY <1>6, <3>1 DEF MoveTo, Sound, Shown, Typed, TypeOK
    <3>2. CASE q = p
      <4>1. undo[p][to].data # None /\ undo[p][to].data # Lost
        BY <2>1 DEF Sound, Whole
      <4>2. content'[p] = undo[p][to].data /\ current'[p] = to
        BY <1>6, <2>2, <4>1 DEF MoveTo, Sound, Typed, TypeOK
      <4> QED BY <3>2, <4>2
    <3> QED BY <3>1, <3>2
  <2> QED BY <1>6, <2>3, <2>4 DEF Sound
<1> QED BY <1>0, <1>1, <1>2, <1>3, <1>4, <1>5, <1>6 DEF Undo, Redo

\* With the default settings every record holds what its cursor showed.
LEMMA AlwaysSound == ASSUME Plain PROVE Spec => []Sound
<1>1. Init => Sound
  <2> SUFFICES ASSUME Init PROVE Sound
    OBVIOUS
  <2>1. << >> \in Seq(Record) /\ Empty \in Contents /\ 0 \in 0..CheckEvery - 1
    BY UndoAssumption
  <2>2. undo \in [Pages -> Seq(Record)] /\ current \in [Pages -> Nat]
    BY <2>1 DEF Init
  <2>3. Typed
    BY <2>1, <2>2 DEF Init, Typed, TypeOK
  <2> QED BY <2>3 DEF Init, Sound, Whole, Shown, Short
<1>2. Sound /\ [Next]_vars => Sound'
  <2> SUFFICES ASSUME Sound, [Next]_vars PROVE Sound'
    OBVIOUS
  <2>1. CASE Next
    BY <2>1, SoundStep DEF Next
  <2>2. CASE UNCHANGED vars
    BY <2>2 DEF vars, Sound, Typed, TypeOK, Whole, Shown, Short, Most, UndoLevels
  <2> QED BY <2>1, <2>2
<1> QED BY <1>1, <1>2, PTL DEF Spec

(* While the undo files can be written, the page shows what its cursor     *)
(* points at, after any number of operations, undos and redos.             *)
THEOREM CursorIsRight ==
  ASSUME Plain, ~ DiskFull PROVE Spec => []CursorShowsContent
<1>1. Sound => CursorShowsContent
  <2> SUFFICES ASSUME Sound, NEW p \in open
               PROVE  LatestData(undo[p], current[p]) = content[p]
    BY DEF CursorShowsContent
  <2>1. undo[p] \in Seq(Record) /\ current[p] \in 1..Len(undo[p])
    BY DEF Sound, Typed, TypeOK
  <2>2. HasData(undo[p][current[p]])
    BY <2>1 DEF Sound, Whole, HasData
  <2>3. LatestData(undo[p], current[p]) = undo[p][current[p]].data
    <3>1. current[p] \in Nat /\ current[p] \in 1..current[p]
      BY <2>1
    <3>2. \A j \in 1..current[p] : j <= current[p]
      BY <2>1
    <3> QED BY <2>2, <3>1, <3>2, LatestIs
  <2> QED BY <2>3 DEF Sound, Shown
<1> QED BY <1>1, AlwaysSound, PTL

(* For any number of pages that share the counter: a page keeps no more    *)
(* contents than the limit, the padding, and what may be recorded between  *)
(* two checks, once more for each check that other pages took from it      *)
(* (o_undo_savestate).                                                     *)
THEOREM HistoryLimited == ASSUME Plain PROVE Spec => []HistoryBounded
<1>1. Sound => HistoryBounded
  <2> SUFFICES ASSUME Sound, NEW p \in open
               PROVE  Levels(undo[p]) <= UndoLevels + UndoPadding - 1 + (CheckEvery - 1) * (missed[p] + 1)
    BY DEF HistoryBounded
  <2>1. p \in Pages /\ undo[p] \in Seq(Record) /\ undo_file_index \in 0..CheckEvery - 1
        /\ missed[p] \in Nat
    BY DEF Sound, Typed, TypeOK
  <2>2. UndoLevels \in Nat \ {0} /\ UndoPadding \in Nat \ {0} /\ CheckEvery \in Nat \ {0}
    BY UndoAssumption DEF UndoLevels, Sound, Typed, TypeOK
  <2>3. Levels(undo[p]) \in 0..Len(undo[p]) /\ Len(undo[p]) \in Nat
    BY <2>1, LevelsBounded
  <2> DEFINE m == (CheckEvery - 1) * missed[p]
  <2>4. m \in Nat /\ (CheckEvery - 1) * (missed[p] + 1) = m + (CheckEvery - 1)
    BY <2>1, <2>2
  <2>5. Len(undo[p]) <= UndoLevels + UndoPadding - 1 + m + undo_file_index
    BY DEF Sound, Short, Most
  <2> HIDE DEF m
  <2> QED BY <2>1, <2>2, <2>3, <2>4, <2>5
<1> QED BY <1>1, AlwaysSound, PTL

-----------------------------------------------------------------------------
(* Undo implements the history of UndoHistory.                             *)

Data == Contents \cup {None, Lost}

\* The data of the records from one position to another.
Datas(list, from, to) == [k \in 1..to - from + 1 |-> list[from + k - 1].data]

LEMMA DatasIs ==
  ASSUME NEW list \in Seq(Record), NEW from \in 1..Len(list) + 1, NEW to \in from - 1..Len(list)
  PROVE  /\ Datas(list, from, to) \in Seq(Data)
         /\ Len(Datas(list, from, to)) = to - from + 1
         /\ \A k \in 1..to - from + 1 : Datas(list, from, to)[k] = list[from + k - 1].data
<1> DEFINE n == to - from + 1
<1>1. n \in Nat /\ from \in Nat /\ to \in Nat
  OBVIOUS
<1>2. \A k \in 1..n : list[from + k - 1].data \in Data
  <2> SUFFICES ASSUME NEW k \in 1..n PROVE list[from + k - 1].data \in Data
    OBVIOUS
  <2>1. from + k - 1 \in 1..Len(list)
    OBVIOUS
  <2>2. list[from + k - 1] \in Record
    BY <2>1
  <2> QED BY <2>2 DEF Record, Data
<1>3. Datas(list, from, to) \in [1..n -> Data]
  BY <1>2 DEF Datas
<1> HIDE DEF n
<1>4. Datas(list, from, to) \in Seq(Data) /\ Len(Datas(list, from, to)) = n
  BY <1>1, <1>3
<1> QED BY <1>4 DEF Datas, n

(* Where every record holds a content, what a part of the list holds are   *)
(* the data of its records.                                                *)
LEMMA HeldIs ==
  ASSUME NEW list \in Seq(Record), Full(list, Len(list)),
         NEW from \in 1..Len(list) + 1, NEW to \in from - 1..Len(list)
  PROVE  Held(list, from, to) = Datas(list, from, to)
<1> DEFINE at == {i \in from..to : HasData(list[i])}
           nth(k) == CHOOSE i \in at : Cardinality({j \in at : j < i}) = k - 1
<1>1. at = from..to
  BY DEF Full
<1> HIDE DEF Full
<1>2. Cardinality(at) = to - from + 1
  <2>1. from \in Int /\ to \in Int /\ from <= to + 1
    OBVIOUS
  <2>2. Cardinality(from..to) = IF from > to THEN 0 ELSE to - from + 1
    BY <2>1, FS_Interval
  <2> HIDE DEF at
  <2> QED BY <1>1, <2>1, <2>2
<1>3. \A i \in at : Cardinality({j \in at : j < i}) = i - from
  <2> SUFFICES ASSUME NEW i \in from..to
               PROVE  Cardinality({j \in from..to : j < i}) = i - from
    BY <1>1
  <2>1. {j \in from..to : j < i} = from..i - 1 /\ from \in Int /\ i - 1 \in Int /\ from <= i
    OBVIOUS
  <2>2. Cardinality(from..i - 1) = IF from > i - 1 THEN 0 ELSE i - 1 - from + 1
    <3> DEFINE m == i - 1
    <3>1. from \in Int /\ m \in Int
      BY <2>1
    <3> HIDE DEF m
    <3>2. Cardinality(from..m) = IF from > m THEN 0 ELSE m - from + 1
      BY <3>1, FS_Interval
    <3> QED BY <3>2 DEF m
  <2>3. Cardinality({j \in from..to : j < i}) = Cardinality(from..i - 1)
    BY <2>1
  <2>4. Cardinality(from..i - 1) = i - from
    <3>1. i \in Int /\ from \in Int /\ from <= i
      OBVIOUS
    <3> QED BY <2>2, <3>1
  <2> QED BY <2>3, <2>4
<1>4. \A k \in 1..to - from + 1 : nth(k) = from + k - 1
  <2> SUFFICES ASSUME NEW k \in 1..to - from + 1
               PROVE  nth(k) = from + k - 1
    OBVIOUS
  <2>1. from + k - 1 \in at
    BY <1>1
  <2>2. \A i \in at : i \in Int /\ (Cardinality({j \in at : j < i}) = k - 1 <=> i - from = k - 1)
    BY <1>1, <1>3
  <2>3. \A i \in at : Cardinality({j \in at : j < i}) = k - 1 <=> i = from + k - 1
    BY <2>2
  <2> HIDE DEF at
  <2> QED BY <2>1, <2>3
<1>5. Held(list, from, to) = [k \in 1..Cardinality(at) |-> list[nth(k)].data]
  BY DEF Held
<1> HIDE DEF at, nth
<1> QED BY <1>2, <1>4, <1>5 DEF Datas

(* The data of the first n records.                                        *)
LEMMA FirstDatasAre ==
  ASSUME NEW list \in Seq(Record), NEW n \in 0..Len(list), Full(list, Len(list))
  PROVE  /\ Datas(list, 1, n) \in Seq(Data) /\ Len(Datas(list, 1, n)) = n
         /\ \A k \in 1..n : Datas(list, 1, n)[k] = list[k].data
<1>1. 1 \in 1..Len(list) + 1 /\ n \in 1 - 1..Len(list) /\ n \in Nat
  OBVIOUS
<1>2. /\ Datas(list, 1, n) \in Seq(Data) /\ Len(Datas(list, 1, n)) = n - 1 + 1
      /\ \A k \in 1..n - 1 + 1 : Datas(list, 1, n)[k] = list[1 + k - 1].data
  BY <1>1, DatasIs
<1>3. n - 1 + 1 = n /\ \A k \in 1..n : 1 + k - 1 = k
  BY <1>1
<1> QED BY <1>2, <1>3

(* The past and the future of a list with its cursor at n.                 *)
LEMMA PastIs ==
  ASSUME NEW list \in Seq(Record), NEW n \in 1..Len(list), Full(list, Len(list))
  PROVE  SubSeq(Held(list, 1, n), 1, Len(Held(list, 1, n)) - 1) = Datas(list, 1, n - 1)
<1>1. Held(list, 1, n) = Datas(list, 1, n)
  BY HeldIs
<1>2. /\ Datas(list, 1, n) \in Seq(Data) /\ Len(Datas(list, 1, n)) = n
      /\ \A k \in 1..n : Datas(list, 1, n)[k] = list[k].data
  BY FirstDatasAre
<1>3. /\ Datas(list, 1, n - 1) \in Seq(Data) /\ Len(Datas(list, 1, n - 1)) = n - 1
      /\ \A k \in 1..n - 1 : Datas(list, 1, n - 1)[k] = list[k].data
  <2>1. n - 1 \in 0..Len(list)
    OBVIOUS
  <2> DEFINE m == n - 1
  <2> HIDE DEF m
  <2>2. /\ Datas(list, 1, m) \in Seq(Data) /\ Len(Datas(list, 1, m)) = m
        /\ \A k \in 1..m : Datas(list, 1, m)[k] = list[k].data
    BY <2>1, FirstDatasAre DEF m
  <2> QED BY <2>2 DEF m
<1> DEFINE s == Datas(list, 1, n)
           t == Datas(list, 1, n - 1)
<1> HIDE DEF s, t
<1>4. /\ SubSeq(s, 1, n - 1) \in Seq(Data) /\ Len(SubSeq(s, 1, n - 1)) = n - 1
      /\ \A k \in 1..n - 1 : SubSeq(s, 1, n - 1)[k] = s[k]
  BY <1>2 DEF s
<1>5. SubSeq(s, 1, n - 1) = t
  BY <1>2, <1>3, <1>4, SeqEqual DEF s, t
<1> QED BY <1>1, <1>2, <1>5 DEF s, t

Told(list, n, c) ==
  [past |-> Datas(list, 1, n - 1), present |-> c, future |-> Datas(list, n + 1, Len(list))]

LEMMA StoryIs ==
  ASSUME NEW list \in Seq(Record), NEW n \in 1..Len(list), Full(list, Len(list)), NEW c
  PROVE  [past |-> SubSeq(Held(list, 1, n), 1, Len(Held(list, 1, n)) - 1), present |-> c,
          future |-> Held(list, n + 1, Len(list))]
         = Told(list, n, c)
<1>1. Held(list, n + 1, Len(list)) = Datas(list, n + 1, Len(list))
  BY HeldIs
<1> QED BY <1>1, PastIs DEF Told

Abstract == [p \in Pages |-> Story(p)]

Nothing == [past |-> << >>, present |-> None, future |-> << >>]

\* The story of every page, now and after the step.
LEMMA StoriesAre ==
  Sound => \A p \in Pages :
             Story(p) = IF p \in open THEN Told(undo[p], current[p], content[p]) ELSE Nothing
<1> SUFFICES ASSUME Sound, NEW p \in Pages
             PROVE  Story(p) = IF p \in open THEN Told(undo[p], current[p], content[p]) ELSE Nothing
  OBVIOUS
<1>1. CASE p \in open
  <2>1. undo[p] \in Seq(Record) /\ current[p] \in 1..Len(undo[p]) /\ Full(undo[p], Len(undo[p]))
    BY <1>1 DEF Sound, Typed, TypeOK, Whole, Full, HasData
  <2>2. Story(p) = [past |-> SubSeq(Held(undo[p], 1, current[p]), 1, Len(Held(undo[p], 1, current[p])) - 1),
                    present |-> content[p], future |-> Held(undo[p], current[p] + 1, Len(undo[p]))]
    BY <1>1 DEF Story
  <2> QED BY <1>1, <2>1, <2>2, StoryIs
<1>2. CASE p \notin open
  BY <1>2 DEF Story, Nothing
<1> QED BY <1>1, <1>2

LEMMA StoriesNext ==
  Sound' => \A p \in Pages :
     Story(p)' = IF p \in open' THEN Told(undo'[p], current'[p], content'[p]) ELSE Nothing
<1> SUFFICES ASSUME Sound', NEW p \in Pages
             PROVE  Story(p)' = IF p \in open' THEN Told(undo'[p], current'[p], content'[p]) ELSE Nothing
  OBVIOUS
<1>1. CASE p \in open'
  <2>1. undo'[p] \in Seq(Record) /\ current'[p] \in 1..Len(undo'[p]) /\ Full(undo'[p], Len(undo'[p]))
    BY <1>1 DEF Sound, Typed, TypeOK, Whole, Full, HasData
  <2>2. Story(p)' = [past |-> SubSeq(Held(undo'[p], 1, current'[p]), 1, Len(Held(undo'[p], 1, current'[p])) - 1),
                    present |-> content'[p], future |-> Held(undo'[p], current'[p] + 1, Len(undo'[p]))]
    BY <1>1 DEF Story
  <2> QED BY <1>1, <2>1, <2>2, StoryIs
<1>2. CASE p \notin open'
  BY <1>2 DEF Story, Nothing
<1> QED BY <1>1, <1>2

(* How the data of a part of a list grow and shrink at its ends.           *)
LEMMA DatasAppend ==
  ASSUME NEW list \in Seq(Record), NEW n \in 1..Len(list)
  PROVE  Append(Datas(list, 1, n - 1), list[n].data) = Datas(list, 1, n)
<1> DEFINE s == Datas(list, 1, n - 1)
           t == Datas(list, 1, n)
           d == list[n].data
<1>1. s \in Seq(Data) /\ Len(s) = n - 1 /\ \A k \in 1..n - 1 : s[k] = list[k].data
  BY DatasIs
<1>2. t \in Seq(Data) /\ Len(t) = n /\ \A k \in 1..n : t[k] = list[k].data
  BY DatasIs
<1>3. d \in Data
  <2>1. list[n] \in Record
    OBVIOUS
  <2> QED BY <2>1 DEF Record, Data
<1>4. t[n] = d
  BY <1>2
<1> HIDE DEF s, t, d
<1>5. /\ Append(s, d) \in Seq(Data) /\ Len(Append(s, d)) = n
      /\ \A k \in 1..n : Append(s, d)[k] = IF k = n THEN d ELSE s[k]
  BY <1>1, <1>3
<1>6. Append(s, d) = t
  BY <1>1, <1>2, <1>4, <1>5, SeqEqual
<1> QED BY <1>6 DEF s, t, d

LEMMA DatasPrepend ==
  ASSUME NEW list \in Seq(Record), NEW n \in 1..Len(list)
  PROVE  <<list[n].data>> \o Datas(list, n + 1, Len(list)) = Datas(list, n, Len(list))
<1> DEFINE s == Datas(list, n + 1, Len(list))
           t == Datas(list, n, Len(list))
           d == list[n].data
           m == Len(list)
<1>0. m \in Nat /\ n \in 1..m
  OBVIOUS
<1>1. s \in Seq(Data) /\ Len(s) = m - n /\ \A k \in 1..m - n : s[k] = list[n + k].data
  <2>1. n + 1 \in 1..m + 1 /\ m \in (n + 1) - 1..m
    OBVIOUS
  <2>2. /\ s \in Seq(Data) /\ Len(s) = m - (n + 1) + 1
        /\ \A k \in 1..m - (n + 1) + 1 : s[k] = list[(n + 1) + k - 1].data
    BY <2>1, DatasIs
  <2> HIDE DEF s, m
  <2>3. \A k \in 1..m - n : (n + 1) + k - 1 = n + k
    BY <1>0
  <2> QED BY <1>0, <2>2, <2>3
<1>2. t \in Seq(Data) /\ Len(t) = m - n + 1 /\ \A k \in 1..m - n + 1 : t[k] = list[n + k - 1].data
  <2>1. n \in 1..m + 1 /\ m \in n - 1..m
    OBVIOUS
  <2> QED BY <2>1, DatasIs
<1>3. d \in Data
  <2>1. list[n] \in Record
    OBVIOUS
  <2> QED BY <2>1 DEF Record, Data
<1>4. t[1] = d
  BY <1>2
<1> HIDE DEF s, t, d, m
<1>5. <<d>> \in Seq(Data) /\ Len(<<d>>) = 1 /\ <<d>>[1] = d
  BY <1>3
<1>6. /\ <<d>> \o s \in Seq(Data) /\ Len(<<d>> \o s) = m - n + 1
      /\ \A k \in 1..m - n + 1 : (<<d>> \o s)[k] = IF k = 1 THEN d ELSE s[k - 1]
  BY <1>0, <1>1, <1>5, ConcatProperties
<1>7. \A k \in 1..m - n + 1 : (<<d>> \o s)[k] = t[k]
  <2> SUFFICES ASSUME NEW k \in 1..m - n + 1 PROVE (<<d>> \o s)[k] = t[k]
    OBVIOUS
  <2>1. CASE k = 1
    BY <1>4, <1>6, <2>1
  <2>2. CASE k # 1
    <3>1. k - 1 \in 1..m - n /\ n + (k - 1) = n + k - 1
      BY <1>0, <2>2
    <3> QED BY <1>1, <1>2, <1>6, <2>2, <3>1
  <2> QED BY <2>1, <2>2
<1>8. <<d>> \o s = t
  BY <1>2, <1>6, <1>7, SeqEqual
<1> QED BY <1>8 DEF s, t, d, m

LEMMA DatasSub ==
  ASSUME NEW list \in Seq(Record), NEW from \in 1..Len(list) + 1, NEW to \in from - 1..Len(list),
         NEW i \in 1..to - from + 2, NEW j \in i - 1..to - from + 1
  PROVE  SubSeq(Datas(list, from, to), i, j) = Datas(list, from + i - 1, from + j - 1)
<1> DEFINE s == Datas(list, from, to)
           a == from + i - 1
           b == from + j - 1
           t == Datas(list, a, b)
<1>1. s \in Seq(Data) /\ Len(s) = to - from + 1
      /\ \A k \in 1..to - from + 1 : s[k] = list[from + k - 1].data
  BY DatasIs
<1>2. a \in 1..Len(list) + 1 /\ b \in a - 1..Len(list) /\ b - a + 1 = j - i + 1
  OBVIOUS
<1>3. \A k \in 1..j - i + 1 : i + k - 1 \in 1..to - from + 1 /\ from + (i + k - 1) - 1 = a + k - 1
  OBVIOUS
<1>4. i \in Int /\ j \in Int /\ i <= j + 1 /\ \A k \in i..j : k \in 1..to - from + 1
  OBVIOUS
<1> HIDE DEF a, b
<1>5. t \in Seq(Data) /\ Len(t) = b - a + 1 /\ \A k \in 1..b - a + 1 : t[k] = list[a + k - 1].data
  BY <1>2, DatasIs
<1> HIDE DEF s, t
<1>6. \A k \in i..j : s[k] \in Data
  BY <1>1, <1>4
<1>7. /\ SubSeq(s, i, j) \in Seq(Data)
      /\ Len(SubSeq(s, i, j)) = IF i <= j THEN j - i + 1 ELSE 0
      /\ \A k \in 1..j - i + 1 : SubSeq(s, i, j)[k] = s[i + k - 1]
  BY <1>4, <1>6, SubSeqProperties
<1>8. Len(SubSeq(s, i, j)) = j - i + 1
  BY <1>4, <1>7
<1>9. \A k \in 1..j - i + 1 : SubSeq(s, i, j)[k] = t[k]
  BY <1>1, <1>2, <1>3, <1>5, <1>7
<1>10. SubSeq(s, i, j) = t
  BY <1>2, <1>5, <1>7, <1>8, <1>9, SeqEqual
<1> QED BY <1>10 DEF s, t, a, b

(* Undo takes the last content of the past, redo the first of the future.  *)
LEMMA ToldUndo ==
  ASSUME NEW list \in Seq(Record), NEW n \in 2..Len(list), NEW h,
         h = Told(list, n, list[n].data)
  PROVE  /\ h.past # << >>
         /\ Told(list, n - 1, list[n - 1].data)
              = [past |-> SubSeq(h.past, 1, Len(h.past) - 1), present |-> h.past[Len(h.past)],
                 future |-> <<h.present>> \o h.future]
<1>1. /\ h.past = Datas(list, 1, n - 1) /\ h.present = list[n].data
      /\ h.future = Datas(list, n + 1, Len(list))
  BY DEF Told
<1>2. /\ Len(h.past) = n - 1 /\ h.past # << >> /\ h.past[n - 1] = list[n - 1].data
  <2>1. /\ Datas(list, 1, n - 1) \in Seq(Data) /\ Len(Datas(list, 1, n - 1)) = n - 1 - 1 + 1
        /\ \A k \in 1..n - 1 - 1 + 1 : Datas(list, 1, n - 1)[k] = list[1 + k - 1].data
    <3> DEFINE a == n - 1
    <3>1. a \in 1 - 1..Len(list) /\ 1 \in 1..Len(list) + 1
      OBVIOUS
    <3> HIDE DEF a
    <3>2. /\ Datas(list, 1, a) \in Seq(Data) /\ Len(Datas(list, 1, a)) = a - 1 + 1
          /\ \A k \in 1..a - 1 + 1 : Datas(list, 1, a)[k] = list[1 + k - 1].data
      BY <3>1, DatasIs
    <3> QED BY <3>2 DEF a
  <2>2. n - 1 \in 1..n - 1 - 1 + 1 /\ 1 + (n - 1) - 1 = n - 1 /\ n - 1 - 1 + 1 = n - 1 /\ n - 1 > 0
    OBVIOUS
  <2> QED BY <1>1, <2>1, <2>2
<1>3. SubSeq(Datas(list, 1, n - 1), 1, n - 2) = Datas(list, 1, n - 2)
  <2>1. 1 + 1 - 1 = 1 /\ 1 + (n - 2) - 1 = n - 2
    OBVIOUS
  <2>2. SubSeq(Datas(list, 1, n - 1), 1, n - 2) = Datas(list, 1 + 1 - 1, 1 + (n - 2) - 1)
    <3> DEFINE a == n - 1
               b == n - 2
    <3>1. /\ 1 \in 1..Len(list) + 1 /\ a \in 1 - 1..Len(list) /\ 1 \in 1..a - 1 + 2
          /\ b \in 1 - 1..a - 1 + 1
      OBVIOUS
    <3> HIDE DEF a, b
    <3>2. SubSeq(Datas(list, 1, a), 1, b) = Datas(list, 1 + 1 - 1, 1 + b - 1)
      BY <3>1, DatasSub
    <3> QED BY <3>2 DEF a, b
  <2> QED BY <2>1, <2>2
<1>4. <<list[n].data>> \o Datas(list, n + 1, Len(list)) = Datas(list, n, Len(list))
  BY DatasPrepend
<1>5. Told(list, n - 1, list[n - 1].data)
        = [past |-> Datas(list, 1, n - 2), present |-> list[n - 1].data,
           future |-> Datas(list, n, Len(list))]
  <2>1. n - 1 - 1 = n - 2 /\ n - 1 + 1 = n
    OBVIOUS
  <2> QED BY <2>1 DEF Told
<1>6. n - 1 - 1 = n - 2
  OBVIOUS
<1> QED BY <1>1, <1>2, <1>3, <1>4, <1>5, <1>6

LEMMA ToldRedo ==
  ASSUME NEW list \in Seq(Record), NEW n \in 1..Len(list) - 1, NEW h,
         h = Told(list, n, list[n].data)
  PROVE  /\ h.future # << >>
         /\ Told(list, n + 1, list[n + 1].data)
              = [past |-> Append(h.past, h.present), present |-> h.future[1],
                 future |-> SubSeq(h.future, 2, Len(h.future))]
<1> DEFINE m == Len(list)
<1>0. m \in Nat /\ n \in 1..m - 1
  OBVIOUS
<1>1. /\ h.past = Datas(list, 1, n - 1) /\ h.present = list[n].data
      /\ h.future = Datas(list, n + 1, m)
  BY DEF Told
<1>2. Len(h.future) = m - n /\ h.future # << >> /\ h.future[1] = list[n + 1].data
  <2>1. /\ Datas(list, n + 1, m) \in Seq(Data) /\ Len(Datas(list, n + 1, m)) = m - (n + 1) + 1
        /\ \A k \in 1..m - (n + 1) + 1 : Datas(list, n + 1, m)[k] = list[n + 1 + k - 1].data
    <3> DEFINE a == n + 1
    <3>1. a \in 1..Len(list) + 1 /\ m \in a - 1..Len(list)
      OBVIOUS
    <3> HIDE DEF a, m
    <3>2. /\ Datas(list, a, m) \in Seq(Data) /\ Len(Datas(list, a, m)) = m - a + 1
          /\ \A k \in 1..m - a + 1 : Datas(list, a, m)[k] = list[a + k - 1].data
      BY <3>1, DatasIs
    <3> QED BY <3>2 DEF a
  <2> HIDE DEF m
  <2>2. /\ 1 \in 1..m - (n + 1) + 1 /\ n + 1 + 1 - 1 = n + 1 /\ m - (n + 1) + 1 = m - n
        /\ m - n > 0
    BY <1>0
  <2> QED BY <1>1, <2>1, <2>2
<1>3. SubSeq(Datas(list, n + 1, m), 2, m - n) = Datas(list, n + 2, m)
  <2>1. n + 1 + 2 - 1 = n + 2 /\ n + 1 + (m - n) - 1 = m
    OBVIOUS
  <2>2. /\ n + 1 \in 1..Len(list) + 1 /\ m \in n + 1 - 1..Len(list)
        /\ 2 \in 1..m - (n + 1) + 2 /\ m - n \in 2 - 1..m - (n + 1) + 1
    OBVIOUS
  <2>3. SubSeq(Datas(list, n + 1, m), 2, m - n) = Datas(list, n + 1 + 2 - 1, n + 1 + (m - n) - 1)
    <3> DEFINE a == n + 1
               b == m - n
    <3>1. /\ a \in 1..Len(list) + 1 /\ m \in a - 1..Len(list)
          /\ 2 \in 1..m - a + 2 /\ b \in 2 - 1..m - a + 1
      BY <2>2
    <3> HIDE DEF a, b, m
    <3>2. SubSeq(Datas(list, a, m), 2, b) = Datas(list, a + 2 - 1, a + b - 1)
      BY <3>1, DatasSub
    <3> QED BY <3>2 DEF a, b
  <2> QED BY <2>1, <2>3
<1>4. Append(Datas(list, 1, n - 1), list[n].data) = Datas(list, 1, n)
  BY DatasAppend
<1>5. Told(list, n + 1, list[n + 1].data)
        = [past |-> Datas(list, 1, n), present |-> list[n + 1].data, future |-> Datas(list, n + 2, m)]
  <2>1. n + 1 - 1 = n /\ n + 1 + 1 = n + 2
    OBVIOUS
  <2> QED BY <2>1 DEF Told
<1> HIDE DEF m
<1> QED BY <1>1, <1>2, <1>3, <1>4, <1>5

\* l is the list up to position n, without the first k records, and rec.
Behind(l, list, n, rec, k) ==
  /\ Len(l) = n + 1 - k
  /\ \A i \in 1..Len(l) : l[i] = IF k + i = n + 1 THEN rec ELSE list[k + i]

\* The story h of n records goes on with content c, k contents are forgotten.
GoesOn(h, n, l, k, c) ==
  LET past == Append(h.past, h.present)
  IN  /\ Len(past) = n /\ Len(h.past) + 1 = n
      /\ Told(l, Len(l), c) = [past |-> SubSeq(past, k + 1, Len(past)), present |-> c,
                               future |-> << >>]
      /\ Len(SubSeq(past, k + 1, Len(past))) = n - k

(* Recording behind the cursor ends the future and may forget the oldest.  *)
LEMMA ToldEdit ==
  ASSUME NEW list \in Seq(Record), NEW n \in 1..Len(list), NEW l \in Seq(Record), NEW k \in 0..n,
         NEW rec, Behind(l, list, n, rec, k), NEW c
  PROVE  GoesOn(Told(list, n, list[n].data), n, l, k, c)
<1> DEFINE h == Told(list, n, list[n].data)
           past == Append(h.past, h.present)
           kept == SubSeq(past, k + 1, n)
<1>0. /\ Len(l) = n + 1 - k
      /\ \A i \in 1..Len(l) : l[i] = IF k + i = n + 1 THEN rec ELSE list[k + i]
  BY DEF Behind
<1>1. h.past = Datas(list, 1, n - 1) /\ h.present = list[n].data
  BY DEF Told
<1>2. past = Datas(list, 1, n)
  BY <1>1, DatasAppend
<1>3. /\ Datas(list, 1, n) \in Seq(Data) /\ Len(Datas(list, 1, n)) = n
  BY DatasIs
<1>4. Len(h.past) + 1 = n
  <2>1. Len(Datas(list, 1, n - 1)) = n - 1
    BY DatasIs
  <2> QED BY <1>1, <2>1
<1>5. kept = Datas(list, k + 1, n)
  <2>1. 1 + (k + 1) - 1 = k + 1 /\ 1 + n - 1 = n
    OBVIOUS
  <2>2. /\ 1 \in 1..Len(list) + 1 /\ n \in 1 - 1..Len(list) /\ k + 1 \in 1..n - 1 + 2
        /\ n \in (k + 1) - 1..n - 1 + 1
    OBVIOUS
  <2>3. SubSeq(Datas(list, 1, n), k + 1, n) = Datas(list, 1 + (k + 1) - 1, 1 + n - 1)
    BY <2>2, DatasSub
  <2> QED BY <1>2, <2>1, <2>3
<1>6. Datas(list, k + 1, n) = Datas(l, 1, n - k)
  <2>1. \A i \in 1..n - k : k + 1 + i - 1 = k + i /\ 1 + i - 1 = i /\ i \in 1..n + 1 - k /\ k + i # n + 1
    OBVIOUS
  <2>2. \A i \in 1..n - k : l[1 + i - 1].data = list[k + 1 + i - 1].data
    BY <1>0, <2>1
  <2>3. n - (k + 1) + 1 = n - k /\ n - k - 1 + 1 = n - k
    OBVIOUS
  <2>4. Datas(list, k + 1, n) = [i \in 1..n - k |-> list[k + 1 + i - 1].data]
    BY <2>3 DEF Datas
  <2>5. Datas(l, 1, n - k) = [i \in 1..n - k |-> l[1 + i - 1].data]
    BY <2>3 DEF Datas
  <2> QED BY <2>2, <2>4, <2>5
<1>7. Datas(l, Len(l) + 1, Len(l)) = << >>
  <2>1. Len(l) - (Len(l) + 1) + 1 = 0 /\ Len(l) + 1 \in 1..Len(l) + 1
        /\ Len(l) \in (Len(l) + 1) - 1..Len(l)
    OBVIOUS
  <2>2. /\ Datas(l, Len(l) + 1, Len(l)) \in Seq(Data)
        /\ Len(Datas(l, Len(l) + 1, Len(l))) = Len(l) - (Len(l) + 1) + 1
    BY <2>1, DatasIs
  <2> QED BY <2>1, <2>2, EmptySeq
<1>8. Told(l, Len(l), c) = [past |-> kept, present |-> c, future |-> << >>]
  <2>1. Len(l) - 1 = n - k
    BY <1>0
  <2> QED BY <1>5, <1>6, <1>7, <2>1 DEF Told
<1>9. Len(kept) = n - k
  <2>1. n - k \in 1 - 1..Len(l) /\ 1 \in 1..Len(l) + 1 /\ n - k - 1 + 1 = n - k
    BY <1>0
  <2>2. Len(Datas(l, 1, n - k)) = n - k - 1 + 1
    BY <2>1, DatasIs
  <2> QED BY <1>5, <1>6, <2>1, <2>2
<1> QED BY <1>2, <1>3, <1>4, <1>8, <1>9 DEF GoesOn

\* A step on page p tells no other story of the other pages.
LEMMA OneStory ==
  ASSUME Sound, Sound', NEW p \in Pages,
         \A q \in Pages \ {p} :
           /\ undo'[q] = undo[q] /\ current'[q] = current[q] /\ content'[q] = content[q]
           /\ q \in open' <=> q \in open
  PROVE  Abstract' = [Abstract EXCEPT ![p] = Story(p)'] /\ Abstract[p] = Story(p)
<1>1. \A q \in Pages \ {p} : Story(q)' = Story(q)
  <2> SUFFICES ASSUME NEW q \in Pages \ {p} PROVE Story(q)' = Story(q)
    OBVIOUS
  <2>1. Story(q) = IF q \in open THEN Told(undo[q], current[q], content[q]) ELSE Nothing
    BY StoriesAre
  <2>2. Story(q)' = IF q \in open' THEN Told(undo'[q], current'[q], content'[q]) ELSE Nothing
    BY StoriesNext
  <2> QED BY <2>1, <2>2
<1>2. Abstract' = [q \in Pages |-> Story(q)'] /\ Abstract = [q \in Pages |-> Story(q)]
  BY DEF Abstract
<1> QED BY <1>1, <1>2

LEMMA HistoryStep ==
  ASSUME Plain, ~ DiskFull, Sound, Sound', NEW p \in Pages,
         \/ OpenPage(p) \/ \E c \in Contents : Edit(p, c)
         \/ Look(p) \/ SavePage(p) \/ ClosePage(p) \/ Undo(p) \/ Redo(p)
  PROVE  History!Next \/ UNCHANGED History!vars
<1> USE DEF Abstract
<1>0. /\ Story(p) = IF p \in open THEN Told(undo[p], current[p], content[p]) ELSE Nothing
      /\ Story(p)' = IF p \in open' THEN Told(undo'[p], current'[p], content'[p]) ELSE Nothing
  BY StoriesAre, StoriesNext
<1>01. /\ undo[p] \in Seq(Record) /\ undo'[p] \in Seq(Record)
       /\ p \in open => current[p] \in 1..Len(undo[p]) /\ undo[p][current[p]].data = content[p]
       /\ p \in open' => current'[p] \in 1..Len(undo'[p]) /\ undo'[p][current'[p]].data = content'[p]
  BY DEF Sound, Typed, TypeOK, Shown
<1>1. CASE OpenPage(p)
  <2>1. /\ p \notin open /\ open' = open \cup {p} /\ Savestate(p, "all", disk[p], FALSE)
        /\ content' = [content EXCEPT ![p] = disk[p]] /\ rc' = rc /\ disk[p] \in Contents
    BY <1>1 DEF OpenPage, Sound, Typed, TypeOK
  <2>2. /\ current'[p] = Len(undo'[p]) /\ Len(undo'[p]) >= 1
        /\ \A q \in Pages \ {p} : undo'[q] = undo[q] /\ current'[q] = current[q]
        /\ \E d \in IF "all" = "all" THEN Stored(disk[p]) ELSE {None} : \E k \in 0..current[p] :
             Appended(p, [type |-> "all", data |-> d, changed |-> FALSE], k)
    BY <2>1, SavedIs DEF Sound
  <2>3. Len(undo'[p]) = 1
    <3>1. current[p] = 0
      BY <2>1 DEF Sound, Typed
    <3> QED BY <2>2, <3>1 DEF Appended
  <2>4. content'[p] = disk[p]
    BY <2>1 DEF Sound, Typed, TypeOK
  <2>5. Told(undo'[p], current'[p], content'[p]) = [Nothing EXCEPT !.present = disk[p]]
    <3>1. /\ Datas(undo'[p], 1, 0) = << >> /\ Datas(undo'[p], 2, 1) = << >>
      <4>1. /\ Datas(undo'[p], 1, 0) \in Seq(Data) /\ Len(Datas(undo'[p], 1, 0)) = 0
        <5>1. 1 \in 1..Len(undo'[p]) + 1 /\ 0 \in 1 - 1..Len(undo'[p]) /\ 0 - 1 + 1 = 0
          BY <2>3
        <5> QED BY <1>01, <5>1, DatasIs
      <4>2. /\ Datas(undo'[p], 2, 1) \in Seq(Data) /\ Len(Datas(undo'[p], 2, 1)) = 0
        <5>1. 2 \in 1..Len(undo'[p]) + 1 /\ 1 \in 2 - 1..Len(undo'[p]) /\ 1 - 2 + 1 = 0
          BY <2>3
        <5> QED BY <1>01, <5>1, DatasIs
      <4> QED BY <4>1, <4>2, EmptySeq
    <3>2. Told(undo'[p], 1, disk[p])
            = [past |-> Datas(undo'[p], 1, 1 - 1), present |-> disk[p],
               future |-> Datas(undo'[p], 1 + 1, 1)]
      BY <2>3 DEF Told
    <3> QED BY <2>2, <2>3, <2>4, <3>1, <3>2 DEF Nothing
  <2>6. Abstract' = [Abstract EXCEPT ![p] = [Nothing EXCEPT !.present = disk[p]]]
    <3>1. Abstract' = [Abstract EXCEPT ![p] = Story(p)']
      <4>1. \A q \in Pages \ {p} : content'[q] = content[q] /\ (q \in open' <=> q \in open)
        BY <2>1 DEF Sound, Typed, TypeOK
      <4> HIDE DEF Abstract
      <4> QED BY <2>2, <4>1, OneStory
    <3> HIDE DEF Abstract
    <3> QED BY <1>0, <2>1, <2>5, <3>1
  <2>7. History!Open(p, disk[p])
    BY <2>1, <2>6 DEF History!Open, History!Blank, Nothing, None
  <2> QED BY <2>1, <2>7 DEF History!Next, UndoLevels
<1>2. ASSUME NEW c \in Contents, Edit(p, c) PROVE History!Next
  <2>1. /\ p \in open /\ open' = open /\ Savestate(p, "all", c, TRUE)
        /\ content' = [content EXCEPT ![p] = c] /\ rc' = rc /\ content'[p] = c
    BY <1>2 DEF Edit, Sound, Typed, TypeOK
  <2>2. /\ current'[p] = Len(undo'[p]) /\ Len(undo'[p]) >= 1
        /\ \A q \in Pages \ {p} : undo'[q] = undo[q] /\ current'[q] = current[q]
        /\ \E d \in IF "all" = "all" THEN Stored(c) ELSE {None} : \E k \in 0..current[p] :
             Appended(p, [type |-> "all", data |-> d, changed |-> TRUE], k)
    BY <2>1, SavedIs DEF Sound
  <2>3. PICK d \in Stored(c) : \E k \in 0..current[p] :
          Appended(p, [type |-> "all", data |-> d, changed |-> TRUE], k)
    BY <2>2
  <2> DEFINE rec == [type |-> "all", data |-> d, changed |-> TRUE]
             h == Abstract[p]
             past == Append(h.past, h.present)
  <2>4. PICK k \in 0..current[p] : Appended(p, rec, k)
    BY <2>3
  <2>5. HasData(rec) /\ Full(undo[p], current[p])
    <3>1. d # None
      BY <2>3, UndoAssumption DEF Plain, Stored, None, Lost
    <3>2. Full(undo[p], current[p])
      BY <1>01, <2>1 DEF Sound, Whole, Full, HasData
    <3> QED BY <3>1, <3>2 DEF HasData
  <2> HIDE DEF rec
  <2>6. /\ Len(undo'[p]) = current[p] + 1 - k
        /\ \A i \in 1..Len(undo'[p]) :
             undo'[p][i] = IF k + i = current[p] + 1 THEN rec ELSE undo[p][k + i]
        /\ k > 0 => Len(undo'[p]) = UndoLevels
    BY <2>4, <2>5 DEF Appended
  <2>7. h = Told(undo[p], current[p], undo[p][current[p]].data)
    BY <1>0, <1>01, <2>1
  <2> HIDE DEF Abstract, h, past
  <2>8. /\ Len(past) = current[p] /\ Len(h.past) + 1 = current[p]
        /\ Told(undo'[p], Len(undo'[p]), c)
             = [past |-> SubSeq(past, k + 1, Len(past)), present |-> c, future |-> << >>]
        /\ Len(SubSeq(past, k + 1, Len(past))) = current[p] - k
    <3> DEFINE list == undo[p]
               n == current[p]
               l == undo'[p]
    <3>1. /\ list \in Seq(Record) /\ n \in 1..Len(list) /\ l \in Seq(Record) /\ k \in 0..n
          /\ Behind(l, list, n, rec, k) /\ h = Told(list, n, list[n].data)
      BY <1>01, <2>1, <2>6, <2>7 DEF Behind
    <3> HIDE DEF list, n, l
    <3>2. GoesOn(h, n, l, k, c)
      BY <3>1, ToldEdit
    <3> QED BY <3>2 DEF list, n, l, past, GoesOn
  <2>9. Abstract' = [Abstract EXCEPT ![p] =
                       [past |-> SubSeq(past, k + 1, Len(past)), present |-> c, future |-> << >>]]
    <3>1. Abstract' = [Abstract EXCEPT ![p] = Story(p)']
      <4>1. \A q \in Pages \ {p} : content'[q] = content[q] /\ (q \in open' <=> q \in open)
        BY <2>1 DEF Sound, Typed, TypeOK
      <4> QED BY <2>2, <4>1, OneStory
    <3> QED BY <1>0, <2>1, <2>2, <2>8, <3>1
  <2>10. k \in 0..Len(past) /\ k \in 0..Len(h.past) + 1
         /\ (k > 0 => Len(SubSeq(past, k + 1, Len(past))) >= UndoLevels - 1)
    <3>1. UndoLevels \in Nat /\ current[p] \in Nat
      BY <1>01, <2>1, UndoAssumption DEF UndoLevels, Sound, Typed, TypeOK
    <3> QED BY <2>6, <2>8, <3>1
  <2>11. History!Remembered(past, SubSeq(past, k + 1, Len(past)))
    BY <2>10 DEF History!Remembered
  <2>12. History!Edit(p, c)
    BY <2>1, <2>9, <2>10, <2>11 DEF History!Edit, Abstract, h, past
  <2> QED BY <2>1, <2>12 DEF History!Next, UndoLevels
<1>3. CASE Look(p)
  BY <1>3 DEF Look, Plain, Sound, Typed, TypeOK
<1>4. CASE SavePage(p)
  <2>1. \A q \in Pages : Story(q)' = Story(q)
    <3> SUFFICES ASSUME NEW q \in Pages PROVE Story(q)' = Story(q)
      OBVIOUS
    <3> QED BY <1>4, StoriesAre, StoriesNext DEF SavePage
  <2>2. open' = open /\ rc' = rc
    BY <1>4 DEF SavePage
  <2> QED BY <2>1, <2>2 DEF History!vars, UndoLevels
<1>5. CASE ClosePage(p)
  <2>1. /\ p \in open /\ open' = open \ {p} /\ rc' = rc
        /\ \A q \in Pages \ {p} :
             /\ undo'[q] = undo[q] /\ current'[q] = current[q] /\ content'[q] = content[q]
             /\ q \in open' <=> q \in open
    BY <1>5 DEF ClosePage, Sound, Typed, TypeOK
  <2>2. Abstract' = [Abstract EXCEPT ![p] = Nothing]
    <3> HIDE DEF Abstract
    <3>1. Abstract' = [Abstract EXCEPT ![p] = Story(p)']
      BY <2>1, OneStory
    <3> QED BY <1>0, <2>1, <3>1
  <2>3. History!Close(p)
    BY <2>1, <2>2 DEF History!Close, History!Blank, Nothing, None
  <2> QED BY <2>1, <2>3 DEF History!Next, UndoLevels
<1>6. ASSUME NEW to, MoveTo(p, to)
      PROVE  /\ p \in open /\ open' = open /\ rc' = rc /\ undo' = undo
             /\ to \in 1..Len(undo[p]) /\ current'[p] = to /\ content'[p] = undo[p][to].data
             /\ Abstract' = [Abstract EXCEPT ![p] = Told(undo[p], to, undo[p][to].data)]
             /\ Abstract[p] = Told(undo[p], current[p], undo[p][current[p]].data)
  <2>1. /\ p \in open /\ open' = open /\ rc' = rc /\ undo' = undo /\ to \in 1..Len(undo[p])
        /\ current'[p] = to
        /\ \A q \in Pages \ {p} : current'[q] = current[q] /\ content'[q] = content[q]
    BY <1>6 DEF MoveTo, Sound, Typed, TypeOK
  <2>2. content'[p] = undo[p][to].data
    BY <1>01, <2>1
  <2> HIDE DEF Abstract
  <2>3. Abstract' = [Abstract EXCEPT ![p] = Story(p)'] /\ Abstract[p] = Story(p)
    BY <2>1, OneStory
  <2> QED BY <1>0, <1>01, <2>1, <2>2, <2>3
<1>7. CASE Undo(p)
  <2>1. MoveTo(p, current[p] - 1)
    BY <1>7 DEF Undo
  <2>2. /\ p \in open /\ open' = open /\ rc' = rc
        /\ current[p] - 1 \in 1..Len(undo[p])
        /\ Abstract' = [Abstract EXCEPT ![p] =
             Told(undo[p], current[p] - 1, undo[p][current[p] - 1].data)]
        /\ Abstract[p] = Told(undo[p], current[p], undo[p][current[p]].data)
    BY <1>6, <2>1
  <2> DEFINE h == Abstract[p]
  <2>3. current[p] \in 2..Len(undo[p])
    BY <1>01, <2>2
  <2> HIDE DEF h, Abstract
  <2>4. /\ h.past # << >>
        /\ Told(undo[p], current[p] - 1, undo[p][current[p] - 1].data)
             = [past |-> SubSeq(h.past, 1, Len(h.past) - 1), present |-> h.past[Len(h.past)],
                future |-> <<h.present>> \o h.future]
    BY <1>01, <2>2, <2>3, ToldUndo DEF h
  <2>5. History!Undo(p)
    BY <2>2, <2>4 DEF History!Undo, Abstract, h
  <2> QED BY <2>2, <2>5 DEF History!Next, UndoLevels
<1>8. CASE Redo(p)
  <2>1. MoveTo(p, current[p] + 1)
    BY <1>8 DEF Redo
  <2>2. /\ p \in open /\ open' = open /\ rc' = rc
        /\ current[p] + 1 \in 1..Len(undo[p])
        /\ Abstract' = [Abstract EXCEPT ![p] =
             Told(undo[p], current[p] + 1, undo[p][current[p] + 1].data)]
        /\ Abstract[p] = Told(undo[p], current[p], undo[p][current[p]].data)
    BY <1>6, <2>1
  <2> DEFINE h == Abstract[p]
  <2>3. current[p] \in 1..Len(undo[p]) - 1
    BY <1>01, <2>2
  <2> HIDE DEF h, Abstract
  <2>4. /\ h.future # << >>
        /\ Told(undo[p], current[p] + 1, undo[p][current[p] + 1].data)
             = [past |-> Append(h.past, h.present), present |-> h.future[1],
                future |-> SubSeq(h.future, 2, Len(h.future))]
    BY <1>01, <2>2, <2>3, ToldRedo DEF h
  <2>5. History!Redo(p)
    BY <2>2, <2>4 DEF History!Redo, Abstract, h
  <2> QED BY <2>2, <2>5 DEF History!Next, UndoLevels
<1> QED BY <1>1, <1>2, <1>3, <1>4, <1>5, <1>7, <1>8

(* Undo and redo walk through exactly the contents the page had, in their  *)
(* order, and at least undo_levels - 1 of them are kept: gschem implements *)
(* the history, as long as its undo files can be written.                  *)
THEOREM UndoRefinesHistory ==
  ASSUME Plain, ~ DiskFull PROVE Spec => UndoIsHistory
<1>1. Init => History!Init
  BY UndoAssumption DEF Init, History!Init, History!Blank, UndoLevels, Story, None
<1>2. Sound /\ Sound' /\ [Next]_vars => [History!Next]_(History!vars)
  <2> SUFFICES ASSUME Sound, Sound', [Next]_vars
               PROVE  History!Next \/ UNCHANGED History!vars
    OBVIOUS
  <2>1. CASE Next
    BY <2>1, HistoryStep DEF Next
  <2>2. CASE UNCHANGED vars
    <3>1. \A q \in Pages : Story(q)' = Story(q)
      <4> SUFFICES ASSUME NEW q \in Pages PROVE Story(q)' = Story(q)
        OBVIOUS
      <4> QED BY <2>2, StoriesAre, StoriesNext DEF vars
    <3> QED BY <2>2, <3>1 DEF vars, History!vars, UndoLevels
  <2> QED BY <2>1, <2>2
<1> QED BY <1>1, <1>2, AlwaysSound, PTL DEF Spec, UndoIsHistory, History!Spec
=============================================================================
