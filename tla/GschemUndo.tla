----------------------------- MODULE GschemUndo -----------------------------
(***************************************************************************)
(* Undo and redo in gschem (gschem/src/o_undo.c, libgeda/src/s_undo.c).    *)
(*                                                                         *)
(* Each page has a doubly linked list of records from undo_bottom to       *)
(* undo_tos, and a cursor undo_current in it: here a sequence and an index.*)
(* After every operation o_undo_savestate cuts the list behind the cursor  *)
(* and appends a record.  A record of type UNDO_ALL says where the content *)
(* of the page was put (a file in TMP, or a list of objects), one of type  *)
(* UNDO_VIEWPORT_ONLY only remembers the viewport.  Undo and redo move the *)
(* cursor and load the content from the record, or for a viewport record   *)
(* from one before it.  The lists are trimmed at the bottom, but that is   *)
(* only looked at when the number of undo files, which all pages share, is *)
(* a multiple of ten.                                                      *)
(***************************************************************************)
EXTENDS Integers, FiniteSets, Sequences

CONSTANTS
  Pages,        \* PAGE structures
  Contents,     \* what can be drawn on a page
  Empty,        \* the content of a page without objects
  Settings,     \* what an rc file may set
  UndoPadding,  \* UNDO_PADDING: 5
  CheckEvery,   \* trimming is considered at multiples of this: 10
  Medium,       \* undo_type (rc "undo-type")
  DiskFull      \* may writing an undo file fail?

ASSUME UndoAssumption ==
  /\ Empty \in Contents
  /\ \A s \in Settings : s.undo_levels \in Nat \ {0} /\ s.undo_panzoom \in BOOLEAN
  /\ {UndoPadding, CheckEvery} \subseteq Nat \ {0}
  /\ Medium \in {"disk", "memory"}
  /\ DiskFull \in BOOLEAN
  /\ {"none", "lost"} \cap Contents = {}

VARIABLES
  rc,               \* undo_levels and undo_panzoom, as read at the start
  open,             \* pages that are open
  disk,             \* per page: the content of its schematic file
  content,          \* per page: its objects
  changed,          \* per page: CHANGED
  undo,             \* per page: the records from undo_bottom to undo_tos
  current,          \* per page: the position of undo_current
  undo_file_index,  \* modulo CheckEvery, which is all that is read of it
  missed            \* history: per page, the checks that came with other pages since its own last one

vars == <<rc, open, disk, content, changed, undo, current, undo_file_index, missed>>

None == "none"   \* neither filename nor object_list is set
Lost == "lost"   \* filename is set but the file could not be written

UndoLevels == rc.undo_levels

Record == [type : {"all", "viewport"}, data : Contents \cup {None, Lost},
           changed : BOOLEAN]

-----------------------------------------------------------------------------
(* The list of records.                                                    *)

HasData(rec) == rec.data # None
WithData(list, n) == {i \in 1..n : HasData(list[i])}
LatestData(list, n) ==
  IF WithData(list, n) = {} THEN None
  ELSE list[CHOOSE i \in WithData(list, n) : \A j \in WithData(list, n) : j <= i].data

Levels(list) == Cardinality(WithData(list, Len(list)))

\* Mutant: nothing is ever trimmed.
Untrimmed(list) == list
\* Mutant: the padding is trimmed as well.
TrimmedTooFar(list) ==
  IF Levels(list) >= UndoLevels
    THEN SubSeq(list, Levels(list) - UndoLevels + 2, Len(list))
    ELSE list

\* As many records are freed as there are contents too many, whatever they hold.
Trimmed(list) ==
  IF Levels(list) >= UndoLevels + UndoPadding
    THEN SubSeq(list, Levels(list) - UndoLevels + 1, Len(list))
    ELSE list

\* What a record keeps of content c.  An empty page has an empty object_list.
Stored(c) ==
  IF Medium = "disk" THEN {c} \cup (IF DiskFull THEN {Lost} ELSE {})
  ELSE IF c = Empty THEN {None}
  ELSE {c}

\* Mutant: the records behind the cursor stay.
RecordedBehind(list, n, rec, index) ==
  IF index = 0 THEN Trimmed(Append(list, rec)) ELSE Append(list, rec)
\* The list after recording rec behind position n.
Recorded(list, n, rec, index) ==
  LET grown == Append(SubSeq(list, 1, n), rec)
  IN  IF index = 0 THEN Trimmed(grown) ELSE grown

\* Saving a state of page p checks its own list, if the counter calls for it.
Checked(p, index, counted) ==
  [q \in Pages |-> IF index # 0 \/ (q # p /\ ~(counted /\ q \in open)) THEN missed[q]
                   ELSE IF q = p THEN 0
                   ELSE missed[q] + 1]

\* Mutant: the cursor is not moved down with the records that are trimmed.
SavestateCounting(p, type, c, ch) ==
  \E d \in IF type = "all" THEN Stored(c) ELSE {None} :
    LET rec == [type |-> type, data |-> d, changed |-> ch]
    IN  /\ undo_file_index' = IF type = "all" /\ Medium = "disk"
                                THEN (undo_file_index + 1) % CheckEvery
                                ELSE undo_file_index
        /\ undo' = [undo EXCEPT ![p] = Recorded(@, current[p], rec, undo_file_index')]
        /\ current' = [current EXCEPT ![p] = @ + 1]
        /\ missed' = Checked(p, undo_file_index', type = "all" /\ Medium = "disk")

(* o_undo_savestate, for content c of page p and its flag ch.              *)
Savestate(p, type, c, ch) ==
  \E d \in IF type = "all" THEN Stored(c) ELSE {None} :
    LET rec == [type |-> type, data |-> d, changed |-> ch]
    IN  /\ undo_file_index' = IF type = "all" /\ Medium = "disk"
                                THEN (undo_file_index + 1) % CheckEvery
                                ELSE undo_file_index
        /\ undo' = [undo EXCEPT ![p] = Recorded(@, current[p], rec, undo_file_index')]
        /\ current' = [current EXCEPT ![p] = Len(undo'[p])]
        /\ missed' = Checked(p, undo_file_index', type = "all" /\ Medium = "disk")

-----------------------------------------------------------------------------
Init ==
  /\ rc \in Settings
  /\ open = {}
  /\ disk \in [Pages -> Contents]
  /\ content = [p \in Pages |-> Empty]
  /\ changed = [p \in Pages |-> FALSE]
  /\ undo = [p \in Pages |-> << >>]
  /\ current = [p \in Pages |-> 0]
  /\ undo_file_index = 0
  /\ missed = [p \in Pages |-> 0]

(* x_lowlevel_open_page.                                                   *)
OpenPage(p) ==
  /\ p \notin open
  /\ open' = open \cup {p}
  /\ content' = [content EXCEPT ![p] = disk[p]]
  /\ changed' = [changed EXCEPT ![p] = FALSE]
  /\ Savestate(p, "all", disk[p], FALSE)
  /\ UNCHANGED <<rc, disk>>

(* An operation that changes the page to c, tells so and saves the state.  *)
Edit(p, c) ==
  /\ p \in open
  /\ content' = [content EXCEPT ![p] = c]
  /\ changed' = [changed EXCEPT ![p] = TRUE]
  /\ Savestate(p, "all", c, TRUE)
  /\ UNCHANGED <<rc, open, disk>>

(* Panning or zooming when undo_panzoom is enabled.                        *)
Look(p) ==
  /\ p \in open /\ rc.undo_panzoom
  /\ Savestate(p, "viewport", content[p], changed[p])
  /\ UNCHANGED <<rc, open, disk, content, changed>>

(* x_lowlevel_save_page.                                                   *)
SavePage(p) ==
  /\ p \in open
  /\ disk' = [disk EXCEPT ![p] = content[p]]
  /\ changed' = [changed EXCEPT ![p] = FALSE]
  /\ UNCHANGED <<rc, open, content, undo, current, undo_file_index, missed>>

ClosePage(p) ==
  /\ p \in open
  /\ open' = open \ {p}
  /\ content' = [content EXCEPT ![p] = Empty]
  /\ changed' = [changed EXCEPT ![p] = FALSE]
  /\ undo' = [undo EXCEPT ![p] = << >>]
  /\ current' = [current EXCEPT ![p] = 0]
  /\ missed' = [missed EXCEPT ![p] = 0]
  /\ UNCHANGED <<rc, disk, undo_file_index>>

\* Mutant: a viewport record is not given the content of an earlier one.
SourceHere(p, to) == undo[p][to].data

\* Leaving a content for a viewport record loads the content before that one.
Source(p, to) ==
  IF undo[p][current[p]].type = "all" /\ undo[p][to].type = "viewport"
    THEN LatestData(undo[p], to - 1)
    ELSE undo[p][to].data

(* o_undo_callback: the page is emptied only if there is something to load,*)
(* and stays empty if that fails.  CHANGED is taken from the record.       *)
MoveTo(p, to) ==
  /\ p \in open /\ current[p] # 0 /\ to \in 1..Len(undo[p])
  /\ content' = [content EXCEPT ![p] = IF Source(p, to) = None THEN @
                                       ELSE IF Source(p, to) = Lost THEN Empty
                                       ELSE Source(p, to)]
  /\ changed' = [changed EXCEPT ![p] = undo[p][to].changed]
  /\ current' = [current EXCEPT ![p] = to]
  /\ UNCHANGED <<rc, open, disk, undo, undo_file_index, missed>>

Undo(p) == MoveTo(p, current[p] - 1)
Redo(p) == MoveTo(p, current[p] + 1)

Next ==
  \E p \in Pages :
    \/ OpenPage(p)
    \/ \E c \in Contents : Edit(p, c)
    \/ Look(p)
    \/ SavePage(p)
    \/ ClosePage(p)
    \/ Undo(p)
    \/ Redo(p)

Spec == Init /\ [][Next]_vars
-----------------------------------------------------------------------------
(* Properties.                                                             *)

TypeOK ==
  /\ rc \in Settings
  /\ open \subseteq Pages
  /\ disk \in [Pages -> Contents]
  /\ content \in [Pages -> Contents]
  /\ changed \in [Pages -> BOOLEAN]
  /\ undo \in [Pages -> Seq(Record)]
  /\ current \in [Pages -> Nat]
  /\ \A p \in open : current[p] \in 1..Len(undo[p])
  /\ undo_file_index \in 0..CheckEvery - 1
  /\ missed \in [Pages -> Nat]

(* The page shows what the cursor points at, after any number of           *)
(* operations, undos and redos, and with any trimming between them.        *)
CursorShowsContent ==
  \A p \in open : LatestData(undo[p], current[p]) = content[p]

(* How many contents a page keeps, "the number of levels of undo": the     *)
(* limit, the padding, and what is recorded between two checks.  The       *)
(* counter is shared by all pages and a page is checked only if it is its  *)
(* own record that brings the counter to a multiple; so for every check    *)
(* that came with a record of another page it may keep as many more.       *)
(* (Viewport records are counted otherwise than they are freed.)           *)
HistoryBounded ==
  ~rc.undo_panzoom =>
    \A p \in open :
      Levels(undo[p]) <= UndoLevels + UndoPadding - 1 + (CheckEvery - 1) * (missed[p] + 1)

(* Undoing or redoing to any record finds a content to load ("filename,    *)
(* object_list are just pointers to the real data (lower in the stack)",   *)
(* o_undo_callback).  Trimming a list with viewport records refutes it.    *)
DataLowerInStack ==
  \A p \in open : \A i \in 1..Len(undo[p]) : WithData(undo[p], i) # {}

(* A page that is not marked as changed can be closed without asking,      *)
(* because its file has the same content (x_highlevel_close_page).         *)
UnchangedIsSaved == \A p \in open : ~changed[p] => content[p] = disk[p]
=============================================================================
