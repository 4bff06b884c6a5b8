-------------------------- MODULE GschemFilesProofs --------------------------
(***************************************************************************)
(* What holds of the files of gschem for any number of pages, names and    *)
(* contents, whichever of the names are links: nothing that was written is *)
(* lost, and a page that counts as unchanged is in its file, provided that *)
(* no two files differ only by upper and lower case.                       *)
(*                                                                         *)
(* These invariants are inductive together with the types.  They do not    *)
(* depend on the autosaves, so most of an action that saves the state is   *)
(* covered by one lemma: saving the state only touches the counters of the *)
(* pages.                                                                  *)
(*                                                                         *)
(* What holds of the autosaves comes after that: a changed page with no    *)
(* operation counted is in its autosave, and an autosave without a page is *)
(* left from a crash.  Both need conditions on names, as the code lets     *)
(* pages share an autosave, or leave one behind, with links and "Save As". *)
(***************************************************************************)
EXTENDS GschemFiles, TLAPS

PageTable == [Pages -> PageRecord \cup {Closed}]
FileTable == [Names -> Contents \cup {Garbage, Missing}]
AutoTable == [Names -> Contents \cup {Missing}]

(* Two page tables that differ at most in what has to be autosaved.        *)
SamePage(a, b) ==
  /\ a.name = b.name /\ a.content = b.content /\ a.changed = b.changed
  /\ a.exists = b.exists /\ a.known = b.known
SamePages(pg1, pg2) ==
  /\ OpenPages(pg1) = OpenPages(pg2)
  /\ \A p \in OpenPages(pg1) : SamePage(pg1[p], pg2[p])

-----------------------------------------------------------------------------
(* Lemmas about the operators.                                             *)

(* An autosave is written for pages that are open.                         *)
LEMMA DueIsOpen ==
  ASSUME NEW pg, NEW S \in Succeeding(Due(pg))
  PROVE  S \subseteq OpenPages(pg)
BY DEF Succeeding, Due

(* Clearing and setting the flags of pages changes nothing else.           *)
LEMMA FlagsOnly ==
  ASSUME NEW pg \in PageTable, NEW S, S \subseteq OpenPages(pg), NEW P,
         P \subseteq OpenPages(pg)
  PROVE  /\ Counted(Backed(pg, S), P) \in PageTable
         /\ SamePages(Counted(Backed(pg, S), P), pg)
<1> USE FilesAssumption
<1> DEFINE new == Counted(Backed(pg, S), P)
<1>1. \A p \in Pages : p \in OpenPages(pg) =>
        /\ new[p] \in PageRecord
        /\ SamePage(new[p], pg[p])
  <2> SUFFICES ASSUME NEW p \in Pages, p \in OpenPages(pg)
               PROVE  new[p] \in PageRecord /\ SamePage(new[p], pg[p])
    OBVIOUS
  <2>1. pg[p] \in PageRecord
    BY DEF OpenPages, PageTable
  <2> DEFINE b == Backed(pg, S)[p]
  <2>2. b \in PageRecord /\ SamePage(b, pg[p])
    BY <2>1 DEF Backed, PageRecord, SamePage
  <2>3. new[p] = IF UndoControl /\ p \in P THEN [b EXCEPT !.ops = TRUE] ELSE b
    BY DEF Counted
  <2> DEFINE o == [b EXCEPT !.ops = TRUE]
  <2> HIDE DEF b, new
  <2>4. o \in PageRecord /\ SamePage(o, pg[p])
    BY <2>2, ZenonT(40) DEF PageRecord, SamePage
  <2> HIDE DEF o
  <2>5. new[p] = o \/ new[p] = b
    BY <2>3 DEF o
  <2> QED
    BY <2>2, <2>4, <2>5
<1>2. \A p \in Pages : p \notin OpenPages(pg) => new[p] = Closed
  BY DEF Counted, Backed, OpenPages
<1>3. new \in [Pages -> {new[p] : p \in Pages}]
  BY DEF Counted
<1> HIDE DEF new
<1>4. OpenPages(new) = OpenPages(pg)
  BY <1>1, <1>2 DEF OpenPages
<1>5. new \in PageTable
  BY <1>1, <1>2, <1>3 DEF PageTable
<1>6. SamePages(new, pg)
  BY <1>1, <1>4 DEF SamePages, OpenPages
<1> QED
  BY <1>5, <1>6 DEF new

(* Forgetting an mtime changes nothing else.                               *)
LEMMA OutdatedTyped ==
  ASSUME NEW pg \in PageTable, NEW n, NEW S
  PROVE  /\ Outdated(pg, n, S) \in PageTable
         /\ OpenPages(Outdated(pg, n, S)) = OpenPages(pg)
<1> USE FilesAssumption
<1> DEFINE new == Outdated(pg, n, S)
<1>1. \A p \in Pages : new[p] \in PageRecord \cup {Closed}
                       /\ (new[p] = Closed <=> pg[p] = Closed)
  <2> SUFFICES ASSUME NEW p \in Pages
               PROVE  new[p] \in PageRecord \cup {Closed}
                      /\ (new[p] = Closed <=> pg[p] = Closed)
    OBVIOUS
  <2>1. CASE p \in OpenPages(pg) \cap S /\ RealName(pg, p) = n
    <3>1. new[p] = [pg[p] EXCEPT !.known = FALSE]
      BY <2>1 DEF Outdated
    <3>2. pg[p] \in PageRecord
      BY <2>1 DEF OpenPages, PageTable
    <3> HIDE DEF new
    <3> QED
      BY <3>1, <3>2 DEF PageRecord
  <2>2. CASE ~(p \in OpenPages(pg) \cap S /\ RealName(pg, p) = n)
    BY <2>2 DEF Outdated, PageTable
  <2> QED
    BY <2>1, <2>2
<1>2. new \in [Pages -> {new[p] : p \in Pages}]
  BY DEF Outdated
<1> HIDE DEF new
<1> QED
  BY <1>1, <1>2 DEF PageTable, OpenPages, new

(* A new page has its type.                                                *)
LEMMA FreshTyped ==
  ASSUME NEW n \in Names, NEW c \in Contents, NEW changed \in BOOLEAN,
         NEW exists \in BOOLEAN
  PROVE  Fresh(n, c, changed, exists) \in PageRecord
BY DEF Fresh, PageRecord

(* Replacing one page by a page.                                           *)
LEMMA Replaced ==
  ASSUME NEW pg \in PageTable, NEW p \in Pages, NEW new \in PageRecord
  PROVE  /\ [pg EXCEPT ![p] = new] \in PageTable
         /\ OpenPages([pg EXCEPT ![p] = new]) = OpenPages(pg) \cup {p}
BY FilesAssumption DEF PageTable, OpenPages

(* Saving the state keeps the types and the pages but for their counters.  *)
LEMMA SavestateKeeps ==
  ASSUME NEW pg \in PageTable, NEW P, P \subseteq OpenPages(pg),
         NEW old, NEW late, late \subseteq Names,
         Savestate(pg, P, old, late)
  PROVE  /\ page' \in PageTable /\ SamePages(page', pg)
         /\ auto' \in AutoTable /\ newer' \subseteq Names
<1> USE FilesAssumption
<1>1. PICK S \in Succeeding(Due(pg)) :
        /\ auto' \in Autosave(pg, S, old)
        /\ newer' = late \cup ({RealName(pg, q) : q \in S} \ fresh)
        /\ page' = Counted(Backed(pg, S), P)
  BY DEF Savestate
<1>2. S \subseteq OpenPages(pg)
  BY DueIsOpen
<1>3. page' \in PageTable /\ SamePages(page', pg)
  BY <1>1, <1>2, FlagsOnly
<1>4. auto' \in AutoTable
  BY <1>1 DEF Autosave, AutoTable
<1>5. \A q \in S : RealName(pg, q) \in Names
  BY <1>2 DEF RealName, OpenPages, PageTable, PageRecord
<1> QED
  BY <1>1, <1>3, <1>4, <1>5

-----------------------------------------------------------------------------
(* Type correctness.                                                       *)

(* A step of the user that saves the state: what the files hold, and which *)
(* pages are open, is the caller's business.                               *)
LEMMA LoadKeeps ==
  ASSUME TypeOK, NEW p \in Pages, NEW n \in Names, NEW from_autosave \in BOOLEAN,
         Load(p, n, from_autosave)
  PROVE  /\ page' \in PageTable /\ OpenPages(page') = OpenPages(page) \cup {p}
         /\ auto' \in AutoTable /\ newer' \subseteq Names
<1> USE FilesAssumption
<1> DEFINE c == IF from_autosave THEN auto[n] ELSE file[Real[n]]
           pg == [page EXCEPT ![p] = Fresh(n, c, from_autosave, TRUE)]
<1>1. c \in Contents /\ Savestate(pg, {p}, auto, newer)
  BY DEF Load
<1>2. Fresh(n, c, from_autosave, TRUE) \in PageRecord
  BY <1>1, FreshTyped
<1> HIDE DEF c
<1>3. pg \in PageTable /\ OpenPages(pg) = OpenPages(page) \cup {p}
  <2>1. page \in PageTable
    BY DEF TypeOK, PageTable
  <2> QED
    BY <1>2, <2>1, Replaced
<1>4. newer \subseteq Names
  BY DEF TypeOK
<1> HIDE DEF pg
<1>5. page' \in PageTable /\ SamePages(page', pg) /\ auto' \in AutoTable /\ newer' \subseteq Names
  BY <1>1, <1>3, <1>4, SavestateKeeps
<1> QED
  BY <1>3, <1>5 DEF SamePages

(* Every step keeps the types.                                             *)
LEMMA TypeStep == TypeOK /\ [Next]_vars => TypeOK'
<1> SUFFICES ASSUME TypeOK, [Next]_vars PROVE TypeOK'
  OBVIOUS
<1> USE FilesAssumption
<1>t. /\ page \in PageTable /\ file \in FileTable /\ backup \in FileTable
      /\ auto \in AutoTable /\ newer \subseteq Names /\ fresh \subseteq Names
      /\ written \in FileTable /\ crashed \subseteq Names /\ left \subseteq Names
      /\ undone \subseteq OpenPages(page)
  BY DEF TypeOK, PageTable, FileTable, AutoTable
<1>s. saving \in [page : Pages, name : Names] \cup {Idle} /\ (saving # Idle => page[saving.page] # Closed)
  BY DEF TypeOK
<1>1. ASSUME NEW p \in Pages, NEW n \in Names, OpenPage(p, n) PROVE TypeOK'
  <2>1. PICK from_autosave \in BOOLEAN : Load(p, n, from_autosave)
    BY <1>1 DEF OpenPage
  <2>2. /\ page' \in PageTable /\ OpenPages(page') = OpenPages(page) \cup {p}
        /\ auto' \in AutoTable /\ newer' \subseteq Names
    BY <2>1, LoadKeeps
  <2> QED
    BY <1>1, <2>2, <1>t DEF OpenPage, TypeOK, PageTable, FileTable, AutoTable, history
<1>2. ASSUME NEW p \in Pages, NEW n \in Names, OpenPageFails(p, n) PROVE TypeOK'
  BY <1>2, <1>t, <1>s DEF OpenPageFails, Unlink, TypeOK, PageTable, FileTable, AutoTable
<1>3. ASSUME NEW p \in Pages, NEW n \in Names, NewPage(p, n) PROVE TypeOK'
  <2> DEFINE pg == [page EXCEPT ![p] = Fresh(n, Empty, FALSE, FALSE)]
  <2>1. Fresh(n, Empty, FALSE, FALSE) \in PageRecord
    BY FreshTyped
  <2>2. pg \in PageTable /\ OpenPages(pg) = OpenPages(page) \cup {p}
    BY <2>1, <1>t DEF PageTable, OpenPages
  <2>3. Savestate(pg, {p}, auto, newer)
    BY <1>3 DEF NewPage
  <2> HIDE DEF pg
  <2>4. page' \in PageTable /\ SamePages(page', pg) /\ auto' \in AutoTable /\ newer' \subseteq Names
    BY <2>2, <2>3, <1>t, SavestateKeeps
  <2> QED
    BY <1>3, <2>2, <2>4, <1>t DEF NewPage, SamePages, TypeOK, PageTable, FileTable, AutoTable, history
<1>4. ASSUME NEW p \in Pages, NEW c \in Contents, Edit(p, c) PROVE TypeOK'
  <2> DEFINE pg == [page EXCEPT ![p].content = c, ![p].changed = TRUE]
  <2>1. page[p] \in PageRecord
    BY <1>4, <1>t DEF Edit, PageTable
  <2> DEFINE new == [page[p] EXCEPT !.content = c, !.changed = TRUE]
  <2>2. new \in PageRecord
    BY <2>1 DEF PageRecord
  <2>3. pg = [page EXCEPT ![p] = new]
    BY <1>t DEF PageTable
  <2>4. pg \in PageTable /\ OpenPages(pg) = OpenPages(page) /\ p \in OpenPages(pg)
    <3>1. p \in OpenPages(page)
      BY <1>4 DEF Edit, OpenPages
    <3> HIDE DEF pg, new
    <3>2. pg \in PageTable /\ OpenPages(pg) = OpenPages(page) \cup {p}
      BY <2>2, <2>3, <1>t, Replaced
    <3> QED
      BY <3>1, <3>2
  <2>5. Savestate(pg, {p}, auto, newer)
    BY <1>4 DEF Edit
  <2> HIDE DEF pg
  <2>6. page' \in PageTable /\ SamePages(page', pg) /\ auto' \in AutoTable /\ newer' \subseteq Names
    BY <2>4, <2>5, <1>t, SavestateKeeps
  <2> QED
    BY <1>4, <2>4, <2>6, <1>t DEF Edit, SamePages, TypeOK, PageTable, FileTable, AutoTable
<1>5. ASSUME NEW p \in Pages, NEW c \in Contents, NEW changed \in BOOLEAN, Undo(p, c, changed) PROVE TypeOK'
  <2>1. page[p] \in PageRecord
    BY <1>5, <1>t DEF Undo, PageTable
  <2> DEFINE new == [page[p] EXCEPT !.content = c, !.changed = changed]
  <2>2. new \in PageRecord
    BY <2>1 DEF PageRecord
  <2>3. page' = [page EXCEPT ![p] = new]
    BY <1>5, <1>t DEF Undo, PageTable
  <2>4. page' \in PageTable /\ OpenPages(page') = OpenPages(page) /\ p \in OpenPages(page)
    <3>1. p \in OpenPages(page)
      BY <1>5 DEF Undo, OpenPages
    <3> HIDE DEF new
    <3>2. page' \in PageTable /\ OpenPages(page') = OpenPages(page) \cup {p}
      BY <2>2, <2>3, <1>t, Replaced
    <3> QED
      BY <3>1, <3>2
  <2> QED
    BY <1>5, <2>4, <1>t DEF Undo, TypeOK, PageTable, FileTable, AutoTable
<1>6. CASE Look
  <2>1. page' \in PageTable /\ SamePages(page', page) /\ auto' \in AutoTable /\ newer' \subseteq Names
    BY <1>6, <1>t, SavestateKeeps DEF Look
  <2> QED
    BY <1>6, <2>1, <1>t DEF Look, SamePages, TypeOK, PageTable, FileTable, AutoTable, history
<1>7. CASE AutosaveTimer
  <2>1. ASSUME NEW p \in OpenPages(page)
        PROVE  [page[p] EXCEPT !.do_autosave_backup = TRUE] \in PageRecord
    <3>1. page[p] \in PageRecord
      BY <1>t DEF OpenPages, PageTable
    <3> QED
      BY <3>1 DEF PageRecord
  <2>2. page' \in PageTable /\ OpenPages(page') = OpenPages(page)
    BY <1>7, <2>1, <1>t DEF AutosaveTimer, OpenPages, PageTable
  <2> QED
    BY <1>7, <2>2, <1>t, <1>s DEF AutosaveTimer, TypeOK, PageTable, FileTable, AutoTable, history
<1>8. ASSUME NEW p \in Pages, NEW n \in Names, SavePage(p, n) PROVE TypeOK'
  <2>1. backup' \in FileTable /\ file' \in FileTable
    <3>1. CASE UNCHANGED <<backup, file>>
      BY <3>1, <1>t
    <3>2. CASE /\ backup' = [backup EXCEPT ![Real[n]] = file[Real[n]]]
               /\ file' = [file EXCEPT ![Real[n]] = Missing]
      <4>1. Real[n] \in Names /\ file[Real[n]] \in Contents \cup {Garbage, Missing}
        BY <1>t DEF FileTable
      <4> QED
        BY <3>2, <4>1, <1>t DEF FileTable
    <3> QED
      BY <1>8, <3>1, <3>2 DEF SavePage
  <2>2. saving' \in [page : Pages, name : Names] /\ saving'.page = p
    BY <1>8 DEF SavePage
  <2> QED
    BY <1>8, <2>1, <2>2, <1>t DEF SavePage, TypeOK, PageTable, FileTable, AutoTable, history
<1>9. CASE SavePageDone
  <2> DEFINE p == saving.page
             n == saving.name
             new == [name |-> SavedName(p, n), content |-> page[p].content,
                     changed |-> FALSE, exists |-> TRUE, known |-> TRUE,
                     saved_since_first_loaded |-> TRUE, ops |-> FALSE,
                     do_autosave_backup |-> FALSE]
             pg == [page EXCEPT ![p] = new]
  <2>1. p \in Pages /\ n \in Names /\ page[p] # Closed /\ Real[n] \in Names
    BY <1>9, <1>s DEF SavePageDone
  <2>2. page[p] \in PageRecord
    BY <2>1, <1>t DEF PageTable
  <2>3. new \in PageRecord
    BY <2>1, <2>2 DEF PageRecord, SavedName
  <2>4. page[p].content \in Contents
    BY <2>2 DEF PageRecord
  <2>5. /\ page' = Outdated(pg, Real[n], Pages \ {p})
        /\ file' = [file EXCEPT ![Real[n]] = page[p].content]
        /\ written' = [written EXCEPT ![Real[n]] = page[p].content]
        /\ newer' = newer \ {Real[n]} /\ fresh' = fresh \cup {Real[n]}
        /\ undone' = undone \ {p} /\ saving' = Idle
        /\ backup' = backup /\ auto' = auto /\ crashed' = crashed
        /\ left' \in {left, left \cup {RealName(page, p)}}
    BY <1>9 DEF SavePageDone
  <2>9. left' \subseteq Names
    BY <2>2, <2>5, <1>t DEF RealName, PageRecord
  <2> HIDE DEF new
  <2>6. pg \in PageTable /\ OpenPages(pg) = OpenPages(page)
    BY <2>1, <2>3, <1>t DEF PageTable, OpenPages
  <2> HIDE DEF pg, p, n
  <2>7. page' \in PageTable /\ OpenPages(page') = OpenPages(page)
    BY <2>5, <2>6, OutdatedTyped
  <2>8. file' \in FileTable /\ written' \in FileTable
    BY <2>1, <2>4, <2>5, <1>t DEF FileTable
  <2> QED
    BY <2>1, <2>5, <2>7, <2>8, <2>9, <1>t DEF TypeOK, PageTable, FileTable, AutoTable
<1>10. CASE SavePageFails
  BY <1>10, <1>t DEF SavePageFails, TypeOK, PageTable, FileTable, AutoTable, history
<1>11. ASSUME NEW p \in Pages, ClosePage(p) PROVE TypeOK'
  <2>1. page' \in PageTable /\ OpenPages(page') = OpenPages(page) \ {p}
    BY <1>11, <1>t DEF ClosePage, PageTable, OpenPages
  <2>2. auto' \in AutoTable /\ newer' \subseteq Names
    BY <1>11, <1>t DEF ClosePage, Unlink, AutoTable
  <2> QED
    BY <1>11, <2>1, <2>2, <1>t DEF ClosePage, TypeOK, PageTable, FileTable, AutoTable
<1>12. ASSUME NEW p \in Pages, RevertPage(p) PROVE TypeOK'
  <2> DEFINE n == page[p].name
             c == file[Real[n]]
             pg == [page EXCEPT ![p] = Fresh(n, c, FALSE, TRUE)]
             old == [auto EXCEPT ![Real[n]] = Missing]
             late == newer \ {Real[n]}
  <2>1. n \in Names
    BY <1>12, <1>t DEF RevertPage, PageTable, PageRecord
  <2>2. \/ c \in Contents /\ Savestate(pg, {p}, old, late)
        \/ Unlink(n) /\ page' = [page EXCEPT ![p] = Closed]
    BY <1>12 DEF RevertPage
  <2>3. page' \in PageTable /\ OpenPages(page) \ {p} \subseteq OpenPages(page')
        /\ auto' \in AutoTable /\ newer' \subseteq Names
    <3>1. CASE c \in Contents /\ Savestate(pg, {p}, old, late)
      <4>1. Fresh(n, c, FALSE, TRUE) \in PageRecord
        BY <2>1, <3>1, FreshTyped
      <4> HIDE DEF n, c
      <4>2. pg \in PageTable /\ OpenPages(pg) = OpenPages(page) \cup {p}
        BY <4>1, <1>t DEF PageTable, OpenPages
      <4>3. late \subseteq Names
        BY <1>t
      <4> HIDE DEF pg, old, late
      <4>4. page' \in PageTable /\ SamePages(page', pg) /\ auto' \in AutoTable /\ newer' \subseteq Names
        BY <3>1, <4>2, <4>3, SavestateKeeps
      <4> QED
        BY <4>2, <4>4 DEF SamePages
    <3>2. CASE Unlink(n) /\ page' = [page EXCEPT ![p] = Closed]
      BY <3>2, <1>t DEF Unlink, PageTable, AutoTable, OpenPages
    <3> QED
      BY <2>2, <3>1, <3>2
  <2>4. /\ undone' = undone \ {p} /\ crashed' \subseteq crashed /\ left' \subseteq left
        /\ saving = Idle /\ UNCHANGED <<file, backup, fresh, saving, written>>
    BY <1>12 DEF RevertPage
  <2> HIDE DEF n, c, pg, old, late
  <2> QED
    BY <2>3, <2>4, <1>t DEF TypeOK, PageTable, FileTable, AutoTable
<1>13. CASE Crash
  <2>1. page' \in PageTable /\ crashed' \subseteq Names
    BY <1>13, <1>t DEF Crash, PageTable, PageRecord, OpenPages, RealName
  <2> QED
    BY <1>13, <2>1, <1>t DEF Crash, TypeOK, PageTable, FileTable, AutoTable
<1>14. ASSUME NEW n \in Names, NEW c \in Contents \cup {Garbage}, ExternalWrite(n, c) PROVE TypeOK'
  <2>1. page' \in PageTable /\ OpenPages(page') = OpenPages(page)
    BY <1>14, <1>t, OutdatedTyped DEF ExternalWrite
  <2>2. file' \in FileTable /\ written' \in FileTable
    BY <1>14, <1>t DEF ExternalWrite, FileTable
  <2>3. /\ newer' = newer \ {n} /\ fresh' = fresh \cup {n}
        /\ UNCHANGED <<backup, auto, saving, crashed, left, undone>>
    BY <1>14 DEF ExternalWrite
  <2> QED
    BY <2>1, <2>2, <2>3, <1>t, <1>s DEF TypeOK, PageTable, FileTable, AutoTable, OpenPages
<1>15. CASE NextSecond
  BY <1>15, <1>t, <1>s DEF NextSecond, TypeOK, PageTable, FileTable, AutoTable, history
<1>16. CASE UNCHANGED vars
  BY <1>16, <1>t, <1>s DEF vars, TypeOK, PageTable, FileTable, AutoTable, history, OpenPages
<1> QED
  BY <1>1, <1>2, <1>3, <1>4, <1>5, <1>6, <1>7, <1>8, <1>9, <1>10, <1>11, <1>12,
     <1>13, <1>14, <1>15, <1>16 DEF Next, User

(* The pages, the files and the save under way always have their types.    *)
THEOREM FilesTyped == Spec => []TypeOK
<1>1. Init => TypeOK
  BY FilesAssumption DEF Init, TypeOK, OpenPages
<1> QED
  BY <1>1, TypeStep, PTL DEF Spec

-----------------------------------------------------------------------------
(* Nothing that was saved is lost.                                         *)

LEMMA SurvivesStep == TypeOK /\ SavedVersionSurvives /\ [Next]_vars => SavedVersionSurvives'
<1> SUFFICES ASSUME TypeOK, SavedVersionSurvives, [Next]_vars PROVE SavedVersionSurvives'
  OBVIOUS
<1> USE FilesAssumption
<1>t. file \in FileTable /\ backup \in FileTable /\ written \in FileTable /\ page \in PageTable
  BY DEF TypeOK, FileTable, PageTable
<1>1. CASE UNCHANGED <<file, backup, written>>
  BY <1>1 DEF SavedVersionSurvives
<1>2. ASSUME NEW p \in Pages, NEW n \in Names, SavePage(p, n) PROVE SavedVersionSurvives'
  <2>1. written' = written
    BY <1>2 DEF SavePage, history
  <2>2. CASE UNCHANGED <<backup, file>>
    BY <1>1, <2>1, <2>2
  <2>3. CASE /\ NeedsBackup(p, n)
             /\ backup' = [backup EXCEPT ![Real[n]] = file[Real[n]]]
             /\ file' = [file EXCEPT ![Real[n]] = Missing]
    <3> SUFFICES ASSUME NEW m \in Names, written[m] # Missing
                 PROVE  file'[m] = written[m] \/ (file'[m] = Missing /\ backup'[m] = written[m])
      BY <2>1 DEF SavedVersionSurvives
    <3>1. file[m] = written[m] \/ (file[m] = Missing /\ backup[m] = written[m])
      BY DEF SavedVersionSurvives
    <3>2. CASE m = Real[n]
      <4>1. file[m] # Missing
        BY <2>3, <3>2 DEF NeedsBackup
      <4>2. file'[m] = Missing /\ backup'[m] = file[m]
        BY <2>3, <3>2, <1>t DEF FileTable
      <4> QED
        BY <3>1, <4>1, <4>2
    <3>3. CASE m # Real[n]
      <4>1. file'[m] = file[m] /\ backup'[m] = backup[m]
        BY <2>3, <3>3, <1>t DEF FileTable
      <4> QED
        BY <3>1, <4>1
    <3> QED
      BY <3>2, <3>3
  <2> QED
    BY <1>2, <2>2, <2>3 DEF SavePage
<1>3. ASSUME NEW r, NEW c, file' = [file EXCEPT ![r] = c], written' = [written EXCEPT ![r] = c],
             backup' = backup
      PROVE  SavedVersionSurvives'
  BY <1>3, <1>t DEF SavedVersionSurvives, FileTable
<1>4. CASE SavePageDone
  BY <1>3, <1>4 DEF SavePageDone
<1>5. ASSUME NEW n \in Names, NEW c, ExternalWrite(n, c) PROVE SavedVersionSurvives'
  BY <1>3, <1>5 DEF ExternalWrite
<1>6. ASSUME NEW p \in Pages, NEW n \in Names,
             OpenPage(p, n) \/ OpenPageFails(p, n) \/ NewPage(p, n)
      PROVE  SavedVersionSurvives'
  BY <1>1, <1>6 DEF OpenPage, OpenPageFails, NewPage, history
<1>7. ASSUME NEW p \in Pages, ClosePage(p) \/ RevertPage(p) PROVE SavedVersionSurvives'
  BY <1>1, <1>7 DEF ClosePage, RevertPage
<1>8. ASSUME NEW p \in Pages, NEW c, Edit(p, c) \/ (\E changed \in BOOLEAN : Undo(p, c, changed))
      PROVE  SavedVersionSurvives'
  BY <1>1, <1>8 DEF Edit, Undo
<1>9. CASE Look \/ AutosaveTimer \/ SavePageFails \/ Crash \/ NextSecond \/ UNCHANGED vars
  BY <1>1, <1>9 DEF Look, AutosaveTimer, SavePageFails, Crash, NextSecond, vars, history
<1> QED
  BY <1>2, <1>4, <1>5, <1>6, <1>7, <1>8, <1>9 DEF Next, User

(* What was last written under a name, by gschem or by another program, is *)
(* in the file or, while the file is missing, in its backup, wherever      *)
(* saving fails or gschem crashes (f_save).                                *)
THEOREM NothingSavedIsLost == Spec => []SavedVersionSurvives
<1>1. Init => SavedVersionSurvives
  BY DEF Init, SavedVersionSurvives
<1> QED
  BY <1>1, SurvivesStep, FilesTyped, PTL DEF Spec

-----------------------------------------------------------------------------
(* Unchanged pages are in their files.                                     *)

(* SavedPageIsRenamed fails for names that differ by case only, and then   *)
(* this does too; the theorem is about all other sets of names.            *)
CaseDoesNotMatter == \A m, n \in Names : Folded[m] = Folded[n] => Real[m] = Real[n]

(* The property for one page, in terms of the page table and the files.    *)
InFile(pg, fl, p) ==
  \/ pg[p].changed
  \/ fl[RealName(pg, p)] \in {pg[p].content, Missing}
  \/ ~pg[p].exists \/ ~pg[p].known

LEMMA UnchangedIffInFile ==
  UnchangedPageIsInFile <=> \A p \in OpenPages(page) \ undone : InFile(page, file, p)
BY DEF UnchangedPageIsInFile, InFile, ChangedOnDisk

(* Saving the state does not matter.                                       *)
LEMMA InFileOfSame ==
  ASSUME NEW pg1, NEW pg2, SamePages(pg1, pg2), NEW fl, NEW p \in OpenPages(pg1),
         InFile(pg2, fl, p)
  PROVE  InFile(pg1, fl, p)
BY DEF SamePages, SamePage, InFile, RealName

(* Forgetting mtimes, too, leaves the property as it was.                  *)
LEMMA InFileOutdated ==
  ASSUME NEW pg \in PageTable, NEW r \in Names, NEW S, NEW fl \in FileTable, NEW c,
         NEW p \in OpenPages(pg),
         InFile(pg, fl, p),
         p \in S \/ pg[p].content = c \/ RealName(pg, p) # r
  PROVE  InFile(Outdated(pg, r, S), [fl EXCEPT ![r] = c], p)
<1> USE FilesAssumption
<1>1. p \in Pages /\ pg[p] \in PageRecord
  BY DEF OpenPages, PageTable
<1>2. CASE p \in S /\ RealName(pg, p) = r
  <2>1. Outdated(pg, r, S)[p] = [pg[p] EXCEPT !.known = FALSE]
    BY <1>1, <1>2 DEF Outdated
  <2>2. Outdated(pg, r, S)[p].known = FALSE
    BY <1>1, <2>1 DEF PageRecord
  <2> QED
    BY <2>2 DEF InFile
<1>3. CASE ~(p \in S /\ RealName(pg, p) = r)
  <2>1. Outdated(pg, r, S)[p] = pg[p]
    BY <1>1, <1>3 DEF Outdated
  <2>2. RealName(pg, p) \in Names
    BY <1>1 DEF RealName, PageRecord
  <2>3. CASE RealName(pg, p) # r
    BY <2>1, <2>2, <2>3 DEF InFile, RealName, FileTable
  <2>4. CASE pg[p].content = c /\ RealName(pg, p) = r
    BY <2>1, <2>2, <2>4 DEF InFile, RealName, FileTable
  <2> QED
    BY <1>3, <2>3, <2>4
<1> QED
  BY <1>2, <1>3

(* A new page in the place of p, with the state saved afterwards.          *)
LEMMA InFileSaved ==
  ASSUME NEW pg \in PageTable, NEW p \in Pages, NEW new \in PageRecord,
         NEW q \in Pages, NEW fl, NEW pgNew, SamePages(pgNew, [pg EXCEPT ![p] = new]),
         q \in OpenPages(pgNew),
         q # p => InFile(pg, fl, q),
         q = p => \/ new.changed \/ ~new.exists
                  \/ fl[Real[new.name]] = new.content
  PROVE  InFile(pgNew, fl, q)
<1> DEFINE pg2 == [pg EXCEPT ![p] = new]
<1>1. InFile(pg2, fl, q)
  <2>1. CASE q = p
    <3>1. pg2[q] = new
      BY <2>1 DEF PageTable
    <3> QED
      BY <2>1, <3>1 DEF InFile, RealName
  <2>2. CASE q # p
    <3>1. pg2[q] = pg[q]
      BY <2>2 DEF PageTable
    <3> QED
      BY <2>2, <3>1 DEF InFile, RealName
  <2> QED
    BY <2>1, <2>2
<1> HIDE DEF pg2
<1> QED
  BY <1>1, InFileOfSame DEF pg2

LEMMA UnchangedStep ==
  ASSUME CaseDoesNotMatter, TypeOK, UnchangedPageIsInFile, [Next]_vars
  PROVE  UnchangedPageIsInFile'
<1> USE FilesAssumption
<1>t. page \in PageTable /\ file \in FileTable /\ undone \subseteq OpenPages(page)
  BY DEF TypeOK, PageTable, FileTable
<1>i. \A q \in OpenPages(page) \ undone : InFile(page, file, q)
  BY UnchangedIffInFile
<1>g. SUFFICES \A q \in OpenPages(page') \ undone' : InFile(page', file', q)
  BY DEF UnchangedPageIsInFile, InFile, ChangedOnDisk
<1> DEFINE Goal == \A q \in OpenPages(page') \ undone' : InFile(page', file', q)
<1>0. CASE UNCHANGED <<page, file, undone>>
  BY <1>0, <1>i DEF OpenPages, InFile, RealName
<1>1. ASSUME NEW p \in Pages, NEW n \in Names, OpenPage(p, n) PROVE Goal
  <2>1. PICK from_autosave \in BOOLEAN : Load(p, n, from_autosave)
    BY <1>1 DEF OpenPage
  <2> DEFINE c == IF from_autosave THEN auto[n] ELSE file[Real[n]]
             new == Fresh(n, c, from_autosave, TRUE)
             pg == [page EXCEPT ![p] = new]
  <2>2. c \in Contents /\ Savestate(pg, {p}, auto, newer)
    BY <2>1 DEF Load
  <2>3. new \in PageRecord
    BY <2>2, FreshTyped
  <2>4. new.changed \/ file[Real[new.name]] = new.content
    BY DEF Fresh
  <2>5. file' = file /\ undone' = undone /\ newer \subseteq Names
    BY <1>1 DEF OpenPage, history, TypeOK
  <2> HIDE DEF new, c
  <2>6. pg \in PageTable /\ OpenPages(pg) = OpenPages(page) \cup {p}
    BY <2>3, <1>t, Replaced
  <2>7. SamePages(page', pg)
    <3> HIDE DEF pg
    <3> QED
      BY <2>2, <2>5, <2>6, SavestateKeeps
  <2> SUFFICES ASSUME NEW q \in OpenPages(page') \ undone' PROVE InFile(page', file, q)
    BY <2>5
  <2>8. q \in Pages /\ (q # p => InFile(page, file, q))
    BY <2>5, <2>6, <2>7, <1>i DEF SamePages, OpenPages
  <2> QED
    BY <2>3, <2>4, <2>7, <2>8, <1>t, InFileSaved
<1>2. ASSUME NEW p \in Pages, NEW n \in Names, OpenPageFails(p, n) PROVE Goal
  BY <1>0, <1>2 DEF OpenPageFails
<1>3. ASSUME NEW p \in Pages, NEW n \in Names, NewPage(p, n) PROVE Goal
  <2> DEFINE new == Fresh(n, Empty, FALSE, FALSE)
             pg == [page EXCEPT ![p] = new]
  <2>2. Savestate(pg, {p}, auto, newer)
    BY <1>3 DEF NewPage
  <2>3. new \in PageRecord
    BY FreshTyped
  <2>4. ~new.exists
    BY DEF Fresh
  <2>5. file' = file /\ undone' = undone /\ newer \subseteq Names
    BY <1>3 DEF NewPage, history, TypeOK
  <2> HIDE DEF new
  <2>6. pg \in PageTable /\ OpenPages(pg) = OpenPages(page) \cup {p}
    BY <2>3, <1>t, Replaced
  <2>7. SamePages(page', pg)
    <3> HIDE DEF pg
    <3> QED
      BY <2>2, <2>5, <2>6, SavestateKeeps
  <2> SUFFICES ASSUME NEW q \in OpenPages(page') \ undone' PROVE InFile(page', file, q)
    BY <2>5
  <2>8. q \in Pages /\ (q # p => InFile(page, file, q))
    BY <2>5, <2>6, <2>7, <1>i DEF SamePages, OpenPages
  <2> QED
    BY <2>3, <2>4, <2>7, <2>8, <1>t, InFileSaved
<1>4. ASSUME NEW p \in Pages, NEW c \in Contents, Edit(p, c) PROVE Goal
  <2> DEFINE new == [page[p] EXCEPT !.content = c, !.changed = TRUE]
             pg == [page EXCEPT ![p] = new]
  <2>1. page[p] \in PageRecord /\ p \in OpenPages(page)
    BY <1>4, <1>t DEF Edit, PageTable, OpenPages
  <2>2. Savestate(pg, {p}, auto, newer)
    <3>1. Savestate([page EXCEPT ![p].content = c, ![p].changed = TRUE], {p}, auto, newer)
      BY <1>4 DEF Edit
    <3>2. [page EXCEPT ![p].content = c, ![p].changed = TRUE] = pg
      BY <1>t DEF PageTable
    <3> QED
      BY <3>1, <3>2
  <2>3. new \in PageRecord /\ new.changed
    BY <2>1 DEF PageRecord
  <2>5. file' = file /\ undone' = undone \ {p} /\ newer \subseteq Names
    BY <1>4 DEF Edit, TypeOK
  <2> HIDE DEF new
  <2>6. pg \in PageTable /\ OpenPages(pg) = OpenPages(page) \cup {p}
    BY <2>3, <1>t, Replaced
  <2>7. SamePages(page', pg)
    <3> HIDE DEF pg
    <3> QED
      BY <2>2, <2>5, <2>6, SavestateKeeps
  <2> SUFFICES ASSUME NEW q \in OpenPages(page') \ undone' PROVE InFile(page', file, q)
    BY <2>5
  <2>8. q \in Pages /\ (q # p => InFile(page, file, q))
    BY <2>5, <2>6, <2>7, <1>i DEF SamePages, OpenPages
  <2> QED
    BY <2>3, <2>7, <2>8, <1>t, InFileSaved
<1>5. ASSUME NEW p \in Pages, NEW c \in Contents, NEW changed \in BOOLEAN, Undo(p, c, changed) PROVE Goal
  <2>1. undone' = undone \cup {p} /\ file' = file
    BY <1>5 DEF Undo
  <2>2. \A q \in Pages : q # p => page'[q] = page[q]
    BY <1>5, <1>t DEF Undo, PageTable
  <2> QED
    BY <2>1, <2>2, <1>i DEF OpenPages, InFile, RealName
<1>6. CASE Look
  <2>1. SamePages(page', page) /\ file' = file /\ undone' = undone
    BY <1>6, <1>t, SavestateKeeps DEF Look, history, TypeOK
  <2> QED
    BY <2>1, <1>i, InFileOfSame DEF SamePages
<1>7. CASE AutosaveTimer
  <2>1. file' = file /\ undone' = undone
    BY <1>7 DEF AutosaveTimer, history
  <2>2. ASSUME NEW q \in Pages
        PROVE  /\ page'[q] = Closed <=> page[q] = Closed
               /\ q \in OpenPages(page) => SamePage(page'[q], page[q])
    <3>1. CASE q \in OpenPages(page) /\ page[q].ops
      <4>1. page[q] \in PageRecord
        BY <3>1, <1>t DEF OpenPages, PageTable
      <4>2. page'[q] = [page[q] EXCEPT !.do_autosave_backup = TRUE]
        BY <1>7, <3>1 DEF AutosaveTimer
      <4>3. page'[q] \in PageRecord /\ SamePage(page'[q], page[q])
        BY <4>1, <4>2 DEF PageRecord, SamePage
      <4> QED
        BY <4>1, <4>3
    <3>2. CASE ~(q \in OpenPages(page) /\ page[q].ops)
      BY <1>7, <3>2 DEF AutosaveTimer, SamePage
    <3> QED
      BY <3>1, <3>2
  <2>3. SamePages(page', page)
    BY <2>2 DEF SamePages, OpenPages
  <2> QED
    BY <2>1, <2>3, <1>i, InFileOfSame DEF SamePages
<1>8. ASSUME NEW p \in Pages, NEW n \in Names, SavePage(p, n) PROVE Goal
  <2>1. page' = page /\ undone' = undone
    BY <1>8 DEF SavePage, history
  <2>2. file' = file \/ file' = [file EXCEPT ![Real[n]] = Missing]
    BY <1>8 DEF SavePage
  <2>3. \A m \in Names : file'[m] = file[m] \/ file'[m] = Missing
    BY <2>2, <1>t DEF FileTable
  <2>4. \A q \in OpenPages(page) : RealName(page, q) \in Names
    BY <1>t DEF OpenPages, PageTable, PageRecord, RealName
  <2> QED
    BY <2>1, <2>3, <2>4, <1>i DEF InFile, RealName, OpenPages
<1>9. CASE SavePageDone
  <2> DEFINE p == saving.page
             n == saving.name
             new == [name |-> SavedName(p, n), content |-> page[p].content,
                     changed |-> FALSE, exists |-> TRUE, known |-> TRUE,
                     saved_since_first_loaded |-> TRUE, ops |-> FALSE,
                     do_autosave_backup |-> FALSE]
             pg == [page EXCEPT ![p] = new]
  <2>1. p \in Pages /\ n \in Names /\ page[p] # Closed /\ Real[n] \in Names
    BY <1>9 DEF SavePageDone, TypeOK
  <2>2. page[p] \in PageRecord /\ page[p].content \in Contents
    BY <2>1, <1>t DEF PageTable, PageRecord
  <2>3. new \in PageRecord /\ new.content = page[p].content /\ Real[new.name] = Real[n]
    <3>1. SavedName(p, n) \in Names /\ Real[SavedName(p, n)] = Real[n]
      BY <2>1, <2>2 DEF SavedName, CaseDoesNotMatter, PageRecord
    <3> QED
      BY <2>2, <3>1 DEF PageRecord
  <2>4. /\ page' = Outdated(pg, Real[n], Pages \ {p})
        /\ file' = [file EXCEPT ![Real[n]] = page[p].content]
        /\ undone' = undone \ {p}
    BY <1>9 DEF SavePageDone
  <2> HIDE DEF new
  <2>5. pg \in PageTable /\ OpenPages(pg) = OpenPages(page) \cup {p}
    <3>1. /\ p \in Pages /\ new \in PageRecord /\ page \in PageTable
      BY <2>1, <2>3, <1>t
    <3> HIDE DEF p
    <3> QED
      BY <3>1, Replaced
  <2>6. pg[p] = new /\ \A q \in Pages : q # p => pg[q] = page[q]
    BY <2>1, <1>t DEF PageTable
  <2>7. p \in OpenPages(page)
    BY <2>1 DEF OpenPages
  <2> HIDE DEF pg, p, n
  <2>8. OpenPages(page') = OpenPages(page)
    BY <2>4, <2>5, <2>7, OutdatedTyped
  <2> SUFFICES ASSUME NEW q \in OpenPages(page') \ undone' PROVE InFile(page', file', q)
    OBVIOUS
  <2>9. q \in Pages /\ q \in OpenPages(pg)
    BY <2>5, <2>8 DEF OpenPages
  <2>10. CASE q = p
    <3>1. page'[q] = new
      BY <2>4, <2>6, <2>9, <2>10 DEF Outdated
    <3>2. file'[Real[n]] = new.content
      BY <2>1, <2>3, <2>4, <1>t DEF FileTable
    <3> QED
      BY <2>3, <3>1, <3>2 DEF InFile, RealName
  <2>11. CASE q # p
    <3>1. InFile(page, file, q)
      BY <2>4, <2>8, <2>11, <1>i
    <3>2. InFile(pg, file, q)
      BY <2>6, <2>9, <2>11, <3>1 DEF InFile, RealName
    <3>3. InFile(Outdated(pg, Real[n], Pages \ {p}), [file EXCEPT ![Real[n]] = page[p].content], q)
      BY <2>1, <2>5, <2>9, <2>11, <3>2, <1>t, InFileOutdated
    <3> QED
      BY <2>4, <3>3
  <2> QED
    BY <2>10, <2>11
<1>10. CASE SavePageFails
  BY <1>0, <1>10 DEF SavePageFails, history
<1>11. ASSUME NEW p \in Pages, file' = file, undone' = undone \ {p},
              page' = [page EXCEPT ![p] = Closed]
       PROVE  Goal
  BY <1>11, <1>i, <1>t DEF OpenPages, PageTable, InFile, RealName
<1>12. ASSUME NEW p \in Pages, ClosePage(p) PROVE Goal
  BY <1>11, <1>12 DEF ClosePage
<1>13. ASSUME NEW p \in Pages, RevertPage(p) PROVE Goal
  <2> DEFINE n == page[p].name
             c == file[Real[n]]
             new == Fresh(n, c, FALSE, TRUE)
             pg == [page EXCEPT ![p] = new]
             old == [auto EXCEPT ![Real[n]] = Missing]
             late == newer \ {Real[n]}
  <2>1. n \in Names
    BY <1>13, <1>t DEF RevertPage, PageTable, PageRecord
  <2>2. \/ c \in Contents /\ Savestate(pg, {p}, old, late)
        \/ page' = [page EXCEPT ![p] = Closed]
    BY <1>13 DEF RevertPage
  <2>3. file' = file /\ undone' = undone \ {p} /\ newer \subseteq Names
    BY <1>13 DEF RevertPage, TypeOK
  <2>4. CASE page' = [page EXCEPT ![p] = Closed]
    BY <1>11, <2>3, <2>4
  <2>5. CASE c \in Contents /\ Savestate(pg, {p}, old, late)
    <3>1. new \in PageRecord
      BY <2>1, <2>5, FreshTyped
    <3>2. file[Real[new.name]] = new.content
      BY DEF Fresh
    <3>3. late \subseteq Names
      BY <2>3
    <3> HIDE DEF new, c, old, late, n
    <3>4. pg \in PageTable /\ OpenPages(pg) = OpenPages(page) \cup {p}
      BY <3>1, <1>t, Replaced
    <3>5. SamePages(page', pg)
      <4> HIDE DEF pg
      <4> QED
        BY <2>5, <3>3, <3>4, SavestateKeeps
    <3> SUFFICES ASSUME NEW q \in OpenPages(page') \ undone' PROVE InFile(page', file, q)
      BY <2>3
    <3>6. q \in Pages /\ (q # p => InFile(page, file, q))
      BY <2>3, <3>4, <3>5, <1>i DEF SamePages, OpenPages
    <3> QED
      BY <3>1, <3>2, <3>5, <3>6, <1>t, InFileSaved
  <2> QED
    BY <2>2, <2>4, <2>5
<1>14. CASE Crash
  BY <1>14 DEF Crash, OpenPages
<1>15. ASSUME NEW n \in Names, NEW c \in Contents \cup {Garbage}, ExternalWrite(n, c) PROVE Goal
  <2>1. /\ page' = Outdated(page, n, Pages) /\ file' = [file EXCEPT ![n] = c]
        /\ undone' = undone
    BY <1>15 DEF ExternalWrite
  <2>2. OpenPages(page') = OpenPages(page)
    BY <2>1, <1>t, OutdatedTyped
  <2> SUFFICES ASSUME NEW q \in OpenPages(page') \ undone' PROVE InFile(page', file', q)
    OBVIOUS
  <2>3. q \in Pages /\ q \in OpenPages(page) /\ InFile(page, file, q)
    BY <2>1, <2>2, <1>i DEF OpenPages
  <2> QED
    BY <2>1, <2>3, <1>t, InFileOutdated
<1>16. CASE NextSecond \/ UNCHANGED vars
  BY <1>0, <1>16 DEF NextSecond, vars, history
<1> QED
  BY <1>1, <1>2, <1>3, <1>4, <1>5, <1>6, <1>7, <1>8, <1>9, <1>10, <1>12,
     <1>13, <1>14, <1>15, <1>16 DEF Next, User

(* Unless names differ by case only: a page that counts as unchanged shows *)
(* what its file holds, or gschem sees that the file was changed, or the   *)
(* file is gone (x_highlevel_close_page, which does not ask then).         *)
THEOREM UnchangedIsInFile ==
  ASSUME CaseDoesNotMatter
  PROVE  Spec => []UnchangedPageIsInFile
<1>1. Init => UnchangedPageIsInFile
  BY DEF Init, UnchangedPageIsInFile, OpenPages
<1>2. TypeOK /\ UnchangedPageIsInFile /\ [Next]_vars => UnchangedPageIsInFile'
  BY UnchangedStep
<1> QED
  BY <1>1, <1>2, FilesTyped, PTL DEF Spec

-----------------------------------------------------------------------------
(* Autosaves.                                                              *)

(* An autosave belongs to a file, not to a page: of two pages that show    *)
(* the same file, each overwrites the autosave of the other.  gschem opens *)
(* no file on two pages, but "Save As" and links can lead to it.           *)
OnePagePerFile ==
  \A p, q \in OpenPages(page) : RealName(page, p) = RealName(page, q) => p = q

(* Opening a file by another name of it fails if the file was overwritten  *)
(* with something that is not a schematic, and then deletes the autosave   *)
(* of the page that shows the file already.                                *)
NoLinks == \A n \in Names : Real[n] = n

(* The property for one page.                                              *)
Quiet(pg, au, p) ==
  UndoControl /\ pg[p].changed /\ ~pg[p].ops => au[RealName(pg, p)] = pg[p].content

LEMMA QuietIffAutosaved ==
  QuietPageIsAutosaved <=> \A p \in OpenPages(page) \ undone : Quiet(page, auto, p)
BY DEF QuietPageIsAutosaved, Quiet

(* What saving the state does to the autosaves: that of a page that was    *)
(* due is written or not, and the page stays due in the latter case; no    *)
(* other page of the same file interferes.                                 *)
LEMMA SavestateQuiet ==
  ASSUME NEW pg \in PageTable, NEW P, P \subseteq OpenPages(pg),
         NEW old, NEW late, late \subseteq Names, Savestate(pg, P, old, late),
         OnePagePerFile', NEW q \in OpenPages(pg),
         q \notin P,
         ~pg[q].ops => Quiet(pg, old, q)
  PROVE  Quiet(page', auto', q)
<1> USE FilesAssumption
<1>1. PICK S \in Succeeding(Due(pg)) :
        /\ auto' \in Autosave(pg, S, old)
        /\ page' = Counted(Backed(pg, S), P)
  BY DEF Savestate
<1>2. S \subseteq OpenPages(pg)
  BY DueIsOpen
<1>3. SamePages(page', pg)
  BY SavestateKeeps
<1> DEFINE r == RealName(pg, q)
<1>4. q \in Pages /\ pg[q] \in PageRecord /\ r \in Names
  BY DEF OpenPages, PageTable, PageRecord, RealName
<1>5. /\ page'[q].changed = pg[q].changed /\ page'[q].content = pg[q].content
      /\ RealName(page', q) = r
  BY <1>3 DEF SamePages, SamePage, RealName
<1>6. {p \in S : RealName(pg, p) = r} = S \cap {q}
  <2>1. \A p \in OpenPages(pg) : RealName(page', p) = RealName(pg, p) /\ p \in OpenPages(page')
    BY <1>3 DEF SamePages, SamePage, RealName
  <2> QED
    BY <1>2, <2>1 DEF OnePagePerFile
<1>7. CASE q \in S
  <2>1. auto'[r] = pg[q].content
    BY <1>1, <1>4, <1>6, <1>7 DEF Autosave
  <2> QED
    BY <1>5, <2>1 DEF Quiet
<1>8. CASE q \notin S
  <2>1. auto'[r] = old[r]
    BY <1>1, <1>4, <1>6, <1>8 DEF Autosave
  <2>2. page'[q] = pg[q]
    BY <1>1, <1>4, <1>8 DEF Counted, Backed
  <2> QED
    BY <1>5, <2>1, <2>2 DEF Quiet
<1> QED
  BY <1>7, <1>8

(* The page operated on has an operation counted.                          *)
LEMMA SavestateCounts ==
  ASSUME NEW pg \in PageTable, NEW P, P \subseteq OpenPages(pg),
         NEW old, NEW late, Savestate(pg, P, old, late), NEW q \in P
  PROVE  Quiet(page', auto', q)
<1> USE FilesAssumption
<1>1. PICK S \in Succeeding(Due(pg)) : page' = Counted(Backed(pg, S), P)
  BY DEF Savestate
<1>2. q \in Pages /\ pg[q] \in PageRecord
  BY DEF OpenPages, PageTable
<1>3. Backed(pg, S)[q] \in PageRecord
  BY <1>2 DEF Backed, PageRecord
<1>4. UndoControl => page'[q] = [Backed(pg, S)[q] EXCEPT !.ops = TRUE]
  BY <1>1, <1>2 DEF Counted
<1>5. UndoControl => page'[q].ops
  BY <1>3, <1>4 DEF PageRecord
<1> QED
  BY <1>5 DEF Quiet

(* A page p that becomes new, with the state saved afterwards.             *)
LEMMA QuietSaved ==
  ASSUME TypeOK, QuietPageIsAutosaved, OnePagePerFile', NEW p \in Pages, NEW new \in PageRecord,
         NEW old, NEW late, late \subseteq Names,
         Savestate([page EXCEPT ![p] = new], {p}, old, late),
         \A q \in OpenPages(page) \ {p} : old[RealName(page, q)] = auto[RealName(page, q)],
         undone \ {p} \subseteq undone'
  PROVE  QuietPageIsAutosaved'
<1> USE FilesAssumption
<1> DEFINE pg == [page EXCEPT ![p] = new]
<1>1. page \in PageTable
  BY DEF TypeOK, PageTable
<1>2. pg \in PageTable /\ OpenPages(pg) = OpenPages(page) \cup {p}
  BY <1>1, Replaced
<1>3. \A q \in OpenPages(page) \ {p} : pg[q] = page[q]
  BY <1>1 DEF PageTable, OpenPages
<1>4. Savestate(pg, {p}, old, late)
  OBVIOUS
<1> HIDE DEF pg
<1>5. OpenPages(page') = OpenPages(pg)
  BY <1>2, <1>4, SavestateKeeps DEF SamePages
<1>6. \A q \in OpenPages(page) \ undone : Quiet(page, auto, q)
  BY QuietIffAutosaved
<1>7. ASSUME NEW q \in OpenPages(page') \ undone' PROVE Quiet(page', auto', q)
  <2>1. CASE q = p
    BY <1>2, <1>4, <2>1, SavestateCounts
  <2>2. CASE q # p
    <3>1. q \in OpenPages(page) \ undone
      BY <1>2, <1>5, <1>7, <2>2
    <3>2. Quiet(pg, old, q)
      BY <1>3, <1>6, <2>2, <3>1 DEF Quiet, RealName
    <3>3. q \in OpenPages(pg) /\ q \notin {p}
      BY <1>5, <1>7, <2>2
    <3> QED
      BY <1>2, <1>4, <3>2, <3>3, SavestateQuiet
  <2> QED
    BY <2>1, <2>2
<1> QED
  BY <1>7 DEF QuietPageIsAutosaved, Quiet

LEMMA QuietStep ==
  ASSUME NoLinks, TypeOK, OnePagePerFile, OnePagePerFile', QuietPageIsAutosaved, [Next]_vars
  PROVE  QuietPageIsAutosaved'
<1> USE FilesAssumption
<1>t. page \in PageTable /\ newer \subseteq Names /\ undone \subseteq OpenPages(page)
  BY DEF TypeOK, PageTable
<1>i. \A q \in OpenPages(page) \ undone : Quiet(page, auto, q)
  BY QuietIffAutosaved
<1>r. \A q \in OpenPages(page) : page[q] \in PageRecord /\ RealName(page, q) \in Names
  BY <1>t DEF OpenPages, PageTable, PageRecord, RealName
<1> DEFINE Goal == \A q \in OpenPages(page') \ undone' : Quiet(page', auto', q)
<1>0. CASE UNCHANGED <<page, auto, undone>>
  BY <1>0 DEF QuietPageIsAutosaved, OpenPages, RealName
<1>1. ASSUME NEW p \in Pages, NEW n \in Names, OpenPage(p, n) PROVE QuietPageIsAutosaved'
  <2>1. PICK from_autosave \in BOOLEAN : Load(p, n, from_autosave)
    BY <1>1 DEF OpenPage
  <2> DEFINE c == IF from_autosave THEN auto[n] ELSE file[Real[n]]
             new == Fresh(n, c, from_autosave, TRUE)
  <2>2. c \in Contents /\ Savestate([page EXCEPT ![p] = new], {p}, auto, newer)
    BY <2>1 DEF Load
  <2>3. new \in PageRecord
    BY <2>2, FreshTyped
  <2>4. undone \ {p} \subseteq undone'
    BY <1>1 DEF OpenPage, history
  <2> HIDE DEF new, c
  <2> QED
    BY <2>2, <2>3, <2>4, <1>t, QuietSaved
<1>2. ASSUME NEW p \in Pages, NEW n \in Names, NewPage(p, n) PROVE QuietPageIsAutosaved'
  <2> DEFINE new == Fresh(n, Empty, FALSE, FALSE)
  <2>1. Savestate([page EXCEPT ![p] = new], {p}, auto, newer) /\ undone \ {p} \subseteq undone'
    BY <1>2 DEF NewPage, history
  <2>2. new \in PageRecord
    BY FreshTyped
  <2> HIDE DEF new
  <2> QED
    BY <2>1, <2>2, <1>t, QuietSaved
<1>3. ASSUME NEW p \in Pages, NEW c \in Contents, Edit(p, c) PROVE QuietPageIsAutosaved'
  <2> DEFINE new == [page[p] EXCEPT !.content = c, !.changed = TRUE]
  <2>1. page[p] \in PageRecord /\ undone \ {p} \subseteq undone'
    BY <1>3, <1>t DEF Edit, PageTable
  <2>2. Savestate([page EXCEPT ![p] = new], {p}, auto, newer)
    <3>1. Savestate([page EXCEPT ![p].content = c, ![p].changed = TRUE], {p}, auto, newer)
      BY <1>3 DEF Edit
    <3>2. [page EXCEPT ![p].content = c, ![p].changed = TRUE] = [page EXCEPT ![p] = new]
      BY <1>t DEF PageTable
    <3> QED
      BY <3>1, <3>2
  <2>3. new \in PageRecord
    BY <2>1 DEF PageRecord
  <2> HIDE DEF new
  <2> QED
    BY <2>1, <2>2, <2>3, <1>t, QuietSaved
<1>4. ASSUME NEW p \in Pages, NEW c \in Contents, NEW changed \in BOOLEAN, Undo(p, c, changed) PROVE Goal
  <2>1. undone' = undone \cup {p} /\ auto' = auto
    BY <1>4 DEF Undo
  <2>2. \A q \in Pages : q # p => page'[q] = page[q]
    BY <1>4, <1>t DEF Undo, PageTable
  <2> SUFFICES ASSUME NEW q \in OpenPages(page') \ undone' PROVE Quiet(page', auto', q)
    OBVIOUS
  <2>3. q \in OpenPages(page) /\ page'[q] = page[q]
    BY <2>1, <2>2 DEF OpenPages
  <2>4. Quiet(page, auto, q)
    BY <2>1, <2>3, <1>i
  <2> QED
    BY <2>1, <2>3, <2>4 DEF Quiet, RealName
<1>5. CASE Look
  <2>1. Savestate(page, {}, auto, newer) /\ undone' = undone
    BY <1>5 DEF Look, history
  <2>2. OpenPages(page') = OpenPages(page)
    BY <2>1, <1>t, SavestateKeeps DEF SamePages
  <2>3. ASSUME NEW q \in OpenPages(page') \ undone' PROVE Quiet(page', auto', q)
    <3>1. q \in OpenPages(page) /\ Quiet(page, auto, q)
      BY <2>1, <2>2, <2>3, <1>i
    <3> QED
      BY <2>1, <3>1, <1>t, SavestateQuiet
  <2> QED
    BY <2>3 DEF QuietPageIsAutosaved, Quiet
<1>6. CASE AutosaveTimer
  <2>1. auto' = auto /\ undone' = undone
    BY <1>6 DEF AutosaveTimer, history
  <2>2. ASSUME NEW q \in Pages
        PROVE  /\ page'[q] = Closed <=> page[q] = Closed
               /\ q \in OpenPages(page) =>
                    /\ page'[q].name = page[q].name /\ page'[q].content = page[q].content
                    /\ page'[q].changed = page[q].changed /\ page'[q].ops = page[q].ops
    <3>1. CASE q \in OpenPages(page) /\ page[q].ops
      <4>1. page'[q] = [page[q] EXCEPT !.do_autosave_backup = TRUE] /\ page[q] \in PageRecord
        BY <1>6, <1>r, <3>1 DEF AutosaveTimer
      <4>2. page'[q] \in PageRecord
        BY <4>1 DEF PageRecord
      <4> QED
        BY <4>1, <4>2 DEF PageRecord
    <3>2. CASE ~(q \in OpenPages(page) /\ page[q].ops)
      BY <1>6, <3>2 DEF AutosaveTimer
    <3> QED
      BY <3>1, <3>2
  <2>3. OpenPages(page') = OpenPages(page)
    BY <2>2 DEF OpenPages
  <2> SUFFICES ASSUME NEW q \in OpenPages(page') \ undone' PROVE Quiet(page', auto', q)
    BY DEF QuietPageIsAutosaved, Quiet
  <2>4. /\ page'[q].name = page[q].name /\ page'[q].content = page[q].content
        /\ page'[q].changed = page[q].changed /\ page'[q].ops = page[q].ops
    BY <2>2, <2>3 DEF OpenPages
  <2>5. Quiet(page, auto, q)
    BY <2>1, <2>3, <1>i
  <2> QED
    BY <2>1, <2>4, <2>5 DEF Quiet, RealName
<1>7. CASE SavePageDone
  <2> DEFINE p == saving.page
             n == saving.name
             new == [name |-> SavedName(p, n), content |-> page[p].content,
                     changed |-> FALSE, exists |-> TRUE, known |-> TRUE,
                     saved_since_first_loaded |-> TRUE, ops |-> FALSE,
                     do_autosave_backup |-> FALSE]
             pg == [page EXCEPT ![p] = new]
  <2>1. p \in Pages /\ page[p] # Closed /\ n \in Names
    BY <1>7 DEF SavePageDone, TypeOK
  <2>2. new \in PageRecord /\ ~new.changed
    <3>1. page[p] \in PageRecord
      BY <2>1, <1>t DEF PageTable
    <3> QED
      BY <2>1, <3>1 DEF PageRecord, SavedName
  <2>3. /\ page' = Outdated(pg, Real[n], Pages \ {p})
        /\ undone' = undone \ {p} /\ auto' = auto
    BY <1>7 DEF SavePageDone
  <2> HIDE DEF new
  <2>4. pg[p] = new /\ \A q \in Pages : q # p => pg[q] = page[q]
    BY <2>1, <1>t DEF PageTable
  <2>5. pg \in PageTable /\ OpenPages(pg) = OpenPages(page) \cup {p}
    BY <2>1, <2>2, <1>t, Replaced
  <2> HIDE DEF pg, p, n
  <2>6. OpenPages(page') = OpenPages(page)
    BY <2>1, <2>3, <2>5, OutdatedTyped DEF OpenPages
  <2>7. ASSUME NEW q \in OpenPages(page') \ undone' PROVE Quiet(page', auto', q)
    <3>1. q \in Pages /\ pg[q] \in PageRecord
      BY <2>5, <2>6, <2>7 DEF OpenPages, PageTable
    <3>2. /\ page'[q].name = pg[q].name /\ page'[q].content = pg[q].content
          /\ page'[q].changed = pg[q].changed /\ page'[q].ops = pg[q].ops
      BY <2>3, <3>1 DEF Outdated, PageRecord
    <3>3. CASE q = p
      BY <2>2, <2>4, <3>1, <3>2, <3>3 DEF Quiet
    <3>4. CASE q # p
      <4>1. Quiet(page, auto, q)
        BY <2>3, <2>6, <2>7, <3>4, <1>i
      <4>2. pg[q] = page[q]
        BY <2>4, <3>1, <3>4
      <4> QED
        BY <2>3, <3>2, <4>1, <4>2 DEF Quiet, RealName
    <3> QED
      BY <3>3, <3>4
  <2> QED
    BY <2>7 DEF QuietPageIsAutosaved, Quiet
<1>8. ASSUME NEW p \in Pages, p \in OpenPages(page), Unlink(page[p].name),
             undone' = undone \ {p}, page' = [page EXCEPT ![p] = Closed]
      PROVE  Goal
  <2>1. \A q \in OpenPages(page') : q \in OpenPages(page) /\ q # p /\ page'[q] = page[q]
    BY <1>8, <1>t DEF OpenPages, PageTable
  <2>2. \A q \in OpenPages(page') : auto'[RealName(page, q)] = auto[RealName(page, q)]
    BY <1>8, <1>r, <2>1, ZenonT(40) DEF Unlink, OnePagePerFile, RealName, TypeOK
  <2> SUFFICES ASSUME NEW q \in OpenPages(page') \ undone' PROVE Quiet(page', auto', q)
    OBVIOUS
  <2>3. Quiet(page, auto, q)
    BY <1>8, <2>1, <1>i
  <2> QED
    BY <2>1, <2>2, <2>3 DEF Quiet, RealName
<1>9. ASSUME NEW p \in Pages, ClosePage(p) PROVE Goal
  BY <1>8, <1>9 DEF ClosePage, OpenPages
<1>10. ASSUME NEW p \in Pages, RevertPage(p) PROVE QuietPageIsAutosaved'
  <2> DEFINE n == page[p].name
             c == file[Real[n]]
             new == Fresh(n, c, FALSE, TRUE)
             old == [auto EXCEPT ![Real[n]] = Missing]
             late == newer \ {Real[n]}
  <2>1. p \in OpenPages(page) /\ n \in Names /\ undone' = undone \ {p}
    BY <1>10, <1>t DEF RevertPage, PageTable, PageRecord, OpenPages
  <2>2. \/ c \in Contents /\ Savestate([page EXCEPT ![p] = new], {p}, old, late)
        \/ Unlink(n) /\ page' = [page EXCEPT ![p] = Closed]
    BY <1>10 DEF RevertPage
  <2>3. CASE Unlink(n) /\ page' = [page EXCEPT ![p] = Closed]
    BY <1>8, <2>1, <2>3 DEF QuietPageIsAutosaved, Quiet
  <2>4. CASE c \in Contents /\ Savestate([page EXCEPT ![p] = new], {p}, old, late)
    <3>1. new \in PageRecord
      BY <2>1, <2>4, FreshTyped
    <3>2. \A q \in OpenPages(page) \ {p} : old[RealName(page, q)] = auto[RealName(page, q)]
      BY <1>r, <2>1 DEF OnePagePerFile, RealName, TypeOK
    <3>3. late \subseteq Names /\ undone \ {p} \subseteq undone'
      BY <1>t, <2>1
    <3> HIDE DEF new, c, old, late, n
    <3> QED
      BY <2>4, <3>1, <3>2, <3>3, QuietSaved
  <2> QED
    BY <2>2, <2>3, <2>4
<1>11. ASSUME NEW p \in Pages, NEW n \in Names, OpenPageFails(p, n) PROVE QuietPageIsAutosaved'
  <2>1. /\ page' = page /\ undone' = undone
        /\ auto' = [auto EXCEPT ![n] = Missing]
    BY <1>11 DEF OpenPageFails, Unlink, NoLinks
  <2>2. \A q \in OpenPages(page) : RealName(page, q) # n
    <3>1. \A q \in OpenPages(page) : page[q].name # n /\ page[q].name \in Names
      BY <1>11, <1>r DEF OpenPageFails, Unvisited, PageRecord
    <3> QED
      BY <3>1 DEF RealName, NoLinks
  <2> SUFFICES ASSUME NEW q \in OpenPages(page) \ undone PROVE Quiet(page, auto', q)
    BY <2>1 DEF QuietPageIsAutosaved, Quiet
  <2>3. auto'[RealName(page, q)] = auto[RealName(page, q)]
    BY <2>1, <2>2, <1>r DEF TypeOK
  <2> QED
    BY <2>3, <1>i DEF Quiet
<1>12. CASE Crash
  BY <1>12 DEF Crash, OpenPages, QuietPageIsAutosaved
<1>13. ASSUME NEW n \in Names, NEW c, ExternalWrite(n, c) PROVE Goal
  <2>1. page' = Outdated(page, n, Pages) /\ auto' = auto /\ undone' = undone
    BY <1>13 DEF ExternalWrite
  <2>2. OpenPages(page') = OpenPages(page)
    BY <2>1, <1>t, OutdatedTyped
  <2>3. ASSUME NEW q \in OpenPages(page) PROVE
          /\ page'[q].name = page[q].name /\ page'[q].content = page[q].content
          /\ page'[q].changed = page[q].changed /\ page'[q].ops = page[q].ops
    BY <1>r, <2>1 DEF Outdated, PageRecord, OpenPages
  <2> QED
    BY <2>1, <2>2, <2>3, <1>i DEF Quiet, RealName
<1>14. ASSUME NEW p \in Pages, NEW n \in Names, SavePage(p, n) PROVE QuietPageIsAutosaved'
  BY <1>0, <1>14 DEF SavePage, history
<1>15. CASE NextSecond \/ SavePageFails \/ UNCHANGED vars
  BY <1>0, <1>15 DEF NextSecond, SavePageFails, vars, history
<1>16. Goal => QuietPageIsAutosaved'
  BY DEF QuietPageIsAutosaved, Quiet
<1> HIDE DEF Goal
<1> QED
  BY <1>1, <1>2, <1>3, <1>4, <1>5, <1>6, <1>7, <1>9, <1>10, <1>11, <1>12,
     <1>13, <1>14, <1>15, <1>16 DEF Next, User

(* While undo is enabled, a changed page with no operation counted since   *)
(* the last backup is in its autosave as it is now, also if writing some   *)
(* autosave failed (o_autosave_backups, o_undo_savestate), as long as no   *)
(* two pages show the same file and no name is a link.                     *)
THEOREM QuietPagesAreAutosaved ==
  ASSUME NoLinks
  PROVE  Spec /\ []OnePagePerFile => []QuietPageIsAutosaved
<1>1. Init => QuietPageIsAutosaved
  BY DEF Init, QuietPageIsAutosaved, OpenPages
<1>2. /\ TypeOK /\ OnePagePerFile /\ OnePagePerFile' /\ QuietPageIsAutosaved /\ [Next]_vars
      => QuietPageIsAutosaved'
  BY QuietStep
<1> QED
  BY <1>1, <1>2, FilesTyped, PTL DEF Spec

-----------------------------------------------------------------------------
(* Every autosave has a page, or it was left by a crash or by Save As.     *)

(* Saving the state writes autosaves for pages only.                       *)
LEMMA SavestateLeaves ==
  ASSUME NEW pg \in PageTable, NEW P, P \subseteq OpenPages(pg),
         NEW old, NEW late, late \subseteq Names, Savestate(pg, P, old, late), NEW n \in Names
  PROVE  /\ auto'[n] = old[n] \/ HasPage(page', n)
         /\ HasPage(pg, n) => HasPage(page', n)
<1>1. PICK S \in Succeeding(Due(pg)) : auto' \in Autosave(pg, S, old)
  BY DEF Savestate
<1>2. S \subseteq OpenPages(pg)
  BY DueIsOpen
<1>3. SamePages(page', pg)
  BY SavestateKeeps
<1>4. HasPage(pg, n) => HasPage(page', n)
  BY <1>3 DEF SamePages, SamePage, HasPage, RealName
<1>5. auto'[n] = old[n] \/ HasPage(pg, n)
  BY <1>1, <1>2 DEF Autosave, HasPage
<1> QED
  BY <1>4, <1>5

(* The autosaves of gone are deleted, and old are left.                    *)
Cleared(old, gone) ==
  /\ \A n \in Names \ gone : old[n] = auto[n]
  /\ \A n \in gone : old[n] = Missing
  /\ (crashed \cup left) \ gone \subseteq crashed' \cup left'

(* A page p that becomes new, with the state saved afterwards.             *)
LEMMA AccountedSaved ==
  ASSUME TypeOK, AutosaveIsLeftOver, NEW p \in Pages, NEW new \in PageRecord,
         NEW old, NEW late, late \subseteq Names,
         Savestate([page EXCEPT ![p] = new], {p}, old, late),
         NEW gone, Cleared(old, gone),
         page[p] # Closed => new.name = page[p].name
  PROVE  AutosaveIsLeftOver'
<1> USE FilesAssumption
<1> DEFINE pg == [page EXCEPT ![p] = new]
<1>1. page \in PageTable
  BY DEF TypeOK, PageTable
<1>2. pg \in PageTable /\ OpenPages(pg) = OpenPages(page) \cup {p}
  BY <1>1, Replaced
<1>3. \A q \in OpenPages(page) : RealName(pg, q) = RealName(page, q)
  BY <1>1 DEF PageTable, OpenPages, RealName
<1>4. Savestate(pg, {p}, old, late)
  OBVIOUS
<1> HIDE DEF pg
<1>5. ASSUME NEW n \in Names, auto'[n] # Missing PROVE HasPage(page', n) \/ n \in crashed' \cup left'
  <2>1. /\ auto'[n] = old[n] \/ HasPage(page', n)
        /\ HasPage(pg, n) => HasPage(page', n)
    BY <1>2, <1>4, SavestateLeaves
  <2>2. HasPage(page, n) => HasPage(pg, n)
    BY <1>2, <1>3 DEF HasPage
  <2> QED
    BY <1>5, <2>1, <2>2 DEF AutosaveIsLeftOver, Cleared
<1> QED
  BY <1>5 DEF AutosaveIsLeftOver

LEMMA AccountedStep ==
  ASSUME TypeOK, AutosaveIsLeftOver, [Next]_vars
  PROVE  AutosaveIsLeftOver'
<1> USE FilesAssumption
<1>t. page \in PageTable /\ newer \subseteq Names /\ auto \in AutoTable
  BY DEF TypeOK, PageTable, AutoTable
<1>r. \A q \in OpenPages(page) : page[q] \in PageRecord /\ RealName(page, q) \in Names
  BY <1>t DEF OpenPages, PageTable, PageRecord, RealName
<1>0. ASSUME OpenPages(page') = OpenPages(page), auto' = auto, crashed' = crashed, left' = left,
             \A q \in OpenPages(page) : RealName(page', q) = RealName(page, q)
      PROVE  AutosaveIsLeftOver'
  BY <1>0 DEF AutosaveIsLeftOver, HasPage
<1>v. CASE UNCHANGED <<page, auto, crashed, left>>
  BY <1>v DEF AutosaveIsLeftOver, HasPage, OpenPages, RealName
<1>1. ASSUME NEW p \in Pages, NEW n \in Names, OpenPage(p, n) PROVE AutosaveIsLeftOver'
  <2>1. PICK from_autosave \in BOOLEAN : Load(p, n, from_autosave)
    BY <1>1 DEF OpenPage
  <2> DEFINE c == IF from_autosave THEN auto[n] ELSE file[Real[n]]
             new == Fresh(n, c, from_autosave, TRUE)
  <2>2. c \in Contents /\ Savestate([page EXCEPT ![p] = new], {p}, auto, newer)
    BY <2>1 DEF Load
  <2>3. new \in PageRecord
    BY <2>2, FreshTyped
  <2>4. crashed' = crashed /\ left' = left /\ page[p] = Closed
    BY <1>1 DEF OpenPage, history
  <2>5. newer \subseteq Names
    BY <1>t
  <2> HIDE DEF new, c
  <2>6. Cleared(auto, {})
    BY <2>4 DEF Cleared
  <2> QED
    BY <2>2, <2>3, <2>4, <2>5, <2>6, AccountedSaved
<1>2. ASSUME NEW p \in Pages, NEW n \in Names, NewPage(p, n) PROVE AutosaveIsLeftOver'
  <2> DEFINE new == Fresh(n, Empty, FALSE, FALSE)
  <2>1. /\ Savestate([page EXCEPT ![p] = new], {p}, auto, newer)
        /\ crashed' = crashed /\ left' = left /\ page[p] = Closed
    BY <1>2 DEF NewPage, history
  <2>2. new \in PageRecord
    BY FreshTyped
  <2>3. newer \subseteq Names
    BY <1>t
  <2> HIDE DEF new
  <2>4. Cleared(auto, {})
    BY <2>1 DEF Cleared
  <2> QED
    BY <2>1, <2>2, <2>3, <2>4, AccountedSaved
<1>3. ASSUME NEW p \in Pages, NEW c \in Contents, Edit(p, c) PROVE AutosaveIsLeftOver'
  <2> DEFINE new == [page[p] EXCEPT !.content = c, !.changed = TRUE]
  <2>1. page[p] \in PageRecord /\ crashed' = crashed /\ left' = left
    BY <1>3, <1>t DEF Edit, PageTable
  <2>2. Savestate([page EXCEPT ![p] = new], {p}, auto, newer)
    <3>1. Savestate([page EXCEPT ![p].content = c, ![p].changed = TRUE], {p}, auto, newer)
      BY <1>3 DEF Edit
    <3>2. [page EXCEPT ![p].content = c, ![p].changed = TRUE] = [page EXCEPT ![p] = new]
      BY <1>t DEF PageTable
    <3> QED
      BY <3>1, <3>2
  <2>3. new \in PageRecord /\ new.name = page[p].name
    BY <2>1 DEF PageRecord
  <2>4. newer \subseteq Names
    BY <1>t
  <2> HIDE DEF new
  <2>5. Cleared(auto, {})
    BY <2>1 DEF Cleared
  <2> QED
    BY <2>2, <2>3, <2>4, <2>5, AccountedSaved
<1>4. ASSUME NEW p \in Pages, NEW c \in Contents, NEW changed \in BOOLEAN, Undo(p, c, changed)
      PROVE  AutosaveIsLeftOver'
  <2> DEFINE new == [page[p] EXCEPT !.content = c, !.changed = changed]
  <2>1. page[p] \in PageRecord /\ p \in OpenPages(page) /\ auto' = auto /\ crashed' = crashed /\ left' = left
    BY <1>4, <1>t DEF Undo, PageTable, OpenPages
  <2>2. new \in PageRecord /\ new.name = page[p].name
    BY <2>1 DEF PageRecord
  <2>3. page' = [page EXCEPT ![p] = new]
    BY <1>4, <1>t DEF Undo, PageTable
  <2> HIDE DEF new
  <2>4. OpenPages(page') = OpenPages(page)
    <3>1. OpenPages(page') = OpenPages(page) \cup {p}
      BY <2>2, <2>3, <1>t, Replaced
    <3> QED
      BY <2>1, <3>1
  <2>5. \A q \in OpenPages(page) : RealName(page', q) = RealName(page, q)
    BY <2>2, <2>3, <1>t DEF PageTable, OpenPages, RealName
  <2> QED
    BY <2>1, <2>4, <2>5, <1>0
<1>5. CASE Look
  <2>1. Savestate(page, {}, auto, newer) /\ crashed' = crashed /\ left' = left
    BY <1>5 DEF Look, history
  <2>2. ASSUME NEW n \in Names, auto'[n] # Missing PROVE HasPage(page', n) \/ n \in crashed' \cup left'
    <3>1. /\ auto'[n] = auto[n] \/ HasPage(page', n)
          /\ HasPage(page, n) => HasPage(page', n)
      BY <2>1, <1>t, SavestateLeaves
    <3> QED
      BY <2>1, <2>2, <3>1 DEF AutosaveIsLeftOver
  <2> QED
    BY <2>2 DEF AutosaveIsLeftOver
<1>6. CASE AutosaveTimer
  <2>1. auto' = auto /\ crashed' = crashed /\ left' = left
    BY <1>6 DEF AutosaveTimer, history
  <2>2. ASSUME NEW q \in Pages
        PROVE  /\ page'[q] = Closed <=> page[q] = Closed
               /\ q \in OpenPages(page) => page'[q].name = page[q].name
    <3>1. CASE q \in OpenPages(page) /\ page[q].ops
      <4>1. page'[q] = [page[q] EXCEPT !.do_autosave_backup = TRUE] /\ page[q] \in PageRecord
        BY <1>6, <1>r, <3>1 DEF AutosaveTimer
      <4>2. page'[q] \in PageRecord
        BY <4>1 DEF PageRecord
      <4> QED
        BY <4>1, <4>2 DEF PageRecord
    <3>2. CASE ~(q \in OpenPages(page) /\ page[q].ops)
      BY <1>6, <3>2 DEF AutosaveTimer
    <3> QED
      BY <3>1, <3>2
  <2>3. OpenPages(page') = OpenPages(page)
    BY <2>2 DEF OpenPages
  <2>4. \A q \in OpenPages(page) : RealName(page', q) = RealName(page, q)
    BY <2>2 DEF OpenPages, RealName
  <2> QED
    BY <2>1, <2>3, <2>4, <1>0
<1>7. CASE SavePageDone
  <2> DEFINE p == saving.page
             n == saving.name
             new == [name |-> SavedName(p, n), content |-> page[p].content,
                     changed |-> FALSE, exists |-> TRUE, known |-> TRUE,
                     saved_since_first_loaded |-> TRUE, ops |-> FALSE,
                     do_autosave_backup |-> FALSE]
             pg == [page EXCEPT ![p] = new]
  <2>1. p \in Pages /\ page[p] # Closed /\ n \in Names
    BY <1>7 DEF SavePageDone, TypeOK
  <2>2. new \in PageRecord
    <3>1. page[p] \in PageRecord
      BY <2>1, <1>t DEF PageTable
    <3> QED
      BY <2>1, <3>1 DEF PageRecord, SavedName
  <2>3. /\ page' = Outdated(pg, Real[n], Pages \ {p}) /\ auto' = auto /\ crashed' = crashed
        /\ left' = IF SavedName(p, n) # page[p].name /\ auto[RealName(page, p)] # Missing
                     THEN left \cup {RealName(page, p)} ELSE left
    BY <1>7 DEF SavePageDone
  <2>4. new.name = SavedName(p, n)
    OBVIOUS
  <2> HIDE DEF new
  <2>5. pg \in PageTable /\ OpenPages(pg) = OpenPages(page) \cup {p}
    BY <2>1, <2>2, <1>t, Replaced
  <2>6. pg[p] = new /\ \A q \in Pages \ {p} : pg[q] = page[q]
    BY <2>1, <1>t DEF PageTable
  <2> HIDE DEF pg, p, n
  <2>7. OpenPages(page') = OpenPages(page)
    BY <2>1, <2>3, <2>5, OutdatedTyped DEF OpenPages
  <2>8. \A q \in OpenPages(page) : page'[q].name = pg[q].name
    BY <2>3, <2>5 DEF Outdated, OpenPages, PageTable, PageRecord
  <2>9. ASSUME NEW m \in Names, auto'[m] # Missing, NEW q \in OpenPages(page), RealName(page, q) = m
        PROVE  HasPage(page', m) \/ m \in left'
    <3>1. CASE q # p
      <4>1. RealName(page', q) = m
        BY <2>6, <2>8, <2>9, <3>1 DEF RealName, OpenPages
      <4> QED
        BY <2>7, <2>9, <4>1 DEF HasPage
    <3>2. CASE q = p /\ SavedName(p, n) = page[p].name
      <4>1. RealName(page', q) = m
        BY <2>4, <2>6, <2>8, <2>9, <3>2 DEF RealName
      <4> QED
        BY <2>7, <2>9, <4>1 DEF HasPage
    <3>3. CASE q = p /\ SavedName(p, n) # page[p].name
      BY <2>3, <2>9, <3>3
    <3> QED
      BY <3>1, <3>2, <3>3
  <2>10. left \subseteq left'
    BY <2>3
  <2> QED
    BY <2>3, <2>9, <2>10 DEF AutosaveIsLeftOver, HasPage
<1>8. ASSUME NEW p \in Pages, p \in OpenPages(page), Unlink(page[p].name),
             crashed' = crashed \ {RealName(page, p)},
             left' = left \ {RealName(page, p)}, page' = [page EXCEPT ![p] = Closed]
      PROVE  AutosaveIsLeftOver'
  <2> DEFINE r == RealName(page, p)
  <2>1. \A q \in OpenPages(page) \ {p} : q \in OpenPages(page') /\ page'[q] = page[q]
    BY <1>8, <1>t DEF OpenPages, PageTable
  <2>2. r \in Names /\ auto' = [auto EXCEPT ![r] = Missing]
    BY <1>8, <1>r DEF Unlink, RealName
  <2>3. ASSUME NEW n \in Names, auto'[n] # Missing PROVE HasPage(page', n) \/ n \in crashed' \cup left'
    <3>1. n # r /\ auto'[n] = auto[n]
      BY <2>2, <2>3, <1>t DEF AutoTable
    <3>2. HasPage(page, n) => HasPage(page', n)
      BY <2>1, <3>1 DEF HasPage, RealName
    <3> QED
      BY <1>8, <2>3, <3>1, <3>2 DEF AutosaveIsLeftOver
  <2> QED
    BY <2>3 DEF AutosaveIsLeftOver
<1>9. ASSUME NEW p \in Pages, ClosePage(p) PROVE AutosaveIsLeftOver'
  BY <1>8, <1>9 DEF ClosePage, OpenPages
<1>10. ASSUME NEW p \in Pages, RevertPage(p) PROVE AutosaveIsLeftOver'
  <2> DEFINE n == page[p].name
             c == file[Real[n]]
             new == Fresh(n, c, FALSE, TRUE)
             gone == {Real[n]}
             old == [auto EXCEPT ![Real[n]] = Missing]
             late == newer \ {Real[n]}
  <2>1. p \in OpenPages(page) /\ n \in Names /\ crashed' = crashed \ gone /\ left' = left \ gone
    BY <1>10, <1>t DEF RevertPage, PageTable, PageRecord, OpenPages, RealName
  <2>2. \/ c \in Contents /\ Savestate([page EXCEPT ![p] = new], {p}, old, late)
        \/ Unlink(n) /\ page' = [page EXCEPT ![p] = Closed]
    BY <1>10 DEF RevertPage
  <2>3. CASE Unlink(n) /\ page' = [page EXCEPT ![p] = Closed]
    BY <1>8, <2>1, <2>3 DEF RealName
  <2>4. CASE c \in Contents /\ Savestate([page EXCEPT ![p] = new], {p}, old, late)
    <3>1. new \in PageRecord /\ new.name = page[p].name
      <4>1. new.name = n
        BY DEF Fresh
      <4> QED
        BY <2>1, <2>4, <4>1, FreshTyped
    <3>2. Cleared(old, gone) /\ late \subseteq Names
      BY <2>1, <1>t DEF AutoTable, Cleared
    <3> HIDE DEF new, c, gone, old, late, n
    <3> QED
      BY <2>1, <2>4, <3>1, <3>2, AccountedSaved
  <2> QED
    BY <2>2, <2>3, <2>4
<1>11. ASSUME NEW p \in Pages, NEW n \in Names, OpenPageFails(p, n) PROVE AutosaveIsLeftOver'
  <2>1. /\ page' = page /\ crashed' = crashed \ {Real[n]} /\ left' = left \ {Real[n]}
        /\ auto' = [auto EXCEPT ![Real[n]] = Missing]
    BY <1>11 DEF OpenPageFails, Unlink
  <2>2. ASSUME NEW m \in Names, auto'[m] # Missing PROVE m # Real[n] /\ auto'[m] = auto[m]
    BY <2>1, <2>2, <1>t DEF AutoTable
  <2> QED
    BY <2>1, <2>2 DEF AutosaveIsLeftOver, HasPage
<1>12. CASE Crash
  <2>1. crashed' = crashed \cup {RealName(page, p) : p \in OpenPages(page)} /\ auto' = auto
        /\ left' = left
    BY <1>12 DEF Crash
  <2> QED
    BY <2>1 DEF AutosaveIsLeftOver, HasPage
<1>13. ASSUME NEW n \in Names, NEW c, ExternalWrite(n, c) PROVE AutosaveIsLeftOver'
  <2>1. page' = Outdated(page, n, Pages) /\ auto' = auto /\ crashed' = crashed /\ left' = left
    BY <1>13 DEF ExternalWrite
  <2>2. OpenPages(page') = OpenPages(page)
    BY <2>1, <1>t, OutdatedTyped
  <2>3. \A q \in OpenPages(page) : page'[q].name = page[q].name
    BY <1>r, <2>1 DEF Outdated, PageRecord, OpenPages
  <2> QED
    BY <2>1, <2>2, <2>3, <1>0 DEF RealName
<1>14. ASSUME NEW p \in Pages, NEW n \in Names, SavePage(p, n) PROVE AutosaveIsLeftOver'
  BY <1>v, <1>14 DEF SavePage, history
<1>15. CASE NextSecond \/ SavePageFails \/ UNCHANGED vars
  BY <1>v, <1>15 DEF NextSecond, SavePageFails, vars, history
<1> QED
  BY <1>1, <1>2, <1>3, <1>4, <1>5, <1>6, <1>7, <1>9, <1>10, <1>11, <1>12,
     <1>13, <1>14, <1>15 DEF Next, User

(* However pages are opened by links, renamed by "Save As", saved, closed, *)
(* reverted and overwritten by other programs, in any number: an autosave  *)
(* without a page was left by a crash, or by "Save As" beside the old file *)
(* (s_page_delete, f_save).                                                *)
THEOREM AutosavesAreLeftOver == Spec => []AutosaveIsLeftOver
<1>1. Init => AutosaveIsLeftOver
  BY DEF Init, AutosaveIsLeftOver
<1>2. TypeOK /\ AutosaveIsLeftOver /\ [Next]_vars => AutosaveIsLeftOver'
  BY AccountedStep
<1> QED
  BY <1>1, <1>2, FilesTyped, PTL DEF Spec

-----------------------------------------------------------------------------
(* One page per file.                                                      *)

(* Save As apart, a page keeps its file: no step of a page that stays open *)
(* gives it another one.                                                   *)
PagesKeepTheirFile ==
  \A p \in OpenPages(page) \cap OpenPages(page') : RealName(page', p) = RealName(page, p)

(* A step that opens a page p does so for a name n that no page has.       *)
Fewer == OpenPages(page') \subseteq OpenPages(page)
Opens(p, n) ==
  /\ OpenPages(page') \subseteq OpenPages(page) \cup {p}
  /\ page'[p].name = n /\ Unvisited(n)

LEMMA OpensUnvisited ==
  ASSUME TypeOK, [Next]_vars
  PROVE  Fewer \/ \E p \in Pages, n \in Names : Opens(p, n)
<1> USE FilesAssumption
<1>t. page \in PageTable /\ newer \subseteq Names
  BY DEF TypeOK, PageTable
<1> USE DEF Fewer, Opens
<1>1. ASSUME NEW p \in Pages, NEW n \in Names, NEW c, NEW changed, NEW exists,
             Fresh(n, c, changed, exists) \in PageRecord, Unvisited(n),
             Savestate([page EXCEPT ![p] = Fresh(n, c, changed, exists)], {p}, auto, newer)
      PROVE  Opens(p, n)
  <2> DEFINE new == Fresh(n, c, changed, exists)
             pg == [page EXCEPT ![p] = new]
  <2>1. new \in PageRecord /\ new.name = n
    BY <1>1 DEF Fresh
  <2>2. Savestate(pg, {p}, auto, newer) /\ Unvisited(n)
    BY <1>1
  <2> HIDE DEF new
  <2>3. pg \in PageTable /\ OpenPages(pg) = OpenPages(page) \cup {p} /\ pg[p] = new
    BY <2>1, <1>t, Replaced DEF PageTable
  <2> HIDE DEF pg
  <2>4. SamePages(page', pg)
    BY <2>2, <2>3, <1>t, SavestateKeeps
  <2> QED
    BY <2>1, <2>2, <2>3, <2>4 DEF SamePages, SamePage
<1>2. ASSUME NEW p \in Pages, NEW n \in Names, OpenPage(p, n) PROVE Opens(p, n)
  <2>1. PICK from_autosave \in BOOLEAN : Load(p, n, from_autosave)
    BY <1>2 DEF OpenPage
  <2> DEFINE c == IF from_autosave THEN auto[n] ELSE file[Real[n]]
  <2>2. c \in Contents /\ Savestate([page EXCEPT ![p] = Fresh(n, c, from_autosave, TRUE)], {p}, auto, newer)
    BY <2>1 DEF Load
  <2>3. Unvisited(n)
    BY <1>2 DEF OpenPage
  <2> HIDE DEF c
  <2> QED
    BY <2>2, <2>3, <1>1, FreshTyped, ZenonT(40)
<1>3. ASSUME NEW p \in Pages, NEW n \in Names, NewPage(p, n) PROVE Opens(p, n)
  <2> HIDE DEF Opens
  <2> QED
    BY <1>3, <1>1, FreshTyped DEF NewPage
<1>4. ASSUME NEW p \in Pages, NEW new \in PageRecord, NEW old, NEW late, late \subseteq Names,
             p \in OpenPages(page), Savestate([page EXCEPT ![p] = new], {p}, old, late)
      PROVE  Fewer
  <2> DEFINE pg == [page EXCEPT ![p] = new]
  <2>1. pg \in PageTable /\ OpenPages(pg) = OpenPages(page) \cup {p}
    BY <1>t, Replaced
  <2>2. Savestate(pg, {p}, old, late)
    BY <1>4
  <2> HIDE DEF pg
  <2>3. SamePages(page', pg)
    BY <1>4, <2>1, <2>2, SavestateKeeps
  <2> QED
    BY <1>4, <2>1, <2>3 DEF SamePages
<1>5. ASSUME NEW p \in Pages, NEW c \in Contents, Edit(p, c) PROVE Fewer
  <2> DEFINE new == [page[p] EXCEPT !.content = c, !.changed = TRUE]
  <2>1. page[p] \in PageRecord /\ p \in OpenPages(page)
    BY <1>5, <1>t DEF Edit, PageTable, OpenPages
  <2>2. Savestate([page EXCEPT ![p] = new], {p}, auto, newer)
    <3>1. Savestate([page EXCEPT ![p].content = c, ![p].changed = TRUE], {p}, auto, newer)
      BY <1>5 DEF Edit
    <3>2. [page EXCEPT ![p].content = c, ![p].changed = TRUE] = [page EXCEPT ![p] = new]
      BY <1>t DEF PageTable
    <3> QED
      BY <3>1, <3>2
  <2>3. new \in PageRecord
    BY <2>1 DEF PageRecord
  <2> HIDE DEF new
  <2> QED
    BY <2>1, <2>2, <2>3, <1>t, <1>4
<1>6. ASSUME NEW p \in Pages, RevertPage(p) PROVE Fewer
  <2> DEFINE n == page[p].name
             c == file[Real[n]]
             new == Fresh(n, c, FALSE, TRUE)
             old == [auto EXCEPT ![Real[n]] = Missing]
             late == newer \ {Real[n]}
  <2>1. p \in OpenPages(page) /\ n \in Names
    BY <1>6, <1>t DEF RevertPage, PageTable, PageRecord, OpenPages
  <2>2. \/ c \in Contents /\ Savestate([page EXCEPT ![p] = new], {p}, old, late)
        \/ page' = [page EXCEPT ![p] = Closed]
    BY <1>6 DEF RevertPage
  <2>3. CASE page' = [page EXCEPT ![p] = Closed]
    BY <2>3, <1>t DEF OpenPages, PageTable
  <2>4. CASE c \in Contents /\ Savestate([page EXCEPT ![p] = new], {p}, old, late)
    <3>1. new \in PageRecord /\ late \subseteq Names
      BY <2>1, <2>4, <1>t, FreshTyped
    <3> HIDE DEF new, c, old, late, n
    <3> QED
      BY <2>1, <2>4, <3>1, <1>4
  <2> QED
    BY <2>2, <2>3, <2>4
<1>7. CASE Look
  BY <1>7, <1>t, SavestateKeeps DEF Look, SamePages
<1>8. CASE SavePageDone
  <2> DEFINE p == saving.page
             n == saving.name
             new == [name |-> SavedName(p, n), content |-> page[p].content,
                     changed |-> FALSE, exists |-> TRUE, known |-> TRUE,
                     saved_since_first_loaded |-> TRUE, ops |-> FALSE,
                     do_autosave_backup |-> FALSE]
             pg == [page EXCEPT ![p] = new]
  <2>1. p \in Pages /\ page[p] # Closed /\ n \in Names
    BY <1>8 DEF SavePageDone, TypeOK
  <2>2. new \in PageRecord
    <3>1. page[p] \in PageRecord
      BY <2>1, <1>t DEF PageTable
    <3> QED
      BY <2>1, <3>1 DEF PageRecord, SavedName
  <2>3. page' = Outdated(pg, Real[n], Pages \ {p})
    BY <1>8 DEF SavePageDone
  <2> HIDE DEF new
  <2>4. pg \in PageTable /\ OpenPages(pg) = OpenPages(page) \cup {p}
    BY <2>1, <2>2, <1>t, Replaced
  <2> HIDE DEF pg, p, n
  <2> QED
    BY <2>1, <2>3, <2>4, OutdatedTyped DEF OpenPages
<1>9. ASSUME NEW n \in Names, NEW c, ExternalWrite(n, c) PROVE Fewer
  BY <1>9, <1>t, OutdatedTyped DEF ExternalWrite
<1>10. ASSUME NEW p \in Pages, NEW c \in Contents, NEW changed \in BOOLEAN, Undo(p, c, changed)
       PROVE  Fewer
  BY <1>10, <1>t DEF Undo, OpenPages, PageTable
<1>11. ASSUME NEW p \in Pages, ClosePage(p) PROVE Fewer
  BY <1>11, <1>t DEF ClosePage, OpenPages, PageTable
<1>12. CASE AutosaveTimer \/ Crash
  BY <1>12 DEF AutosaveTimer, Crash, OpenPages
<1>13. ASSUME NEW p \in Pages, NEW n \in Names, SavePage(p, n) \/ OpenPageFails(p, n) PROVE Fewer
  BY <1>13 DEF SavePage, OpenPageFails
<1>14. CASE NextSecond \/ SavePageFails \/ UNCHANGED vars
  BY <1>14 DEF NextSecond, SavePageFails, vars
<1> HIDE DEF Fewer, Opens
<1>15. Fewer \/ \E p \in Pages, n \in Names : Opens(p, n)
  <2>1. CASE User
    BY <1>2, <1>3, <1>5, <1>6, <1>7, <1>10, <1>11, <1>13, <2>1 DEF User
  <2>2. CASE Next /\ ~User
    BY <1>8, <1>9, <1>12, <1>14, <2>2 DEF Next
  <2> QED
    BY <1>14, <2>1, <2>2
<1> QED
  BY <1>15

LEMMA OnePageStep ==
  ASSUME NoLinks, TypeOK, OnePagePerFile, [Next]_vars, [PagesKeepTheirFile]_vars
  PROVE  OnePagePerFile'
<1>1. PagesKeepTheirFile
  BY DEF PagesKeepTheirFile, vars, RealName
<1>2. CASE Fewer
  BY <1>1, <1>2 DEF OnePagePerFile, PagesKeepTheirFile, Fewer
<1>3. ASSUME NEW p \in Pages, NEW n \in Names, Opens(p, n) PROVE OnePagePerFile'
  <2> USE DEF Opens
  <2>1. ASSUME NEW q \in OpenPages(page) \cap OpenPages(page')
        PROVE  RealName(page', q) # n
    <3>1. RealName(page', q) = RealName(page, q)
      BY <1>1, <2>1 DEF PagesKeepTheirFile
    <3>2. page[q].name # n /\ page[q].name \in Names
      BY <1>3, <2>1 DEF Unvisited, TypeOK, PageRecord, OpenPages
    <3> QED
      BY <3>1, <3>2 DEF RealName, NoLinks
  <2>2. RealName(page', p) = n
    BY <1>3 DEF RealName, NoLinks
  <2>3. ASSUME NEW q \in OpenPages(page'), NEW o \in OpenPages(page'),
               RealName(page', q) = RealName(page', o)
        PROVE  q = o
    <3>1. CASE q \in OpenPages(page) /\ o \in OpenPages(page)
      BY <1>1, <2>3, <3>1 DEF PagesKeepTheirFile, OnePagePerFile
    <3>2. CASE ~(q \in OpenPages(page) /\ o \in OpenPages(page))
      BY <1>3, <2>1, <2>2, <2>3, <3>2
    <3> QED
      BY <3>1, <3>2
  <2> QED
    BY <2>3 DEF OnePagePerFile
<1> QED
  BY <1>2, <1>3, OpensUnvisited

(* Without "Save As" and links no file gets a second page, so a changed    *)
(* page with no operation counted is always in its autosave as it is now   *)
(* (x_lowlevel_open_page, s_page_autosave, o_autosave_backups).            *)
THEOREM NoQuietWorkIsLost ==
  ASSUME NoLinks
  PROVE  Spec /\ [][PagesKeepTheirFile]_vars => []QuietPageIsAutosaved
<1>1. Init => OnePagePerFile
  BY DEF Init, OnePagePerFile, OpenPages
<1>2. /\ TypeOK /\ OnePagePerFile /\ [Next]_vars /\ [PagesKeepTheirFile]_vars
      => OnePagePerFile'
  BY OnePageStep
<1> QED
  BY <1>1, <1>2, FilesTyped, QuietPagesAreAutosaved, PTL DEF Spec
=============================================================================
