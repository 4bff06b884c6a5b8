----------------------------- MODULE GschemFiles -----------------------------
(***************************************************************************)
(* How gschem keeps schematic files (libgeda/src/f_basic.c, s_page.c,      *)
(* gschem/src/x_lowlevel.c, x_highlevel.c, o_misc.c): opening and saving,  *)
(* the backup name~ of the version found on disk, and the autosave #name#  *)
(* that is offered when gschem starts again after a crash.                 *)
(*                                                                         *)
(* One gschem process serves its callbacks one after the other, so they    *)
(* are single steps, except that a crash, or another program, can come     *)
(* between the two file operations of saving a page.  Pages without a name *)
(* (is_untitled) are left out, and so is what undo restores, but for its   *)
(* effect on a page.                                                       *)
(***************************************************************************)
EXTENDS FiniteSets

CONSTANTS
  Pages,        \* PAGE structures
  Names,        \* file names
  Real,         \* follow_symlinks: the file that a name leads to
  Folded,       \* per name: the name without regard to upper and lower case
  Contents,     \* what can be drawn on a page
  Empty,        \* the content of a page without objects
  Garbage,      \* the content of a file that o_read rejects
  MakeBackups,  \* make_backup_files
  UndoControl,  \* undo_control (rc "undo-control")
  DiskFull,     \* may writing an autosave fail?
  Closed,       \* a PAGE structure that is not in use
  Missing,      \* there is no such file
  Idle          \* no page is being saved

VARIABLES
  page,     \* per PAGE structure: the page, or Closed
  file,     \* per real name: the content of the file, or Missing
  backup,   \* per real name: the content of name~, or Missing
  auto,     \* per real name: the content of #name#, or Missing
  newer,    \* real names whose #name# has a later mtime, in whole seconds
  fresh,    \* real names whose file was written in the current second
  saving,   \* the save that is under way, or Idle
  asked,    \* the question the last callback asked its user, or "nothing"
  written,  \* history: per real name, what was last written to the file
  crashed,  \* history: real names that had a page when gschem crashed
  left,     \* history: real names whose autosave stayed when Save As renamed the page
  undone    \* history: pages that show what an undo or a redo restored

history == <<written, crashed, left, undone>>
vars == <<page, file, backup, auto, newer, fresh, saving, asked, history>>

(* A PAGE.  exists is exists_on_disk; known says whether last_modified is  *)
(* the mtime the file has now; ops whether ops_since_last_backup is not 0. *)
PageRecord ==
  [name : Names, content : Contents, changed : BOOLEAN, exists : BOOLEAN,
   known : BOOLEAN, saved_since_first_loaded : BOOLEAN, ops : BOOLEAN,
   do_autosave_backup : BOOLEAN]

ASSUME FilesAssumption ==
  /\ Real \in [Names -> Names] /\ \A n \in Names : Real[Real[n]] = Real[n]
  /\ Folded \in [Names -> Names]
  /\ Empty \in Contents /\ Garbage \notin Contents
  /\ Missing \notin Contents \cup {Garbage}
  /\ Closed \notin PageRecord /\ Idle \notin [page : Pages, name : Names]
  /\ {MakeBackups, UndoControl, DiskFull} \subseteq BOOLEAN

OpenPages(pg) == {p \in Pages : pg[p] # Closed}
RealName(pg, p) == Real[pg[p].name]

Init ==
  /\ page = [p \in Pages |-> Closed]
  /\ file \in [Names -> Contents \cup {Missing}]
  /\ \A n \in Names : Real[n] # n => file[n] = Missing
  /\ backup = [n \in Names |-> Missing]
  /\ auto = [n \in Names |-> Missing]
  /\ newer = {} /\ fresh = {}
  /\ saving = Idle
  /\ asked = "nothing"
  /\ written = file
  /\ crashed = {} /\ left = {} /\ undone = {}

-----------------------------------------------------------------------------
(* Files and their modification times.                                     *)

\* The file n got another mtime: the pages S of it do not know.
Outdated(pg, n, S) ==
  [p \in Pages |-> IF p \in OpenPages(pg) \cap S /\ RealName(pg, p) = n
                     THEN [pg[p] EXCEPT !.known = FALSE] ELSE pg[p]]

(* file_changed_since: "If the file is missing, returns FALSE.  If no      *)
(* timestamp was recorded but the file exists, returns TRUE."              *)
ChangedOnDisk(p) ==
  file[RealName(page, p)] # Missing /\ (~page[p].exists \/ ~page[p].known)

\* f_has_active_autosave, which looks beside the name and not the real name.
ActiveAutosave(n) ==
  /\ Real[n] = n
  /\ auto[n] # Missing
  /\ file[n] = Missing \/ n \in newer

-----------------------------------------------------------------------------
(* o_undo_savestate as far as it concerns files.                           *)

(* o_autosave_backups: every page that is due is written, unless that      *)
(* fails; of two pages with one real name the later one remains.           *)
Due(pg) == {p \in OpenPages(pg) : pg[p].ops /\ pg[p].do_autosave_backup}
Backed(pg, S) ==
  [p \in Pages |-> IF p \in S THEN [pg[p] EXCEPT !.ops = FALSE, !.do_autosave_backup = FALSE]
                   ELSE pg[p]]
Autosave(pg, S, old) ==
  {a \in [Names -> Contents \cup {Missing}] :
     \A n \in Names : LET here == {p \in S : RealName(pg, p) = n}
                      IN  IF here = {} THEN a[n] = old[n]
                          ELSE \E p \in here : a[n] = pg[p].content}
Succeeding(D) == IF DiskFull THEN SUBSET D ELSE {D}

\* The operation that leads to it is counted only if undo is enabled.
Counted(pg, P) ==
  [p \in Pages |-> IF UndoControl /\ p \in P THEN [pg[p] EXCEPT !.ops = TRUE] ELSE pg[p]]

\* Mutant: the flags of a page that could not be written are cleared too.
SavestateForgetting(pg, P, old, late) ==
  \E S \in Succeeding(Due(pg)) :
    /\ auto' \in Autosave(pg, S, old)
    /\ newer' = late \cup ({RealName(pg, q) : q \in S} \ fresh)
    /\ page' = Counted(Backed(pg, Due(pg)), P)

(* pg, old and late are the pages, autosaves and newer after what was done *)
(* before; P is the page operated on, or empty for a mere change of view.  *)
Savestate(pg, P, old, late) ==
  \E S \in Succeeding(Due(pg)) :
    /\ auto' \in Autosave(pg, S, old)
    /\ newer' = late \cup ({RealName(pg, q) : q \in S} \ fresh)
    /\ page' = Counted(Backed(pg, S), P)

-----------------------------------------------------------------------------
(* Opening and editing pages.                                              *)

Fresh(n, c, changed, exists) ==
  [name |-> n, content |-> c, changed |-> changed, exists |-> exists,
   known |-> exists, saved_since_first_loaded |-> FALSE, ops |-> FALSE,
   do_autosave_backup |-> FALSE]

Unvisited(n) == \A p \in OpenPages(page) : page[p].name # n

\* Mutant: a page with the autosaved content counts as unchanged.
LoadUnchanged(p, n, from_autosave) ==
  /\ from_autosave => ActiveAutosave(n)
  /\ LET c == IF from_autosave THEN auto[n] ELSE file[Real[n]]
     IN  c \in Contents /\ Savestate([page EXCEPT ![p] = Fresh(n, c, FALSE, TRUE)], {p}, auto, newer)

\* Mutant: the error that o_read returned is ignored.
LoadUnchecked(p, n, from_autosave) ==
  /\ from_autosave => ActiveAutosave(n)
  /\ LET c == IF from_autosave THEN auto[n] ELSE file[Real[n]]
     IN  Savestate([page EXCEPT ![p] = Fresh(n, c, from_autosave, TRUE)], {p}, auto, newer)

(* f_open_flags reads the autosave, if there is a newer one and the user   *)
(* wants it, or else the file; only the latter is an unchanged page.       *)
Load(p, n, from_autosave) ==
  /\ from_autosave => ActiveAutosave(n)
  /\ LET c == IF from_autosave THEN auto[n] ELSE file[Real[n]]
     IN  c \in Contents /\ Savestate([page EXCEPT ![p] = Fresh(n, c, from_autosave, TRUE)], {p}, auto, newer)

\* x_lowlevel_open_page of a file that exists and is not yet open.
OpenPage(p, n) ==
  /\ saving = Idle /\ page[p] = Closed /\ Unvisited(n) /\ file[Real[n]] # Missing
  /\ \E from_autosave \in BOOLEAN : Load(p, n, from_autosave)
  /\ asked' = IF ActiveAutosave(n) THEN "load autosave?" ELSE "nothing"
  /\ UNCHANGED <<file, backup, fresh, saving, history>>

\* Mutant: the autosave stays when its page is closed.
LeaveAutosave(n) == UNCHANGED <<auto, newer>>

(* s_page_delete removes the autosave of the page.                         *)
Unlink(n) ==
  /\ auto' = [auto EXCEPT ![Real[n]] = Missing]
  /\ newer' = newer \ {Real[n]}

\* The page that was created for the file is deleted again.
OpenPageFails(p, n) ==
  /\ saving = Idle /\ page[p] = Closed /\ Unvisited(n) /\ file[Real[n]] = Garbage
  /\ Unlink(n)
  /\ asked' = IF ActiveAutosave(n) THEN "load autosave?" ELSE "nothing"
  /\ crashed' = crashed \ {Real[n]}
  /\ left' = left \ {Real[n]}
  /\ UNCHANGED <<page, file, backup, fresh, saving, written, undone>>

\* x_lowlevel_new_page, once the user confirmed creating the file.
NewPage(p, n) ==
  /\ saving = Idle /\ page[p] = Closed /\ Unvisited(n) /\ file[Real[n]] = Missing
  /\ Savestate([page EXCEPT ![p] = Fresh(n, Empty, FALSE, FALSE)], {p}, auto, newer)
  /\ asked' = "create?"
  /\ UNCHANGED <<file, backup, fresh, saving, history>>

(* An operation that changes the page to c and saves the state.            *)
Edit(p, c) ==
  /\ saving = Idle /\ page[p] # Closed /\ c # page[p].content
  /\ Savestate([page EXCEPT ![p].content = c, ![p].changed = TRUE], {p}, auto, newer)
  /\ asked' = "nothing"
  /\ undone' = undone \ {p}
  /\ UNCHANGED <<file, backup, fresh, saving, written, crashed, left>>

(* o_undo_callback: what it restores is not saved by o_undo_savestate.     *)
Undo(p, c, changed) ==
  /\ saving = Idle /\ page[p] # Closed /\ UndoControl
  /\ page' = [page EXCEPT ![p].content = c, ![p].changed = changed]
  /\ asked' = "nothing"
  /\ undone' = undone \cup {p}
  /\ UNCHANGED <<file, backup, auto, newer, fresh, saving, written, crashed, left>>

(* Panning or zooming saves the state, too, but is not counted.            *)
Look ==
  /\ saving = Idle
  /\ Savestate(page, {}, auto, newer)
  /\ asked' = "nothing"
  /\ UNCHANGED <<file, backup, fresh, saving, history>>

\* Mutant: a page that was never saved is not marked.
AutosaveTimerSaved ==
  /\ saving = Idle
  /\ page' = [p \in Pages |-> IF p \in OpenPages(page) /\ page[p].ops
                                   /\ page[p].saved_since_first_loaded
                                THEN [page[p] EXCEPT !.do_autosave_backup = TRUE]
                                ELSE page[p]]
  /\ asked' = "nothing"
  /\ UNCHANGED <<file, backup, auto, newer, fresh, saving, history>>

(* s_page_autosave, the timer of the autosave interval.                    *)
AutosaveTimer ==
  /\ saving = Idle
  /\ page' = [p \in Pages |-> IF p \in OpenPages(page) /\ page[p].ops
                                THEN [page[p] EXCEPT !.do_autosave_backup = TRUE]
                                ELSE page[p]]
  /\ asked' = "nothing"
  /\ UNCHANGED <<file, backup, auto, newer, fresh, saving, history>>

-----------------------------------------------------------------------------
(* Saving a page, in the two steps of f_save.                              *)

\* The version found on disk becomes name~ at the first save of a page.
NeedsBackup(p, n) ==
  /\ MakeBackups /\ file[Real[n]] # Missing
  /\ ~page[p].saved_since_first_loaded

(* x_highlevel_save_page asks whether to overwrite a file that changed, the*)
(* file chooser of "Save As" whether to overwrite any other file.          *)
SavePage(p, n) ==
  /\ saving = Idle /\ page[p] # Closed
  /\ asked' = IF n = page[p].name
                THEN IF ChangedOnDisk(p) THEN "save anyway?" ELSE "nothing"
                ELSE IF file[Real[n]] # Missing THEN "overwrite?" ELSE "nothing"
  /\ saving' = [page |-> p, name |-> n]
  /\ \/ /\ NeedsBackup(p, n)
        /\ backup' = [backup EXCEPT ![Real[n]] = file[Real[n]]]
        /\ file' = [file EXCEPT ![Real[n]] = Missing]
     \/ UNCHANGED <<backup, file>>        \* no backup needed, or rename fails
  /\ UNCHANGED <<page, auto, newer, fresh, history>>

(* A page is renamed unless the names are equal but for upper and lower    *)
(* case (g_ascii_strcasecmp).                                              *)
SavedName(p, n) == IF Folded[page[p].name] = Folded[n] THEN page[p].name ELSE n

(* o_save replaces the file atomically (g_file_set_contents).              *)
SavePageDone ==
  /\ saving # Idle
  /\ LET p == saving.page
         n == saving.name
         r == Real[n]
     IN  /\ file' = [file EXCEPT ![r] = page[p].content]
         /\ written' = [written EXCEPT ![r] = page[p].content]
         /\ newer' = newer \ {r}
         /\ fresh' = fresh \cup {r}
         /\ undone' = undone \ {p}
         /\ left' = IF SavedName(p, n) # page[p].name /\ auto[RealName(page, p)] # Missing
                      THEN left \cup {RealName(page, p)} ELSE left
         /\ page' = Outdated([page EXCEPT
              ![p] = [name |-> SavedName(p, n), content |-> page[p].content,
                      changed |-> FALSE, exists |-> TRUE, known |-> TRUE,
                      saved_since_first_loaded |-> TRUE, ops |-> FALSE,
                      do_autosave_backup |-> FALSE]], r, Pages \ {p})
  /\ saving' = Idle
  /\ asked' = "nothing"
  /\ UNCHANGED <<backup, auto, crashed>>

\* Mutant: the file is truncated before it is written.
SavePageFailsTruncating ==
  /\ saving # Idle
  /\ file' = [file EXCEPT ![Real[saving.name]] = Garbage]
  /\ saving' = Idle
  /\ asked' = "nothing"
  /\ UNCHANGED <<page, backup, auto, newer, fresh, history>>

SavePageFails ==
  /\ saving # Idle
  /\ saving' = Idle
  /\ asked' = "nothing"
  /\ UNCHANGED <<page, file, backup, auto, newer, fresh, history>>

-----------------------------------------------------------------------------
(* Closing and reverting a page: both delete it with its autosave.         *)

ClosePage(p) ==
  /\ saving = Idle /\ page[p] # Closed
  /\ asked' = IF page[p].changed THEN "discard changes?" ELSE "nothing"
  /\ page' = [page EXCEPT ![p] = Closed]
  /\ Unlink(page[p].name)
  /\ crashed' = crashed \ {RealName(page, p)}
  /\ left' = left \ {RealName(page, p)}
  /\ undone' = undone \ {p}
  /\ UNCHANGED <<file, backup, fresh, saving, written>>

\* The page is opened again, unless another one has its name or that fails.
RevertPage(p) ==
  /\ saving = Idle /\ page[p] # Closed
  /\ asked' = IF page[p].changed THEN "really revert?" ELSE "nothing"
  /\ LET n == page[p].name
         c == file[Real[n]]
     IN  IF c \in Contents /\ \A q \in OpenPages(page) \ {p} : page[q].name # n
           THEN Savestate([page EXCEPT ![p] = Fresh(n, c, FALSE, TRUE)], {p},
                          [auto EXCEPT ![Real[n]] = Missing], newer \ {Real[n]})
           ELSE Unlink(n) /\ page' = [page EXCEPT ![p] = Closed]
  /\ crashed' = crashed \ {RealName(page, p)}
  /\ left' = left \ {RealName(page, p)}
  /\ undone' = undone \ {p}
  /\ UNCHANGED <<file, backup, fresh, saving, written>>

-----------------------------------------------------------------------------
(* What happens outside of gschem.                                         *)

Crash ==
  /\ crashed' = crashed \cup {RealName(page, p) : p \in OpenPages(page)}
  /\ page' = [p \in Pages |-> Closed]
  /\ undone' = {}
  /\ saving' = Idle
  /\ asked' = "nothing"
  /\ UNCHANGED <<file, backup, auto, newer, fresh, written, left>>

\* Another program writes the file.
ExternalWrite(n, c) ==
  /\ n = Real[n]
  /\ file' = [file EXCEPT ![n] = c]
  /\ written' = [written EXCEPT ![n] = c]
  /\ newer' = newer \ {n}
  /\ fresh' = fresh \cup {n}
  /\ page' = Outdated(page, n, Pages)
  /\ asked' = "nothing"
  /\ UNCHANGED <<backup, auto, saving, crashed, left, undone>>

NextSecond ==
  /\ fresh' = {}
  /\ asked' = "nothing"
  /\ UNCHANGED <<page, file, backup, auto, newer, saving, history>>

-----------------------------------------------------------------------------
User ==
  \/ \E p \in Pages, n \in Names :
       OpenPage(p, n) \/ OpenPageFails(p, n) \/ NewPage(p, n) \/ SavePage(p, n)
  \/ \E p \in Pages : ClosePage(p) \/ RevertPage(p)
  \/ \E p \in Pages, c \in Contents :
       Edit(p, c) \/ \E changed \in BOOLEAN : Undo(p, c, changed)
  \/ Look

Next ==
  \/ User
  \/ AutosaveTimer
  \/ SavePageDone \/ SavePageFails
  \/ Crash
  \/ \E n \in Names, c \in Contents \cup {Garbage} : ExternalWrite(n, c)
  \/ NextSecond

Spec == Init /\ [][Next]_vars

(* The timer goes off again and again, between callbacks of the user.      *)
FairSpec == Spec /\ SF_vars(AutosaveTimer)
-----------------------------------------------------------------------------
(* Properties.                                                             *)

TypeOK ==
  /\ page \in [Pages -> PageRecord \cup {Closed}]
  /\ file \in [Names -> Contents \cup {Garbage, Missing}]
  /\ backup \in [Names -> Contents \cup {Garbage, Missing}]
  /\ auto \in [Names -> Contents \cup {Missing}]
  /\ newer \subseteq Names /\ fresh \subseteq Names
  /\ saving \in [page : Pages, name : Names] \cup {Idle}
  /\ saving # Idle => page[saving.page] # Closed
  /\ written \in [Names -> Contents \cup {Garbage, Missing}]
  /\ crashed \subseteq Names /\ left \subseteq Names
  /\ undone \subseteq OpenPages(page)

(* What was last written under a name is never lost: it is in the file, or *)
(* the file is missing and it is in name~.  Saving may fail and gschem may *)
(* crash between any two steps, any number of times.                       *)
SavedVersionSurvives ==
  \A n \in Names : written[n] # Missing =>
    file[n] = written[n] \/ (file[n] = Missing /\ backup[n] = written[n])

(* A page that is not marked as changed, and so is closed without asking,  *)
(* shows what the file holds; if it does not, gschem notices that the file *)
(* changed on disk, or the file is gone.  (What an undo restores is the    *)
(* subject of GschemUndo.)                                                 *)
UnchangedPageIsInFile ==
  \A p \in OpenPages(page) \ undone : ~page[p].changed =>
    file[RealName(page, p)] \in {page[p].content, Missing} \/ ChangedOnDisk(p)

(* While undo is enabled, a changed page with no operation counted since   *)
(* the last backup is in its autosave as it is now, also if autosaving     *)
(* failed before, unless an operation was undone since.                    *)
QuietPageIsAutosaved ==
  \A p \in OpenPages(page) \ undone :
    UndoControl /\ page[p].changed /\ ~page[p].ops =>
      auto[RealName(page, p)] = page[p].content

(* Whoever closes or reverts a page removes its autosave, by whatever name *)
(* the page was opened (s_page_delete).  So an autosave without a page was *)
(* left by a crash, or by Save As: f_save gives the page another name and  *)
(* nothing removes the #name# of the old one.                              *)
HasPage(pg, n) == \E p \in OpenPages(pg) : RealName(pg, p) = n
AutosaveIsLeftOver ==
  \A n \in Names : auto[n] # Missing => HasPage(page, n) \/ n \in crashed \cup left

(* "this situation happens when it crashed or it was forced to exit        *)
(* abruptly" (f_open_flags): an autosave that would be offered for a file  *)
(* without a page is left from a crash.  Save As refutes it.               *)
AutosaveMeansCrash ==
  \A n \in Names : ActiveAutosave(n) /\ ~HasPage(page, n) => n \in crashed

(* "The autosave file exists, but the actual file does not" makes an       *)
(* autosave active (f_has_active_autosave), and opening the name asks      *)
(* whether to load it.                                                     *)
Opening(p, n) == page[p] = Closed /\ page'[p] # Closed /\ page'[p].name = n
UnsavedWorkIsOffered ==
  [][\A p \in Pages, n \in Names :
       Opening(p, n) /\ ActiveAutosave(n) => asked' = "load autosave?"]_vars

(* "Checks whether an autosave file exists for the filename passed which   *)
(* has a modification time newer than the file itself", whatever name the  *)
(* file is opened by (f_has_active_autosave, o_autosave_backups).          *)
LinkedWorkIsOffered ==
  [][\A p \in Pages, n \in Names :
       Opening(p, n) /\ file[Real[n]] # Missing /\ Real[n] \in newer
         => asked' = "load autosave?"]_vars

(* As long as the user goes on editing and the disk is not full, work that *)
(* is not saved does not stay without an autosave ("the backup copy is made*)
(* when you make some change to the schematic, and there were more than    *)
(* interval seconds from the last autosave").                              *)
OnDisk(p) == page[p].content \in {file[RealName(page, p)], auto[RealName(page, p)]}
Editing == \E p \in Pages, c \in Contents : Edit(p, c)
AutosaveFollows ==
  []<><<Editing>>_vars =>
    \A p \in Pages : (page[p] # Closed) ~> (page[p] = Closed \/ OnDisk(p))
=============================================================================
