# A verification development for gEDA: storage, netlister, editor and libgeda

This directory holds TLA+ modules about the programs in this repository, TLC
configurations that model-check them on small instances, and theorems about
them with proofs for TLAPS.  Everything is translated from the C, C++, Scheme
and Python code in the repository; where a comment or a document of the
repository says what the code is meant to do, the property quotes it.

Contents: [the system](#1-the-system), [the modules](#2-the-modules-and-the-code),
[what is checked](#3-what-is-checked), [what is proved](#4-what-is-proved),
[where the code departs from what it says](#5-where-the-code-departs-from-what-it-says),
[what is left out](#6-what-is-left-out), [the plan](#7-the-plan).

## 1. The system

gEDA is a suite of programs around schematic files.  Two cores coexist: the
older C library `libgeda`, on which the editor `gschem` and the batch programs
rest, and `xorn`, a C++ storage backend with a Python binding, on which the
netlister rests.

| Component | Code | State it keeps | Operations | Status |
|---|---|---|---|---|
| Xorn storage: revisions and objects | `xorn/src/storage/{manipulate,revision,obstate,object,validate}.cc` | revisions (three maps each), reference-counted object states, the last object number | new, copy, finalize, free; add, set, relocate, delete and copy objects | modelled, checked, proved |
| Xorn storage: selections, attributes, wrappers | `selection.cc`, `attributes.cc`, `convenience.cc` | sets of objects | set operations, accessors | a selection is a set that a call is given |
| Xorn netlister: connections and blueprints | `xorn/src/gaf/netlist/{conn,blueprint}.py` | connections between the instances of a sheet, pieces of nets | find connections, traverse | partly; checked, proved |
| Xorn netlister: nets, hierarchy, packages | `net.py`, `pp_hierarchy.py`, `pp_graphical.py`, `package.py`, `netlist.py` | nets, names, pins, packages | name, merge, number, connect ports, package | partly; checked |
| gschem undo | `gschem/src/o_undo.c`, `libgeda/src/s_undo.c` | per page a list of records and a cursor; a counter of undo files | save the state, trim, undo, redo | partly; checked, proved |
| gschem files | `gschem/src/x_lowlevel.c`, `x_highlevel.c`, `o_misc.c`, `libgeda/src/f_basic.c`, `s_page.c` | pages; files, backups, autosaves; what the page knows of its file | open, create, save, save as, close, revert, autosave | partly; checked, proved |
| gschem change notification | `gschem_change_notification.c`, `x_window.c` | a bar per view, the mtime of a page | notice, reload, ignore | the comparison is modelled |
| gschem actions and modes | `actions.c`, `i_basic.c`, `x_event.c`, `o_basic.c`, `o_move.c`, `o_place.c`, ... | mode, `inside_action`, place list, selection, stretched nets, grip | mouse buttons, commands, dialogs | partly; checked, proved |
| gschem control connection, AI panels | `x_controlfd.c`, `gschem_ai_chat.c`, `gschem_ai_assist_dialog.c` | a descriptor, a subprocess | commands and answers that arrive at any time | not modelled |
| libgeda objects and connections | `s_conn.c`, `s_basic.c`, `s_page.c`, `o_attrib.c`, `o_net_basic.c`, `scheme_page.c`, `scheme_object.c`, `scheme_complex.c`, ... | pages, components, attributes, connections in both directions | make, place, attach, change, delete, merge | partly; checked, proved |
| libgeda weak references, selection | `s_weakref.c`, `scheme_smob.c`, `o_selection.c`, `geda_list.c` | wrappers and their permission to free | wrap, collect, select | partly; checked, proved |
| libgeda configuration | `edaconfig.c`, `scheme_config.c` | contexts with parents, key files, handlers | load, save, set, set parent, add and remove events | partly; checked, proved |
| libgeda component library, rc files | `s_clib.c`, `g_rc.c` | a cache of symbols | refresh, search | not modelled |
| libgeda file format | `o_basic.c`, `a_basic.c` | none | read, write | a file that cannot be read is one value |
| Xorn Python binding | `xorn/src/cpython/storage` | Python objects that hold revisions | wrappers around the storage | not modelled |
| Xorn file formats, commands and backends | `xorn/src/gaf`, `xorn/src/backend`, `xorn/src/command` | none between calls | parse, write | text processing, not modelled |
| gattrib | `gattrib/src` | a spreadsheet of attributes | load, edit, save | shares saving with gschem |
| gnetlist-legacy, gsymcheck, gaf, utils, gedai | their directories | none between runs | batch programs, a network client | not modelled |
| libgedacairo, symbols, docs, examples, contrib | their directories | | rendering, data | not modelled |

**How they interact.**  A program that uses Xorn calls the C functions of
`xornstorage.h` one at a time; several revisions may share object states, which
is all the interaction there is, and all the trouble: the revisions must not
notice it.  The netlister reads finalized revisions, finds the connections of
each sheet, and then works on one mutable graph of nets, net pieces and pins
in a fixed sequence of passes, each of which relies on what the earlier ones
left.

gschem is one process with glib's main loop.  Every mouse button and command is
a callback that runs to completion; most that change something end in
`o_undo_savestate`, which records the page for undo *and* performs autosaves that
a timer (`s_page_autosave`) asked for.  So undo, autosave, saving and closing meet
in the flags of a page (`CHANGED`, `ops_since_last_backup`, `do_autosave_backup`,
`saved_since_first_loaded`) and in files that outlive the process and that other
programs write too.  Between callbacks an *action* may be under way; the objects
that it places, moves or stretches are referred to by lists that other callbacks
may find.  The objects themselves are libgeda's.  Scheme programs hold them by
wrappers, which are told by a weak reference when an object is deleted, and run in
hooks in the middle of gschem's operations.  Configuration contexts emit
synchronous signals, whose handlers may be Scheme procedures that change the
configuration again.

**What is hard about it.**

* In Xorn storage: allocation can fail at any point of a call that has already
  changed maps and counts; shared object states must be copied before they are
  changed; types of objects change while they are attached to each other.
* In the netlister: connections are found from one side, in an order given by
  addresses, and needed from both; nets are merged by names, then by ports,
  while dictionaries, net pieces and pins refer to them.
* In undo: a record may hold a content or only a viewport, and refers to earlier
  records in the latter case; the list is trimmed from its bottom by a count
  that does not distinguish them; new work cuts the list in the middle.
* In files: gschem may crash, and other programs may write, between the two
  file operations of a save; saving and autosaving may fail; a name may be a
  link, so that two pages show one file; times are compared in whole
  seconds; and what the flags say must agree with all of that, because it
  decides whether a user is asked before work is thrown away.
* In actions: a list owns its objects in some modes and borrows them from the page
  in others, and each way out of an action has to know which it is.
* In libgeda's objects: pointers in both directions, no owner that the type
  shows, and connections that are kept up object by object.
* In the configuration: emissions nest, restart and absorb each other while the
  tree in which they travel changes.

**What makes each component correct.**  Xorn storage: each revision behaves as
if it was alone, and no error leaves a trace.  The netlister: what touches is
connected, and nets are exactly what is connected by touching, names and ports.
Undo: it walks through exactly the contents the page had.  Files: what was
written is never lost, unsaved work is in an autosave and is offered after a
crash, and closing without a question loses nothing.  Actions: nothing freed is
used, and every change reaches the undo history.  Objects: every pointer has its
counterpart, every object one owner, and connections are touches.
Configuration: altered contexts are saved, and no handler or heir misses a
change.  `PROJECT.json` lists the single hazards with their lines and the
properties that cover them.

## 2. The modules and the code

| Module | What it is |
|---|---|
| `XornStorage` | the storage backend, call by call |
| `XornRevisions`, `XornRefinement` | what its interface promises: revisions as values; the mapping to it |
| `XornStorageProofs` | proofs about `XornStorage`: invariants; what one call may do; the refinement |
| `XornConnections`, `XornConnectionsProofs` | what of a sheet is connected; proofs |
| `XornNets`, `XornNetsProofs` | nets, hierarchy and packages; proofs |
| `GschemUndo` | records, cursor and trimming of the undo lists |
| `UndoHistory`, `UndoRefinement` | what undo promises: a past, a present and a future; the mapping to it |
| `GschemUndoProofs` | proofs about `GschemUndo` and of the refinement |
| `GschemFiles`, `GschemFilesProofs` | pages, files, backups, autosaves, crashes; proofs |
| `GschemActions`, `GschemActionsProofs` | modes, actions and the lists they use; proofs |
| `LibgedaObjects`, `LibgedaObjectsProofs` | objects, connections, attributes, wrappers; proofs |
| `EdaConfig`, `EdaConfigProofs` | configuration contexts and their events; proofs |
| `MC...` | instances, bounds and symmetry for TLC |

### XornStorage

`obstates`, `children` and `parent` are the three maps of `struct
xorn_revision`, partial functions as in the code: reading a missing key of
`children` and entering it with `operator[]` are told apart (`Kids`, `Touch`).
`refcnt` and `content` are the object states; a cell is an address and is used
again once its count drops to zero.  `next_object_id` is the counter of
`manipulate.cc`, `ret` the result of the last call.  `aborted` is set
when an exception leaves a C function.

Every function that changes a revision is an action, with up to three more for
the ways it can end otherwise: `...Rejected` returns an error from the checks,
in their order; `...Fails` runs out of memory at one of the allocations, after
whatever the code did before it and takes back in its `catch`; and
`RelocateAborts` is the one allocation outside of a `try` block.  Types are
reduced to what `validate.cc` and the attachment rules distinguish: `"net"` (nets
and components, which take attachments), `"text"` (which can be attached),
`"line"` (neither).  Object data is a value that is either valid or not.

### XornRevisions

A document is the data of the objects and, for each object, the order of the
objects attached to it.  A call changes one transient revision as a whole or
changes nothing, except that numbers may be used up.  Lists are described by
which numbers or positions are in them, in ascending order, and not by the loops
of the code; the copies of a call may come in any order, as long as what is
attached to an object follows it.  `XornRefinement` maps
`View(r)` of every revision, what the query functions return, to a document.

### XornConnections

A sheet is a sequence of nets and components.  An instance is a net of the sheet,
or a pin of a component's symbol; components with the same symbol share its
objects, and the code compares objects (`Ob`), not instances, in places.
`Connect` is one round of the second loop of `ConnectionMap.goto`, which
considers each instance in any order and enters what it finds in both
directions (`Found`; end on end, end on middle, with the rules for buses and
pins).  The recursion of `traverse_net` is a stack: `StartPiece` is the loop over
all instances, `Traverse` a call, which may meet Python's recursion limit,
`Return` its end.  `MakeNets` is the assertion in `Net.__init__`.  Rotation and
mirroring of components are computed as in `conn.py`.

### XornNets

The state is that of `netlist.py`: `nets`, the net of each net piece, the
pieces, names, pins and package pins of each net, and the dictionary of names.
Each action is a round of a loop.

| Action | Code |
|---|---|
| `NameNet` | `net.py`: a name of a net piece merges nets, the younger into the older (`merge_into`) |
| `PrioritizeNames` | which name is shown; of several, any (the code takes the last of its list) |
| `NamePin` | a pin without a net gets one, with a number that is free |
| `ReorderNets` | only nets with pins are kept; the assertion there |
| `ConnectPorts` | `pp_hierarchy.py`: the ports of the subsheets are merged into the net of the pin |
| `Package` | `pp_graphical.py`, `package.py` and the end of the constructor in `netlist.py` |

What the sheets contain is a constant, a set of designs: net pieces, labels, ports and
packages.  The options for namespaces and for the priority of names are parts
of a design.

### GschemUndo

The doubly linked list from `undo_bottom` to `undo_tos` is the sequence
`undo[p]`, the pointer `undo_current` is the index `current[p]`.  A record holds a
content (`UNDO_ALL`: a file, or a list of objects) or `None`
(`UNDO_VIEWPORT_ONLY`, or an empty page with undo in memory, whose object
list is `NULL` as well), or `Lost` when the file could not be written.
`Savestate` is `o_undo_savestate`: cut behind the cursor, append, trim when the
counter is a multiple of ten.  `MoveTo` is `o_undo_callback`, for undo and redo.
`Savestate` is part of every action as in the code: opening a page records its
first state.  `undo_file_index` counts modulo `CheckEvery`, because that is all
that is read of it, and all pages share it.  The settings of the rc file, `rc`,
are chosen at the start from `Settings`.  The history variable `missed[p]` counts
the checks of the limit that fell to other pages since `p` had one.

### UndoHistory

The history a user has in mind: `past`, `present`, `future`.  An edit appends to
the past and ends the future; the past may be forgotten from its far end,
but at least `UndoLevels - 1` steps stay.  `UndoRefinement` takes the records with
contents up to the cursor as past and present, and those behind it as future.

### GschemFiles

`page[p]` is a `PAGE` with the flags named above, where `known` says whether
`last_modified` is the mtime of the file as it is now, and `ops` whether
`ops_since_last_backup` is not zero.  `file`, `backup` and `auto` are the files
`name`, `name~` and `#name#`, per real name, where `Real` is `follow_symlinks`.
`newer` says where the autosave is newer than the file, and `fresh` which
files were written in the current second, because `f_has_active_autosave`
compares times with `difftime` after `stat` cut them to seconds.  `asked` is
the question of the last callback.  `written`, `crashed`, `undone` and `left` are
history variables: no action reads them.  `left` holds the names whose file a page
had until Save As gave it another one.

| Action | Code |
|---|---|
| `OpenPage`, `OpenPageFails`, `NewPage` | `x_highlevel_open_page`, `x_lowlevel_open_page`, `f_open_flags`, `x_lowlevel_new_page` |
| `Edit`, `Look` | an operation that ends in `o_undo_savestate`; `Savestate` contains `o_autosave_backups` |
| `Undo` | `o_undo_callback`, reduced to what it does to the page: content and `CHANGED` become anything |
| `AutosaveTimer` | `s_page_autosave` |
| `SavePage`, then `SavePageDone` or `SavePageFails` | `f_save`: rename the old file to `name~`; write the new one |
| `ClosePage`, `RevertPage` | `x_lowlevel_close_page`, `x_lowlevel_revert_page` with `s_page_delete`, which removes the autosave |
| `Crash`, `ExternalWrite`, `NextSecond` | the process, other programs and the clock (external) |

Callbacks are atomic because gschem has a single thread.  `f_save` is the
exception, since what is on disk between its two operations is what a crash
leaves and what another program finds.  That a save may also stop after the
rename is `SavePageFails`.

### GschemActions

The variable `w` is `w_current` with its page: a record of the mode
(`event_state`), `inside_action`, the objects of the page, the selection, the
place list, the nets that a move stretches, the object whose grip is held, and
whether a path is under construction.  `live` are the objects that are allocated.
`recorded` says whether the newest undo record shows the page as it is, which
is all that is needed of undo here.  `freed_twice` and `failed` record a double
free and a failed assertion.

The helpers are the functions that many handlers share, on the record: `Cleaned`
(`o_redraw_cleanstates`), `Cancelled` (`i_cancel`), `MoveStart`, `MoveEnd`,
`MoveCancel`, `PlaceEnd`, `CopyStart`, `Restored` (`o_undo_callback`) and so on.  The
actions are the handlers: `PressEnds`, `PressStarts`, `PressTurns`,
`ReleasePlaces`, `ReleaseEnds`, `Motion`, `MiddleButton`, `RightButton` and
`DoubleClick` for the mouse, by the branches of `x_event.c`; `EditUndo`,
`ClipboardPaste`, `AddNet`, `Save` and the others for the commands of `actions.c`
and the dialogs.  Positions and what the mouse hits are chosen freely.  Pasting
has a case of its own for objects without bounds: `o_buffer_paste_start` has filled
the place list by then, starts no action and reports an empty clipboard
(`o_buffer.c:175`).

Some commands leave an action that is under way as it is: redo, rotating
without a place list, updating components, the dialog for text, saving, adding a
path.  They are given within an action only if they are in the constant
`Interrupts`.  The passing run has rotating and asking for a path in it; the
theorems say for which interrupts they hold, and section 5 what the others do.

### LibgedaObjects

The pointers of the structures are functions: `page` and `parent` of an object with
`objects` of the page and `prims` of the component as their opposites;
`attached_to` and `attribs`; `conn`, the records of `s_conn.c` with their type and
place; `connectible`, the page's list of objects that may connect; `selection`.
An address is used again after its object was freed.  `held` are the wrappers
that exist, `gc` those that free their object when they are collected.

| Action | Code |
|---|---|
| `Make`, `Wrap`, `Collect` | constructors in Scheme, `edascm_from_object`, the smob's `free` |
| `PageAppend`, `PageRemove`, `ComplexAppend`, `ComplexRemove` | `scheme_page.c`, `scheme_complex.c`, with `s_page_append`, `s_conn_update_object` and so on |
| `AttachAttrib`, `DetachAttrib` | `scheme_attrib.c` |
| `SetLine`, `Translate` | `set-line!` and its like, which look for connections again; translating and `set-component!`, which do not |
| `SelectObject`, `DeselectObject`, `ClosePage` | `o_selection.c`, `s_page_delete` |
| `DeleteSelected`, `DeleteRemoved` | `o_delete_selected`; the hook runs between the two, so any other call may, too |
| `StartConsolidate`, `Merge`, `FinishConsolidate` | `o_net_consolidate`, pair by pair in any order |

Geometry is one line of the grid: a net is a pair of coordinates.  That is enough
for ends on ends, ends in the middle, overlaps and lines of length zero.  `moved` and
`merged` are history variables that name the two cases in which connections
are knowingly not up to date.

### EdaConfig

A key file is the set of the parameters in it.  An emission of "config-changed"
is an entry on the stack `emissions`: the class handler has run, `todo` are the
handlers still to be called, `restart` is set when the signal is emitted again on
the same context (`G_SIGNAL_NO_RECURSE`), `in_proc` while a Scheme procedure runs.
`CallChild` is `parent_config_changed_handler`, `CallProc` the dispatcher of
`scheme_config.c`.  `SetValue`, `SetParent`, `AddEvent`, `RemoveEvent`, `Load`,
`Save` and `NewContext` may be called whenever nothing is emitting or a
procedure runs.  `altered`, `untold`, `owed` and `absorbed` are history
variables: what should be saved, who should be called, which context should hear of
what, and whether an emission was merely asked to restart.

## 3. What is checked

Nine runs show that properties hold; three that a property which the repository
states does not hold (section 5).

| Run | Instance | Shows |
|---|---|---|
| `xorn` | two revisions, three cells, two objects, or up to four with two references; 24,718 states | reference counts are exact, nothing freed is used, the object tree stays a tree with typed attachments, errors change nothing, and the backend implements `XornRevisions` |
| `undo` | a page with three contents beside another one; two levels without viewport records, or nine with them; 46,252 states | undo and redo walk through what the page showed, across trimming; each list is bounded by the limit and by the checks it missed; the cursor leads to what the page shows |
| `files_one` | one page, two names, two contents, Save As between the names, undo, a disk that may be full; 2,994,774 states | nothing written is lost, an unchanged page is in its file, unsaved work is in the autosave, an autosave without a page is left over from a crash or from Save As |
| `files_autosave` | one page, one name, two contents and a disk that is not full; 10,325 states | work that goes on gets into an autosave (liveness) |
| `nets` | designs with four net pieces, eight pins and a subsheet, all combinations of a few names; 138,540 states | names lead to nets, nets are the connected components, titles are unique, no connection between packages is lost |
| `conn` | sheets of two to four objects from eight nets and eight components; 665,790 states | each touch is known on both sides; pieces are connected components |
| `config` | default, system, user and a local context, one parameter, one procedure; 544,371 states | altered contexts are marked, handlers see the last change, heirs are told |
| `modes` | five objects, two of them created at a time; rotating and asking for a path within actions; 62,183 states | nothing freed is in use, the place list has one owner, ended actions leave nothing but what was pasted without bounds, a path is missing only when it was asked for while selecting, changes are recorded but by moves, updates and turning |
| `objects` | three objects of five kinds, one page, one wrapper each; 553,760 states | all pointers agree, each object has one owner, connections are touches |
| `undo_changed`, `modes_freed`, `objects_gc` | small instances | section 5 |

**Bounds.**

* `MaxId` bounds the numbers of objects in one behaviour, `MaxReferences` and
  `FewObjects` (the constraint `Small`) the references from which a state is
  explored further.  Two objects in two revisions are enough for
  sharing and for copy-on-write with a cell that is used again; four numbers are
  needed to copy an object with an attachment to another revision, and three
  objects for a change of order among siblings of a common parent.  States
  beyond the constraint are still checked.
* `xorn` uses the types `"net"` and `"text"`; an object of type
  `"line"` is refused where a text is as parent or a net is as attachment.  The
  proofs are about all three.
* Three cells are one more than two objects occupy, so that a call can find
  memory or not, and an address can return.
* `UndoLevels`, `UndoPadding` and `CheckEvery` are 10, 5 and 10 in the code and
  2, 2 and 2 here; what matters is that lists grow to be trimmed more than once.
  With viewport records (`undo-panzoom`) trimming breaks what it should keep
  (section 5), so the settings are either without them, or with more
  levels than there are records.  `MaxViewed` bounds the lists in the latter
  case; `MaxTrimmed` is not reached in the former.  The constraint follows the page
  `Main` while it has missed at most `MaxMissed` checks, here one; the
  other page is there to take checks away, and the bound of `HistoryBounded` is reached
  exactly.
* `files_one`: the page may be saved under either name at any time, and back.  States
  are explored further only while no name but `Main` has a backup or an autosave
  (`Small`), and `OthersWriteMain` keeps other programs to its file.  Links and a
  second page on the same file are in the theorems (section 4) and in section 5.
* `nets`: the designs are a sheet and a subsheet.  One half has up to three names, or
  four of one origin, on the four net pieces, in every assignment, with two names of
  which one looks like a generated one; the other half has up to one name and all
  connections of the pins of a composite component, its ports and the components inside.  `MaxNets` is
  not reached: there are never more nets than labels and pins.
* `conn`: the catalogue has horizontal, vertical and slanted nets, a net of length
  zero, buses, and components in several orientations, from the library, embedded and
  with a bus pin, placed so that ends, middles and pins meet.  The recursion limit of
  five ends the traversal of the longest chains, so that this happens as well.
* `config`: procedures are connected to the user context only, and `DefaultStays`
  leaves the default context at the root and unset; further contexts and
  procedures multiply the states.  The proofs have no such bounds.
* `modes`: five objects are two on the page, two that an action creates (copies, or
  stretched nets), and one whose address is free to be used again.  Of the commands
  that interrupt actions it has the two after which objects stay safe; the others
  free objects that are in use (section 5).
* `objects`: `OneOfAKind` allows two nets or pins, but one bus, text and component, and
  `OneOutdated` one object whose connections are out of date; three objects
  are a component with a pin that meets a net, or a net that ends in
  the middle of another one with an attribute.
  The three lines are two neighbours and the line over both.
* Symmetry is used for cells, revisions, contents and objects, never in the liveness
  run.  The view `NoRet` leaves out `ret`, which no action reads.
* Deadlock is not checked for Xorn, because nothing happens any more after
  `aborted`, nor for the modes, which end when an assertion fails: the process
  has ended.

**Fairness.**  A library makes no calls by itself and a user need not do anything,
so there is none for the libraries, for undo and for the user of gschem; the
netlister's loops and an emission either go on or the program has stopped.
`files_autosave` assumes `SF(AutosaveTimer)`: glib dispatches the timer between
callbacks again and again, though a save in progress disables it in between.  That the
user goes on editing is the premise of the property itself, because
autosaves are written by the next operation after the timer, and only then.

**Refinements.**  `RevisionsAreValues` and `UndoIsHistory` are checked as
properties: every behaviour of the detailed specification is one of the
abstract specification.  Both are also proved.

## 4. What is proved

By TLAPS, for every value of the constants that satisfies the assumptions of the
modules.  A theorem without a property of a run says something that no run asks.

| Theorem | Property | Further assumptions |
|---|---|---|
| `XornStorageProofs!TypeCorrect` | `TypeOK` | |
| `XornStorageProofs!CountsAreExact` | `RefcountExact` | |
| `XornStorageProofs!NothingDangles` | `NoDanglingState` | |
| `XornStorageProofs!RevisionsAreForests` | `TreeConsistent` | |
| `XornStorageProofs!AttachmentsAreTyped` | `AttachmentsTyped` | |
| `XornStorageProofs!FinalizedStaysFrozen` | (`FinalizedFrozen`) | |
| `XornStorageProofs!CallsChangeOneRevision` | (`OneRevisionChanges`) | |
| `XornStorageProofs!NumbersStayUnique` | (`NumbersNeverReused`) | |
| `XornStorageProofs!FailedCallsLeaveNoTrace` | `ErrorChangesNothing` | |
| `XornStorageProofs!StorageKeepsItsPromise` | `RevisionsAreValues` | |
| `XornConnectionsProofs!TypesCorrect` | `TypeOK` | |
| `XornConnectionsProofs!FindsAllTouches` | `ConnectionsAreTouches` | |
| `XornConnectionsProofs!PiecesCorrect` | `PiecesAreComponents` | |
| `XornConnectionsProofs!TraversalBounded` | (`DepthBounded`) | |
| `XornNetsProofs!NetsTyped` | `TypeOK` | |
| `XornNetsProofs!NamesFollowMerges` | `NamesLeadToNets` | |
| `XornNetsProofs!NetsCorrect` | `NetsAreComponents` | |
| `XornNetsProofs!TitlesStayUnique` | `TitlesUnique` | |
| `XornNetsProofs!NothingIsDisconnected` | `NoConnectionLost` | |
| `GschemUndoProofs!StateTyped` | `TypeOK` | |
| `GschemUndoProofs!CursorIsRight` | `CursorShowsContent` | files, no viewport records, a disk that is not full |
| `GschemUndoProofs!HistoryLimited` | `HistoryBounded` | files, no viewport records |
| `GschemUndoProofs!UndoRefinesHistory` | `UndoIsHistory` | files, no viewport records, a disk that is not full |
| `GschemFilesProofs!FilesTyped` | `TypeOK` | |
| `GschemFilesProofs!NothingSavedIsLost` | `SavedVersionSurvives` | |
| `GschemFilesProofs!UnchangedIsInFile` | `UnchangedPageIsInFile` | no two names differ by case only |
| `GschemFilesProofs!QuietPagesAreAutosaved` | `QuietPageIsAutosaved` | no links, and never two pages on one file |
| `GschemFilesProofs!NoQuietWorkIsLost` | `QuietPageIsAutosaved` | no links, and no Save As under another name |
| `GschemFilesProofs!AutosavesAreLeftOver` | `AutosaveIsLeftOver` | |
| `GschemActionsProofs!StateTyped` | `TypeOK` | |
| `GschemActionsProofs!PathsExist` | `PathsAreBegun` | |
| `GschemActionsProofs!ChangesAreKept` | `ChangesAreRecorded` | |
| `GschemActionsProofs!ObjectsAreSafe` | `NothingFreedInUse` | only rotating and asking for a path interrupt actions |
| `GschemActionsProofs!PlacementsAreOwned` | `PlaceListIsOwned` | the same |
| `GschemActionsProofs!ActionsEndCleanly` | `EndsCleanly` | the same |
| `LibgedaObjectsProofs!ObjectsTypeCorrect` | `TypeOK` | objects are placed through the wrapper that would free them |
| `LibgedaObjectsProofs!LinksKeepAgreeing` | `LinksAgree` | the same |
| `LibgedaObjectsProofs!NoneFreedTwice` | `OwnedOnce` | the same |
| `LibgedaObjectsProofs!ConnectionsStayRight` | `ConnectionsAreTouches` | the same |
| `EdaConfigProofs!TypesCorrect` | `TypeOK` | |
| `EdaConfigProofs!InheritanceEnds` | (`NoLoops`) | |
| `EdaConfigProofs!AlteredContextsAreMarked` | `AlteredIsMarked` | |
| `EdaConfigProofs!NoHandlerMissesAChange` | `HandlersSeeTheLast` | |
| `EdaConfigProofs!EventsReachInheritors` | `EventsFlowDown` | |

**Xorn storage.**  `StorageAssumption` asks for finitely many revisions and cells (so
that references can be counted) and that invalid data is not valid.  The inductive
invariant `StorageInv` joins the properties with three facts: a revision that is
not live is empty (or `NewRevision` would start with objects), a counted cell
is allocated (or a revision could share a freed one), and no object is numbered
beyond `next_object_id` (or a new object could meet an old one).  None of
the properties is inductive without others: an attachment stays typed
because the tree has both directions, with which `xorn_set_object_data` checks
the objects at the other end; the tree stays one because deletion finds all
attachments in the vectors.  The module first proves what `Insert`, `EraseAt` and
`Without` do to a sequence, what binding or dropping an entry does to the
count of a cell, and what each elementary change does to a forest; then, for
each action, one lemma per part of the invariant.  The
action properties follow: with exact counts, a cell that another revision uses is
not swept and not bound again, so that the revision looks as before.  For
`ErrorChangesNothing` the revision that a failing call works on is not
untouched: the call has looked up vectors with `operator[]`, which enters empty
ones, added objects and taken them out again.  `CopiesUnseen` and the
other `...Unseen` lemmas say that what is left of this is what no query shows.

The refinement needs no invariant of its own: `StorageInv` holds before and after
each step, and the theorem has one lemma for each kind of call (`...Refines`).
`KeptData` gives a cell that a revision goes on using the same content, however
many cells the step frees, fills or counts again, and `ChangeIs` turns a step that
leaves all other revisions alone into a `Change` of the one it was given.  What
is left is arithmetic of lists.  `AscendingIs` and `LeftIs` identify the ranking by a
relation in `XornStorage` with the ascending order in `XornRevisions`;
`EraseInsert` shows that entering an object first and erasing its old entry
second, one position further if the new entry went before it, is to erase
first and enter second.  For copies, `CopyPositions` finds where each object is in
the order of the recursion and, by the least counterexample (there is
no induction), that what is attached to it comes right behind; the numbers of the
copies and their lists follow (`CopiesAttached`, `CopiedLists`).  A call that
fails spends numbers and nothing else (`UnseenSpends`).

**Netlister connections.**  `ConnectionsAreTouches` holds at the end because, all
along, connections are entered in both directions and the instances already considered have found
everything that they touch from their own side (`ConnectionsInv`); what
touches in one direction only is found from the other side when its turn comes.
For the pieces the invariant has two halves.  `NothingForgotten` says that whatever is
connected to a visited instance belongs to its piece or is pending on the
stack; `NothingAdded` that no closed set of instances separates the members of a
piece from each other or from what is pending.  `DepthBounded` follows
because each call on the stack but one has visited an instance of its own.

**Nets.**  `NetsInv` says what each loop relies on of the one before.  While names are
given, the dictionary leads from every name considered so far to the net of its piece,
and has no other names, so that a name that is found connects the piece with one
that was considered before; a round is proved in two steps, naming and merging
(`RoundPieces`, `RoundNames`).  Afterwards the titles are among the names of the
dictionary, which is why looking a generated name up there keeps titles
unique (`TitlesKnown`), and every pin has a net on the list when ports are connected
(`NetsListed`).  Components are proved from both sides: the pieces of a
net are closed under the names and ports considered (`LabelsAgree`, `LinksAgree`),
and no closed set of pieces divides a net (`Together`).  No connection is lost because
a net that connects two package pins has two connections, and is kept
even if it began as an unconnected pin.

**Undo.**  `Typed` needs no assumption and gives `StateTyped`.  The invariant
`Sound` adds, for contents in files and no viewport records (`Plain`), that
every record holds a content (`Whole`), the cursor shows the page (`Shown`), and
the list is not longer than the limits, the counter since the last check and the
checks missed before allow (`Short`).  Any number of pages share the counter: a record
of another page moves it on, and if the check falls to that page, `missed`
grows with what the list may have grown by.  One lemma, `SavedIs`, says what saving the state does to a list:
a record is appended behind the cursor and some are freed from the
bottom.  The refinement then has a step for each action: an edit appends to
the past, a save and a look are stutters, closing ends the history, and trimming forgets
from its far end, as `UndoHistory` allows.

**Files.**  `FilesAssumption` says that following links ends (`Real[Real[n]] =
Real[n]`) and that the marks for absence are no contents.  `TypeOK` and
`SavedVersionSurvives` are inductive, and so is `UnchangedPageIsInFile` with
`TypeOK`: saving the state changes counters only, which is one lemma, and
of the rest only opening, saving and other programs' writes touch both sides.
The third theorem assumes `CaseDoesNotMatter`: Save As leaves a page its name
if the new one differs by case only, so the page is unchanged then and its file
is another one.

Of the autosaves, `Quiet` states the property for one page, and the lemma `SavestateQuiet`
what saving the state does to it: the autosave of a page that was due is written, or the
page stays due, and no other page interferes as long as each file has one page.  That condition,
`OnePagePerFile`, is one the code does not keep: two names may be links to
one file, and Save As may give a page the file of another one, and
then the two share an autosave.  `NoQuietWorkIsLost` derives it from what users do
(`PagesKeepTheirFile`, without links).  Opening a file that cannot be read deletes its
autosave (`OpenPageFails`), which is the autosave of a page only if the
page has the same file under another name.

`AutosaveIsLeftOver` needs no such condition.  An autosave is written for an open page
only, and closing or reverting the page removes it; so when there is one and no page has
the file, either the program crashed since, or the page has gone to another file,
which only Save As does (`left`).  Links and several pages on one file are no
exceptions: the proof looks for *some* page with the file.

**Actions.**  There are two arguments.  The first is about single steps and holds
whatever interrupts an action: `Plain` says of a helper that it keeps the types, the
path and what is recorded, `Steady` the same without the last, and each
handler is a chain of such helpers but for the few places that begin or use a
path or change the page.  That gives `StateTyped`, `PathsAreBegun` and
`ChangesAreRecorded`.  The second is an invariant, `Good`, of four
parts: the types (`Shaped`), that nothing referred to is freed (`Unharmed`), that
the place list shares objects with the page in a move only and is the selection then
(`Owned`), and which lists may be filled in which mode (`Staged`).  The last is
the reason for the others: each handler decides by the mode and by whether the
place list is empty.  It has to allow for the objects that pasting left in the place list
without an action: the next action frees them, or another one begins with
them and leaves them where they are.  `Harmless` admits rotating and asking for a
path as interrupts; with redo it is false, as `modes_freed` shows, and with
updating, saving or the text dialog as well (section 5).

**Objects.**  The invariant adds to types and agreement that what gschem is about to
delete is nowhere else (`Loose`), that connections are of conductors and cross the
border of a component at pins only (`Meeting`), that only texts are attached
(`Tagged`), that an attached object is on a page or in a component (`Placed`), and
who frees an object (`Owned`).  `Meeting` is what keeps the connections on one
page when a component is taken apart.  `ConnectionsAreTouches` is proved from
two lemmas: removing the connections of a set of objects leaves the touches
of the others (`TouchCut`), and looking for the connections of an object on a page
where it has none adds exactly its touches (`TouchJoin`).

An object may have any number of wrappers.  What the theorems ask of the programs
(`OwnersHandOver`, an action formula: `Disciplined` is `Spec` with it) is that
`page-append!` and `complex-append!` are called with the wrapper that would free the
object.  Nothing is asked of removing, of collecting and of the other calls:
that an object out of C's hands has exactly one wrapper with the
permission, and none otherwise, is what is proved.  The condition is
necessary: without it `OwnedOnce` fails (`objects_gc`), and then pointers lead to
freed objects.  With one wrapper per object, as in the run `objects`, it holds by itself
(`OneWrapperSuffices`).

**Configuration.**  `Marked` and `Seen` extend the first two properties to the middle of
an emission: what is not yet marked or told is so because an emission on
that context will restart, or has still to call the handler.  For
`EventsFlowDown`, `Owed` says that every context which is owed an event will be
reached: it is in each set that contains the children still to be called and
is closed under inheritance.  That argument avoids an induction along the tree,
as `IsDescendent` and `NoLoops` do, which are stated by sets of contexts as well.

**Only model-checked.**  Liveness (`AutosaveFollows`), which is beyond the prover;
undo with viewport records that are not trimmed; and `QuietPageIsAutosaved` with Save
As, where the theorem about what users do assumes otherwise.

## 5. Where the code departs from what it says

In three runs TLC finds a behaviour of the model that a comment excludes:

* `undo_changed`: edit, save, undo.  The page differs from its file, but `CHANGED`
  is restored as it was recorded, which was before the save, so the page closes
  without a question (`o_undo.c:441`).
* `modes_freed`: redo is given while objects are moved.  It frees the objects of the
  page, to which the place list refers, and then the place list.  Undo ends the
  action instead, for this reason, as its comment says (`actions.c:731`).
* `objects_gc`: `object-component` and the like make a new wrapper for an object at each call.
  An object that was removed from a page through one wrapper, which is then
  allowed to free it, and is added again through another one, is freed when
  the first is collected, though "cleanup [is] now managed by C code"
  (`scheme_page.c:274`).

Other such properties are defined in the modules, but no run has them.  TLC refutes each
when it takes the place of the properties of the passing run of its module, where
needed with other constants as said here.

* `XornStorage!NeverAborts`: `xorn_relocate_object` enters the list of the new parent
  before its `try` block; running out of memory there ends the program instead of
  returning `xorn_error_out_of_memory` (`manipulate.cc:370`).
* `XornStorage!ModifiedDiffer`: `xorn_get_modified_objects` compares addresses, so an
  object that is set to the data it has is reported as having "different type or data".
* `GschemUndo!DataLowerInStack`, `CursorShowsContent` and `UndoIsHistory` with viewport
  records and few levels: trimming frees as many records as there are contents too
  many, also if those are not the records with contents; a viewport record may
  remain as the first and undo to it finds no content.  The comment says the
  data is "lower in the stack" (`o_undo.c:218`).
* `GschemFiles!AutosaveMeansCrash` with two names: an autosave that is newer than the file
  is said to be there because gschem "crashed or it was forced to exit abruptly"
  (`f_basic.c:270`), but Save As leaves the autosave of the old name
  behind (`x_lowlevel.c:267`).  `AutosaveIsLeftOver` is what holds.
* `GschemFiles!UnsavedWorkIsOffered`: after a crash of a page that was never saved,
  opening its name offers to create the file, and not the autosave, for which
  `f_has_active_autosave` has a case (`x_highlevel.c:217`).
* `GschemFiles!LinkedWorkIsOffered` with a link: the autosave of a page that was opened
  by a link is written beside the target and looked for beside the link
  (`f_basic.c:102`).
* `XornConnections!SamePinsConnected`: instances are compared by their objects, which
  components of one library symbol share, so the same pins of two components
  at one place are not connected (`conn.py:188`).
* `XornConnections!BusesSeparate`: a net that ends in the middle of a bus is connected
  to it, so that both are in one piece, and the assertion that a piece is either bus or
  not stops the netlister (`blueprint.py:425`).
* `XornNets!AssertionHolds`: `net.py:259` sorts `Net` objects, which Python 3 cannot
  compare, so that the assertion raises `TypeError` whenever there are two nets.
* `XornNets!PackagePinsAgree`: a package pin that several unconnected pins make
  up takes the first of their nets (`package.py:318`), which may be dropped
  afterwards, while another one that lists the pin is kept (`netlist.py:335`).
* `GschemActions!CancelRewinds`: the comment in `i_cancel` says that cancelling a move
  re-winds the page; rotations made during the move stay, and no undo record
  has them (`i_basic.c:633`).
* `GschemActions!RestIsClean`: pasting objects without bounds leaves them in the place list
  with no action under way (`o_buffer.c:175`).  If drawing starts next, a click
  is not taken for the end of it, because something seems to be placed
  (`x_event.c:144`).  `EndsCleanly` is what holds.
* `EdaConfig!EventsAlwaysFlowDown` with two parameters: setting a parameter in a context that is
  emitting only restarts the emission under way, with the parameter of that, so
  heirs need not hear of the other one (`edaconfig.c:127`;
  `docs/specifications/config-api.txt:623`).

Some properties hold for the instances of section 3 and not beyond.  The model
shows it with other values of the constants:

* The bound of `HistoryBounded` without `missed`, with two pages: the counter of undo
  files is shared, so one page may always miss the multiples of ten, and
  its list has no bound at all.
* `CursorShowsContent` with `Medium = "memory"`: an empty page is an empty list, and
  an empty list is taken for no content.  And with `DiskFull`: undo empties the
  page before it finds that the file was never written.
* `AutosaveFollows` without `UndoControl`: no operation is counted then, and
  nothing is ever autosaved.
* The properties of `GschemActions` with other interrupts, or in the exceptions they
  make.  Saving, adding an attribute or
  choosing a slot sets the mode to `SELECT` without ending the action
  (`x_lowlevel.c:300`), and the next click treats the placed objects as something else.
  The dialog for text frees the place list of a move, that is, objects of
  the page.  Updating a component during a move frees an object of the
  place list.  Asking for a path with the left button held makes the assertion in
  `o_path_end` fail when it is released (`o_path.c:456`): `PathsAreBegun` says that this is
  the only way.  Rotating within an action is not recorded for undo unless the
  action is, which `ChangesAreRecorded` excepts.
* `ConnectionsAreTouches` of `LibgedaObjects` without the exceptions it makes: after
  `translate-object!` and `set-component!` connections are out of date, and
  `o_net_consolidate` keeps the connections of the nets it merges without
  looking whether they still touch (`o_net_basic.c:507`).

## 6. What is left out

* Object data, geometry beyond what section 2 names, and the wording of files and
  messages.  Queries without side effects.
* The netlister: slotting, power pins and `net=` attributes of symbols
  (`pp_slotting.py`, `pp_power.py`, `pp_netattrib.py`), except as names that nets are
  given; reading sheets, error reports, backends.
* `GschemUndo`: the viewport itself, the hierarchy fields of records, and
  `undo-control` (assumed enabled; without it nothing is recorded).  The
  renaming of pages during undo.  A negative number of undo levels, which the rc
  file may set.
* `GschemFiles`: untitled pages, the current page, permissions and backup
  directories, the read-only mark of autosaves, embedded main loops of dialogs
  (a question is answered in any way, but nothing else happens meanwhile).
  The autosave interval is assumed not to be zero, which disables autosaves.
  `Look` assumes `undo-panzoom`; without it, panning does nothing here.
* `o_read` reads all of a file or rejects it.
* `GschemActions`: what is drawn, strokes, the options menus, views, the clipboard's
  content, hooks, pages other than the current one, and the hierarchy.
* `LibgedaObjects`: copying objects, with the pointers `copied_to` that it
  leaves; wrappers of pages; embedding; components in components, which the Scheme
  calls refuse.  Hooks that run while gschem deletes are
  assumed not to place the removed objects again.  The flag `selected` is
  taken to be the membership in the selection.  Of gschem's operations only
  deletion is here, the others are made of the same calls.
* `EdaConfig`: values and their types, trust, files that cannot be read or
  written, and the errors these give.
* Much of what lies in the source directories is no part of a program:
  `gschem_file_handlers.c`, which is not built, is a sketch followed by eleven thousand
  lines of search results; `actions_old.c` and `.refactor/snapshots` are earlier
  versions of `actions.c`.  The dock windows of gschem
  (`gschem_multiattrib_dockable.c` and others) are views on objects and call the operations that
  are modelled.
* The programs under "not modelled" in section 1: batch programs that keep no state
  between calls, text formats, network clients and rendering.  The control
  connection and the AI panels would only show anything interesting together
  with nested main loops; the component library and the Python binding are in the plan.

## 7. The plan

1. *Session.*  `GschemSession` composes undo, files and actions over the same
   pages: then `Undo` of `GschemFiles` restores what was recorded, and
   `undone` disappears.  It adds untitled pages, nested main loops of dialogs (a
   page kept in a local variable may be closed in one), the change
   notification bar, which takes over the new mtime, the control connection and
   the answers of the AI panels.  Properties: a callback never uses a page that was
   closed meanwhile; every question about unsaved work is asked; an ignored
   notification does not suppress a later one.
2. *libgeda.*  Copying in `LibgedaObjects`, and the weak references of pages; the caches of the component library under refresh.
3. *Netlister.*  The passes for slots, power and net attributes; a composition of
   `XornConnections` and `XornNets`, so that net pieces are what was traversed.
4. *Python binding.*  Lifetimes of wrappers; selections as sets of objects.
5. *Proofs.*  Undo with viewport records that are not trimmed.

Abstract specifications to come: a session that never discards work without a
question, and a partition of pins for the netlister as a whole.
