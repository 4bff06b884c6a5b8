---------------------------- MODULE GschemActions ----------------------------
(***************************************************************************)
(* The editing modes of gschem (gschem/src/x_event.c, actions.c, i_basic.c,*)
(* o_basic.c and the o_*.c of the operations): what the mouse buttons, the *)
(* commands and the dialogs do to the mode, to the action that is under    *)
(* way, and to the objects that the page, the selection, the placement, the*)
(* rubber-banded nets and the grip refer to.                               *)
(*                                                                         *)
(* A handler runs to its end before the next one.  Positions, the clipboard*)
(* and what is hit by the mouse are chosen freely, undo levels are those of*)
(* GschemUndo: here a page is either as its last undo record says, or not. *)
(* A command that does not end the action that is under way is an interrupt*)
(* and may be given within one only if it is in Interrupts.                *)
(***************************************************************************)
EXTENDS Naturals, FiniteSets

CONSTANTS
  Objects,      \* OBJECT structures
  NewAtOnce,    \* bound: so many objects are created by one step
  NULL,         \* no object
  Interrupts    \* commands that are also given within an action

VARIABLE w      \* w_current, with its page

Shapes == {"ARCMODE", "BOXMODE", "CIRCLEMODE", "LINEMODE", "PICTUREMODE", "PINMODE"}
Drawing == Shapes \cup {"NETMODE", "BUSMODE", "PATHMODE"}
Placing == {"COMPMODE", "TEXTMODE", "PASTEMODE", "COPYMODE", "MCOPYMODE"}
\* Modes in which o_redraw_cleanstates finds nothing to clean.
Quiet == {"SELECT", "PAN", "MIRRORMODE", "ROTATEMODE", "SBOX"}
Modes == Drawing \cup Placing \cup Quiet \cup {"MOVEMODE", "GRIPS", "ZOOMBOX", "OGNRSTMODE"}

ASSUME ActionsAssumption == NULL \notin Objects

(* mode is event_state.  temp_path says whether a path under construction  *)
(* exists and has sections.  live are the objects that are allocated.      *)
(* recorded says whether the newest undo record shows the page as it is.   *)
State ==
  [mode : Modes, inside_action : BOOLEAN, page : SUBSET Objects,
   selection_list : SUBSET Objects, place_list : SUBSET Objects,
   stretch_list : SUBSET Objects, which_object : Objects \cup {NULL},
   temp_path : {"NULL", "empty", "begun"}, live : SUBSET Objects,
   recorded : BOOLEAN, freed_twice : BOOLEAN, failed : BOOLEAN]

Held(s) ==
  s.page \cup s.selection_list \cup s.place_list \cup s.stretch_list \cup {s.which_object}
New(s) == {N \in SUBSET (Objects \ (s.live \cup Held(s))) : Cardinality(N) <= NewAtOnce}

Init ==
  \E P \in SUBSET Objects :
    /\ Cardinality(P) <= NewAtOnce
    /\ w = [mode |-> "SELECT", inside_action |-> FALSE, page |-> P, selection_list |-> {},
            place_list |-> {}, stretch_list |-> {}, which_object |-> NULL,
            temp_path |-> "NULL", live |-> P,
            recorded |-> TRUE, freed_twice |-> FALSE, failed |-> FALSE]

-----------------------------------------------------------------------------
(* Starting and ending actions.                                            *)

SetState(s, m) == [s EXCEPT !.mode = m]
ActionStart(s) == [s EXCEPT !.inside_action = TRUE]
ActionStop(s) == [s EXCEPT !.inside_action = FALSE]
Rest(s) == ActionStop(SetState(s, "SELECT"))

\* s_delete_object_glist
Delete(s, S) ==
  [s EXCEPT !.live = @ \ S, !.freed_twice = @ \/ ~(S \subseteq s.live)]
FreePlaceList(s) == [Delete(s, s.place_list) EXCEPT !.place_list = {}]

\* Mutant: o_move_cancel leaves the place list to its caller.
MoveCancelKeeping(s) == ActionStop([s EXCEPT !.stretch_list = {}])

MoveCancel(s) == ActionStop([s EXCEPT !.place_list = {}, !.stretch_list = {}])

GripsCancel(s) == [s EXCEPT !.which_object = NULL]

(* i_cancel.  While a component is placed, deselecting it in the component *)
(* selector deletes it and ends the action.                                *)
Cancelled(s) ==
  LET selector == IF s.mode = "COMPMODE" THEN Rest(FreePlaceList(s)) ELSE s
      stopped == IF selector.inside_action THEN MoveCancel(selector) ELSE selector
      released == IF stopped.mode = "GRIPS" THEN GripsCancel(stopped) ELSE stopped
  IN  SetState(FreePlaceList(released), "SELECT")

(* o_redraw_cleanstates, which a command calls before it changes the mode. *)
Cleaned(s) ==
  IF ~s.inside_action \/ s.mode \in Quiet THEN s
  ELSE LET stopped == IF s.mode = "MOVEMODE" THEN MoveCancel(s) ELSE s
           released == IF s.mode = "GRIPS" THEN GripsCancel(stopped) ELSE stopped
       IN  Rest(FreePlaceList(released))

\* The page was changed by adding N and removing D, and o_undo_savestate called.
Changed(s, N, D) ==
  [s EXCEPT !.page = (@ \cup N) \ D, !.live = (@ \cup N) \ D,
            !.selection_list = @ \ D, !.recorded = TRUE]

-----------------------------------------------------------------------------
(* Placing objects: components, text, the clipboard and copies.            *)

\* Mutant: the state is not saved after the objects were added.
PlaceEndUnsaved(s, continue_placing, select_placed, N) ==
  LET placed == IF continue_placing THEN N ELSE s.place_list
      added == [s EXCEPT !.page = @ \cup placed, !.live = @ \cup N, !.recorded = FALSE,
                         !.selection_list = IF select_placed THEN placed ELSE @]
  IN  IF continue_placing THEN added ELSE Rest([added EXCEPT !.place_list = {}])

(* o_place_end puts the objects on the page, or copies N of them if placing*)
(* goes on.                                                                *)
PlaceEnd(s, continue_placing, select_placed, N) ==
  LET placed == IF continue_placing THEN N ELSE s.place_list
      added == [Changed(s, placed, {}) EXCEPT
                  !.selection_list = IF select_placed THEN placed ELSE @]
  IN  IF continue_placing THEN added ELSE Rest([added EXCEPT !.place_list = {}])

\* The new objects N are to be placed; the old place list is freed first.
Place(s, m, N) ==
  ActionStart([SetState(FreePlaceList(s), m) EXCEPT !.place_list = N, !.live = @ \cup N])

Copies(s, S) == {N \in New(s) : Cardinality(N) = Cardinality(S)}

\* Mutant: the selected objects themselves are placed.
CopyStartShared(s, N) ==
  IF s.selection_list = {} THEN s
  ELSE ActionStart([FreePlaceList(s) EXCEPT !.place_list = s.selection_list])

\* o_copy_start with the copies N of the selection; it leaves the mode alone.
CopyStart(s, N) == IF s.selection_list = {} THEN s ELSE Place(s, s.mode, N)
-----------------------------------------------------------------------------
(* Moving the selection.                                                   *)

(* o_move_start: rubber-banding inserts new nets N of zero length between  *)
(* pins and stretches the nets S that end at the selection.                *)
MoveStart(s, N, S) ==
  IF s.stretch_list # {} \/ s.selection_list = {} THEN s
  ELSE ActionStart(
         [FreePlaceList([SetState(s, "MOVEMODE") EXCEPT
                           !.page = @ \cup N, !.live = @ \cup N, !.stretch_list = S,
                           !.recorded = @ /\ N = {}])
          EXCEPT !.place_list = s.selection_list])

Stretchable(s, N) == SUBSET ((s.page \cup N) \ s.selection_list)

\* Mutant: the nets that were stretched are not forgotten.
MoveEndStretched(s, Z) ==
  IF s.selection_list = {} THEN Rest(s)
  ELSE Rest([Changed(Delete(s, Z), {}, Z) EXCEPT !.place_list = {}])

\* o_move_end: stretched nets Z that now have no length are deleted.
MoveEnd(s, Z) ==
  IF s.selection_list = {} THEN Rest(s)
  ELSE Rest([Changed(Delete(s, Z), {}, Z) EXCEPT !.place_list = {}, !.stretch_list = {}])

\* Rotating or mirroring what is placed changes the page if it is on it.
PlaceTurn(s) == [s EXCEPT !.recorded = @ /\ s.place_list \cap s.page = {}]

\* o_rotate_world_update saves no undo state inside an action.
WorldTurn(s, rotate) ==
  IF s.selection_list = {} THEN Rest(s)
  ELSE [s EXCEPT !.recorded = IF rotate /\ s.inside_action THEN FALSE ELSE TRUE,
                 !.mode = IF @ = (IF rotate THEN "ROTATEMODE" ELSE "MIRRORMODE")
                            THEN "SELECT" ELSE @]

-----------------------------------------------------------------------------
(* Drawing.                                                                *)

\* Mutant: a path is begun with the one that is left, if any.
DrawStartPathless(s) == ActionStart(s)

\* The start of any drawing; only a path has a structure of its own.
DrawStart(s) ==
  ActionStart(IF s.mode = "PATHMODE" THEN [s EXCEPT !.temp_path = "empty"] ELSE s)

(* The click that ends a shape, which is added as N unless it has no size; *)
(* the size of a circle is checked before the action is stopped, an arc is *)
(* added by its dialog.  Nets and buses go on until they have no length.   *)
DrawEnd(s, N) ==
  LET drawn == IF N = {} THEN s ELSE Changed(s, N, {})
  IN  IF \/ s.mode = "CIRCLEMODE" /\ N = {}
         \/ s.mode = "BUSMODE"
         \/ s.mode = "NETMODE" /\ N # {}
        THEN drawn ELSE ActionStop(drawn)

\* A path is used, be it there or not: the program stops without one.
PathUsed(s) == [s EXCEPT !.failed = @ \/ s.temp_path = "NULL"]

\* o_path_end: N is the path if the node closes or ends it.
PathEnd(s, N) ==
  LET used == PathUsed(s)
  IN  IF N = {} \/ used.failed THEN [used EXCEPT !.temp_path = IF @ = "NULL" THEN @ ELSE "begun"]
      ELSE ActionStop([Changed(used, N, {}) EXCEPT !.temp_path = "NULL"])

-----------------------------------------------------------------------------
(* The left mouse button (x_event_button_pressed, _released, _motion).     *)

PressEnds ==
  /\ w.inside_action
  /\ IF w.place_list # {}
       THEN \/ /\ w.mode = "COMPMODE"
               /\ \E continue_placing \in BOOLEAN, N \in Copies(w, w.place_list) :
                    w' = PlaceEnd(w, continue_placing, FALSE, N)
            \/ /\ w.mode = "TEXTMODE"
               /\ w' = PlaceEnd(w, FALSE, FALSE, {})
            \/ /\ w.mode = "PASTEMODE"
               /\ w' = PlaceEnd(w, FALSE, TRUE, {})
       ELSE \/ /\ w.mode \in Shapes \cup {"NETMODE", "BUSMODE"}
               /\ \E N \in New(w) : (w.mode = "ARCMODE" => N = {}) /\ w' = DrawEnd(w, N)
            \/ /\ w.mode = "PATHMODE"
               /\ w' = PathUsed(w)                        \* o_path_continue
            \/ /\ w.mode = "OGNRSTMODE"
               /\ \E moved \in BOOLEAN : w' = Rest(IF moved THEN Changed(w, {}, {}) ELSE w)

PressStarts ==
  /\ ~w.inside_action
  /\ \/ w.mode \in Drawing /\ w' = DrawStart(w)
     \/ w.mode = "ZOOMBOX" /\ w' = ActionStart(w)
     \/ w.mode = "SELECT" /\ w' = ActionStart(w)
     \/ /\ w.mode = "SELECT"                              \* o_grips_start
        /\ \E o \in w.selection_list :
             w' = ActionStart([SetState(w, "GRIPS") EXCEPT !.which_object = o])
     \/ /\ w.mode \in {"COPYMODE", "MCOPYMODE"}
        /\ \E N \in Copies(w, w.selection_list) : w' = CopyStart(w, N)
     \/ /\ w.mode = "MOVEMODE"
        /\ \E N \in New(w) : \E S \in Stretchable(w, N) : w' = MoveStart(w, N, S)

\* Rotating, mirroring and panning do not ask whether an action is under way.
PressTurns ==
  \/ w.mode \in {"ROTATEMODE", "MIRRORMODE"} /\ w' = WorldTurn(w, w.mode = "ROTATEMODE")
  \/ w.mode = "PAN" /\ w' = SetState(w, "SELECT")

ReleasePlaces ==
  /\ w.inside_action /\ w.place_list # {}
  /\ \/ /\ w.mode = "COPYMODE"
        /\ w' = PlaceEnd(w, FALSE, TRUE, {})
     \/ /\ w.mode = "MCOPYMODE"
        /\ \E N \in Copies(w, w.place_list) : w' = PlaceEnd(w, TRUE, FALSE, N)
     \/ /\ w.mode = "MOVEMODE"
        /\ \E Z \in SUBSET w.stretch_list : w' = MoveEnd(w, Z)

\* o_grips_end; a net may get bus rippers N.
GripsEnd(s, N) ==
  IF s.which_object = NULL THEN Rest(s)
  ELSE Rest([Changed(s, N, {}) EXCEPT !.which_object = NULL])

ReleaseEnds ==
  /\ w.inside_action /\ w.place_list = {}
  /\ \/ w.mode = "GRIPS" /\ \E N \in New(w) : w' = GripsEnd(w, N)
     \/ /\ w.mode = "PATHMODE"
        /\ \E N \in New(w) :
             Cardinality(N) <= 1 /\ (N # {} => w.temp_path = "begun") /\ w' = PathEnd(w, N)
     \/ /\ w.mode \in {"SELECT", "SBOX"}
        /\ \E S \in SUBSET w.page : w' = Rest([w EXCEPT !.selection_list = S])
     \/ w.mode = "ZOOMBOX" /\ w' = Rest(w)

(* Moving the mouse with the button held: a box is drawn, or what is under *)
(* the pointer is selected and moved.                                      *)
Motion ==
  /\ w.inside_action /\ w.place_list = {}
  /\ \/ /\ w.mode = "SELECT"
        /\ \E S \in SUBSET w.page :
             LET hit == [w EXCEPT !.selection_list = S]
             IN  \/ \E m \in {"SELECT", "SBOX"} : w' = SetState(hit, m)
                 \/ \E N \in New(w) : \E T \in Stretchable(hit, N) : w' = MoveStart(hit, N, T)
     \/ w.mode = "PATHMODE" /\ w' = PathUsed(w)

-----------------------------------------------------------------------------
(* The other mouse buttons, as they are configured.                        *)

\* Middle button: turns what is placed, cancels, copies or moves.
MiddleButton ==
  \/ /\ w.inside_action /\ w.place_list # {} /\ w.mode \in Placing \cup {"MOVEMODE"}
     /\ w' = PlaceTurn(w)
  \/ w.inside_action /\ w.mode \notin Placing \cup {"MOVEMODE"} /\ w' = Cancelled(w)
  \/ /\ ~w.inside_action
     /\ \E S \in SUBSET w.page :
          LET hit == [w EXCEPT !.selection_list = S]
          IN  \/ S = {} /\ w' = Rest(hit)
              \/ \E N \in Copies(hit, S) : w' = CopyStart(SetState(hit, "COPYMODE"), N)
              \/ \E N \in New(hit) : \E T \in Stretchable(hit, N) : w' = MoveStart(hit, N, T)

(* Right button: o_path_end_path ends a path with at least two sections,   *)
(* the rubber of a shape is only erased.                                   *)
RightButton ==
  /\ w.inside_action
  /\ \/ w.mode = "NETMODE" /\ w' = ActionStop(w)
     \/ /\ w.mode = "PATHMODE"
        /\ \/ w' = ActionStop(PathUsed(w))
           \/ w.temp_path = "begun" /\ \E N \in New(w) : Cardinality(N) = 1 /\ w' = PathEnd(w, N)
     \/ w.mode \notin Drawing /\ w' = Cancelled(w)

\* Double click: o_edit opens a dialog for the selection.
DoubleClick == w.mode = "SELECT" /\ w' = ActionStop(w)
-----------------------------------------------------------------------------
(* Commands.                                                               *)

\* Given within an action, the command is an interrupt.
MayInterrupt(kind) == w.inside_action => kind \in Interrupts

\* o_undo_callback: the page is emptied and read again from an undo record.
Restored(s, N) ==
  LET emptied == FreePlaceList(Delete([s EXCEPT !.selection_list = {}], s.page))
  IN  [emptied EXCEPT !.page = N, !.live = @ \cup N, !.recorded = TRUE]

EditUndo ==
  IF w.inside_action THEN w' = Cancelled(w)
  ELSE \E N \in New(w) : w' = Restored(w, N)

EditRedo == MayInterrupt("redo") /\ \E N \in New(w) : w' = Restored(w, N)

\* Reverting replaces the page by a new one.
Revert ==
  \E N \in New(w) :
    w' = Restored(IF w.inside_action THEN Cancelled(w) ELSE w, N)

\* Mutant: a deleted object stays selected.
DeleteSelectedKeeping(s, D) == Delete([s EXCEPT !.page = @ \ D, !.recorded = TRUE], D)

\* o_delete_selected, for the objects D: locked ones may be left.
DeleteSelected(s, D) ==
  LET removed == [s EXCEPT !.page = @ \ D, !.selection_list = @ \ D]
      stopped == IF removed.inside_action /\ removed.mode = "MOVEMODE"
                   THEN SetState(MoveCancel(removed), "SELECT") ELSE removed
  IN  [Delete(stopped, D) EXCEPT !.recorded = TRUE]

ClipboardCut ==
  \E D \in SUBSET w.selection_list : D # {} /\ w' = DeleteSelected(Cleaned(w), D)
EditDelete ==
  \E D \in SUBSET w.selection_list : D # {} /\ w' = Rest(DeleteSelected(Cleaned(w), D))

(* o_buffer_paste_start cancels what is still under way; N is the clipboard*)
(* ("Empty clipboard" if there is nothing in it).  If none of its objects  *)
(* has bounds, they stay in the place list without an action: the command  *)
(* takes the clipboard for empty then, too (actions.c:798).                *)
ClipboardPaste ==
  LET cleaned == Cleaned(w)
      idle == IF cleaned.inside_action THEN Cancelled(cleaned) ELSE cleaned
  IN  \E N \in New(w) :
        \/ N = {} /\ w' = SetState(idle, "SELECT")
        \/ N # {} /\ w' = Place(idle, "PASTEMODE", N)
        \/ N # {} /\ w' = Rest(Place(idle, "PASTEMODE", N))

\* Selecting all, none, by a message and so on.
EditSelect == \E S \in SUBSET w.page : w' = Rest([Cleaned(w) EXCEPT !.selection_list = S])

Cancel == w' = Cancelled(w)

(* compselect_place: a component that is being placed is replaced, anything*)
(* else is ended; with no symbol, or one that cannot be loaded, N is empty.*)
CompselectPlace ==
  LET ended == IF w.mode = "COMPMODE" THEN FreePlaceList(w) ELSE Cleaned(w)
      placed(N) == Place(ended, "COMPMODE", N)
  IN  \E N \in New(w) : w' = IF N = {} THEN Rest(placed({})) ELSE placed(N)

\* Presenting the component selector or the dialogs for text and pictures.
AddComponent == w' = SetState(Cleaned(w), "SELECT")
AddText == w' = Rest(Cleaned(w))
AddPicture == w' = SetState(ActionStop(Cleaned(w)), "PICTUREMODE")

(* The text dialog stays open.  o_text_prepare_place frees the place list  *)
(* without ending the action.                                              *)
TextApply ==
  /\ w.mode \in Placing \/ MayInterrupt("text")
  /\ \E N \in New(w) : Cardinality(N) = 1 /\ w' = Place(w, "TEXTMODE", N)

\* The other commands for drawing start at once if the pointer is known.
AddShapeLike(m) ==
  \E known \in BOOLEAN :
    w' = LET draw == SetState(Cleaned(w), m)
         IN  IF known THEN DrawStart(draw) ELSE draw
AddNet ==
  \E known \in BOOLEAN :
    w' = LET net == SetState(Cleaned(w), "NETMODE")
         IN  IF known THEN DrawStart(ActionStop(net)) ELSE net
AddBus == AddShapeLike("BUSMODE")
AddShape == \E m \in Shapes \ {"PICTUREMODE"} : AddShapeLike(m)
AddPath ==
  /\ MayInterrupt("path") \/ w.mode \notin {"SELECT", "SBOX"}
  /\ w' = SetState(Cleaned(w), "PATHMODE")

EditCopy ==
  /\ w.selection_list # {}
  /\ \E m \in {"COPYMODE", "MCOPYMODE"} :
       LET cleaned == Cleaned(w)
       IN  \/ w' = SetState(cleaned, m)
           \/ \E N \in Copies(w, w.selection_list) : w' = SetState(CopyStart(cleaned, N), m)
EditMove ==
  /\ w.selection_list # {}
  /\ LET cleaned == Cleaned(w)
     IN  \/ w' = SetState(cleaned, "MOVEMODE")
         \/ \E N \in New(w) : \E S \in Stretchable(cleaned, N) :
              w' = SetState(MoveStart(cleaned, N, S), "MOVEMODE")

EditRotate ==
  IF w.inside_action /\ w.place_list # {} THEN w' = PlaceTurn(w)
  ELSE /\ MayInterrupt("rotate")
       /\ \E rotate \in BOOLEAN :
            \/ w' = SetState(w, IF rotate THEN "ROTATEMODE" ELSE "MIRRORMODE")
            \/ w.selection_list # {} /\ w' = WorldTurn(Cleaned(w), rotate)

\* o_update_component replaces objects D by N and saves no undo state.
EditUpdate ==
  /\ MayInterrupt("update")
  /\ \E D \in SUBSET w.selection_list : \E N \in Copies(w, D) :
       w' = [Delete(w, D) EXCEPT !.page = (@ \ D) \cup N, !.live = (@ \ D) \cup N,
                                 !.selection_list = (@ \ D) \cup N, !.recorded = D = {}]

\* Commands and dialogs that change objects, or add N, and save the state.
ChangeObjects == \E N \in New(w) : w' = Changed(w, N, {})

(* Saving a page, adding an attribute, choosing a slot, and copying or     *)
(* moving with nothing selected set the mode and leave the action as it is.*)
Save == MayInterrupt("save") /\ w' = SetState(w, "SELECT")

ViewZoomBox ==
  \E known \in BOOLEAN :
    w' = LET zoom == SetState(Cleaned(w), "ZOOMBOX")
         IN  IF known THEN ActionStart(zoom) ELSE zoom
ViewPan == w' = SetState(ActionStop(Cleaned(w)), "PAN")
PlaceOrigin == w' = ActionStart(SetState(Cleaned(w), "OGNRSTMODE"))

-----------------------------------------------------------------------------
Mouse ==
  \/ PressEnds \/ PressStarts \/ PressTurns
  \/ ReleasePlaces \/ ReleaseEnds \/ Motion
  \/ MiddleButton \/ RightButton \/ DoubleClick
Edit ==
  \/ EditUndo \/ EditRedo \/ ClipboardCut \/ ClipboardPaste \/ EditDelete \/ EditSelect
  \/ EditCopy \/ EditMove \/ EditRotate \/ EditUpdate \/ ChangeObjects
Add ==
  \/ CompselectPlace \/ AddComponent \/ AddText \/ TextApply \/ AddPicture
  \/ AddNet \/ AddBus \/ AddShape \/ AddPath
Other == Cancel \/ Revert \/ Save \/ ViewZoomBox \/ ViewPan \/ PlaceOrigin

Next == ~w.failed /\ (Mouse \/ Edit \/ Add \/ Other)

Spec == Init /\ [][Next]_w
-----------------------------------------------------------------------------
(* Properties.                                                             *)

TypeOK == w \in State /\ w.selection_list \subseteq w.page

(* No object is freed twice, and what the page, the selection, the place   *)
(* list, the stretch list and a grip in use refer to is not freed: the     *)
(* place list is freed by cancelling, starting and ending actions, and     *)
(* sometimes it holds objects of the page.                                 *)
Gripping == w.inside_action /\ w.mode = "GRIPS"
NothingFreedInUse ==
  /\ ~w.freed_twice
  /\ w.page \cup w.place_list \cup w.stretch_list \subseteq w.live
  /\ Gripping => w.which_object \in w.live

(* The place list refers to objects of the page only while they are moved, *)
(* and then it is the selection ("In MOVEMODE selection is equal to the    *)
(* place list"); in any other mode its objects are its own.                *)
PlaceListIsOwned ==
  w.place_list \cap w.page # {} =>
    w.inside_action /\ w.mode = "MOVEMODE" /\ w.place_list = w.selection_list

Moving(s) == s.inside_action /\ s.mode = "MOVEMODE"

(* An action that places or moves objects leaves none of them and no       *)
(* stretched nets behind, however it ends, so that the next one is not     *)
(* refused and does not act on old objects.  Objects stay in the place list*)
(* without an action only after pasting some that have no bounds           *)
(* (o_buffer.c:175), and as long as nothing is placed or moved.            *)
EndsCleanly ==
  [][~w'.inside_action =>
       /\ w'.stretch_list = {}
       /\ \/ w'.place_list = {}
          \/ ClipboardPaste
          \/ /\ w'.place_list = w.place_list
             /\ w.inside_action => w.mode \notin Placing \cup {"MOVEMODE"}]_w

(* "Without an action nothing waits to be placed": what EndsCleanly excepts*)
(* refutes it.                                                             *)
RestIsClean == ~w.inside_action => w.place_list = {} /\ w.stretch_list = {}

(* A path that is under construction exists, so that the assertion in      *)
(* o_path_end holds (o_path.c:456); the one way to get there without is to *)
(* ask for a path while something else is going on that is not ended by it,*)
(* such as selecting with the left button held.                            *)
Pathless(s) == s.failed \/ (s.inside_action /\ s.mode = "PATHMODE" /\ s.temp_path = "NULL")
PathsAreBegun == [][~Pathless(w) /\ Pathless(w') => AddPath /\ w.inside_action /\ w.mode \in Quiet]_w

(* A change of the page is in the undo history as soon as it is made,      *)
(* except during a move, by updating components ("Can't undo this") and by *)
(* turning something within an action, which another action has to record. *)
Turning == w.inside_action /\ (EditRotate \/ PressTurns \/ MiddleButton)
ChangesAreRecorded ==
  [][w.recorded /\ ~w'.recorded => Moving(w') \/ EditUpdate \/ Turning]_w

(* "If we're cancelling from a move action, re-wind the page contents back *)
(* to their state before we started" (i_cancel).                           *)
CancelRewinds ==
  [][w.inside_action /\ w.mode = "MOVEMODE" /\ ~w'.inside_action => w'.recorded]_w
=============================================================================
