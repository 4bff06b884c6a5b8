------------------------ MODULE GschemActionsProofs ------------------------
(***************************************************************************)
(* Proofs about GschemActions for any number of objects.                   *)
(*                                                                         *)
(* The first part is about steps only: a path is begun before it is used,  *)
(* and a change is recorded, whatever interrupts the actions.  The second  *)
(* is about the objects that the lists refer to.  Good is the inductive    *)
(* invariant: to the properties it adds when nets are stretched and what a *)
(* grip refers to.  It holds when actions are interrupted by asking for a  *)
(* path and by rotating, but not when they are by redo.  There is one lemma*)
(* for each operator on states, saying that it keeps Good and which fields *)
(* it sets, and then one step for each action.                             *)
(***************************************************************************)
EXTENDS GschemActions, TLAPS

-----------------------------------------------------------------------------
(* Paths and undo records, whatever interrupts an action.  Most steps are  *)
(* Plain: the path under construction stays as it is, a path is not what   *)
(* is drawn unless it was before, and what was recorded still is.          *)

Shaped(s) == s \in State /\ s.selection_list \subseteq s.page
OnPath(s) == s.inside_action /\ s.mode = "PATHMODE"

Steady(s, t) ==
  /\ Shaped(t) /\ t.failed = s.failed /\ t.temp_path = s.temp_path
  /\ OnPath(t) => OnPath(s)
Plain(s, t) == Steady(s, t) /\ (s.recorded => t.recorded)

LEMMA PlainSet ==
  ASSUME NEW s, Shaped(s), NEW m \in Modes, m # "PATHMODE"
  PROVE  Plain(s, SetState(s, m)) /\ SetState(s, m).mode = m
<1>1. SetState(s, m).mode = m
  BY DEF SetState, Shaped, State
<1> QED BY <1>1 DEF Plain, Steady, Shaped, OnPath, SetState, State

LEMMA PlainStop ==
  ASSUME NEW s, Shaped(s)
  PROVE  /\ Plain(s, ActionStop(s)) /\ ~ActionStop(s).inside_action
         /\ Plain(s, MoveCancel(s)) /\ ~MoveCancel(s).inside_action
         /\ Plain(s, GripsCancel(s))
         /\ s.mode # "PATHMODE" => Plain(s, ActionStart(s))
BY DEF Plain, Steady, Shaped, OnPath, ActionStart, ActionStop, MoveCancel, GripsCancel, State

LEMMA PlainRest ==
  ASSUME NEW s, Shaped(s)
  PROVE  Plain(s, Rest(s)) /\ ~Rest(s).inside_action
BY DEF Plain, Steady, Shaped, OnPath, Rest, ActionStop, SetState, State, Modes, Quiet

LEMMA PlainDelete ==
  ASSUME NEW s, Shaped(s), NEW S
  PROVE  /\ Plain(s, Delete(s, S)) /\ Plain(s, FreePlaceList(s))
         /\ Delete(s, S).page = s.page /\ Delete(s, S).selection_list = s.selection_list
         /\ FreePlaceList(s).inside_action = s.inside_action /\ FreePlaceList(s).page = s.page
         /\ FreePlaceList(s).selection_list = s.selection_list
<1>1. \A T : Plain(s, Delete(s, T)) /\ Delete(s, T).inside_action = s.inside_action
             /\ Delete(s, T).page = s.page /\ Delete(s, T).selection_list = s.selection_list
             /\ Delete(s, T).mode = s.mode
  BY DEF Plain, Steady, Shaped, OnPath, Delete, State
<1> DEFINE d == Delete(s, s.place_list)
<1>2. /\ Plain(s, d) /\ d.inside_action = s.inside_action /\ d.mode = s.mode
      /\ d.page = s.page /\ d.selection_list = s.selection_list
  BY <1>1
<1> HIDE DEF d
<1>3. FreePlaceList(s) = [d EXCEPT !.place_list = {}]
  BY DEF FreePlaceList, d
<1> QED BY <1>1, <1>2, <1>3 DEF Plain, Steady, Shaped, OnPath, State

LEMMA PlainSelect ==
  ASSUME NEW s, Shaped(s), NEW S \in SUBSET s.page
  PROVE  Plain(s, [s EXCEPT !.selection_list = S])
BY DEF Plain, Steady, Shaped, OnPath, State

LEMMA PlainChanged ==
  ASSUME NEW s, Shaped(s), NEW N \in SUBSET Objects, NEW D \in SUBSET Objects
  PROVE  Plain(s, Changed(s, N, D)) /\ Changed(s, N, D).page = (s.page \cup N) \ D
BY DEF Plain, Steady, Shaped, OnPath, State, Changed

LEMMA PlainCancelled ==
  ASSUME NEW s, Shaped(s)
  PROVE  Plain(s, Cancelled(s)) /\ Cancelled(s).mode = "SELECT"
<1> DEFINE freed == FreePlaceList(s)
           selector == IF s.mode = "COMPMODE" THEN Rest(freed) ELSE s
           stopped == IF selector.inside_action THEN MoveCancel(selector) ELSE selector
           released == IF stopped.mode = "GRIPS" THEN GripsCancel(stopped) ELSE stopped
           bare == FreePlaceList(released)
<1>1. Cancelled(s) = SetState(bare, "SELECT")
  BY DEF Cancelled
<1>2. Plain(s, freed)
  BY PlainDelete
<1> HIDE DEF freed
<1>3. Plain(s, selector)
  BY <1>2, PlainRest DEF Plain, Steady
<1> HIDE DEF selector
<1>4. Plain(s, stopped)
  BY <1>3, PlainStop DEF Plain, Steady
<1> HIDE DEF stopped
<1>5. Plain(s, released)
  BY <1>4, PlainStop DEF Plain, Steady
<1> HIDE DEF released
<1>6. Plain(s, bare)
  BY <1>5, PlainDelete DEF Plain, Steady
<1> HIDE DEF bare
<1>7. "SELECT" \in Modes
  BY DEF Modes, Quiet
<1>8. Plain(bare, SetState(bare, "SELECT"))
  BY <1>6, <1>7, PlainSet DEF Plain, Steady
<1>9. SetState(bare, "SELECT").mode = "SELECT"
  BY <1>6 DEF SetState, Plain, Steady, Shaped, State
<1> QED BY <1>1, <1>6, <1>8, <1>9 DEF Plain, Steady

LEMMA PlainCleaned ==
  ASSUME NEW s, Shaped(s)
  PROVE  /\ Plain(s, Cleaned(s)) /\ Cleaned(s).page = s.page
         /\ Cleaned(s).selection_list = s.selection_list
         /\ Cleaned(s).inside_action => s.inside_action /\ s.mode \in Quiet
         /\ ~s.inside_action => Cleaned(s) = s
<1> DEFINE stopped == IF s.mode = "MOVEMODE" THEN MoveCancel(s) ELSE s
           released == IF s.mode = "GRIPS" THEN GripsCancel(stopped) ELSE stopped
           bare == FreePlaceList(released)
<1>1. CASE ~s.inside_action \/ s.mode \in Quiet
  BY <1>1 DEF Cleaned, Plain, Steady
<1>2. CASE s.inside_action /\ s.mode \notin Quiet
  <2>1. Cleaned(s) = Rest(bare)
    BY <1>2 DEF Cleaned
  <2>2. Plain(s, stopped) /\ stopped.page = s.page /\ stopped.selection_list = s.selection_list
    <3>1. Plain(s, stopped)
      BY PlainStop DEF Plain, Steady
    <3>2. stopped.page = s.page /\ stopped.selection_list = s.selection_list
      BY SMTT(30) DEF MoveCancel, ActionStop, Shaped, State
    <3> QED BY <3>1, <3>2
  <2> HIDE DEF stopped
  <2>3. Plain(s, released) /\ released.page = s.page /\ released.selection_list = s.selection_list
    BY <2>2, PlainStop DEF Plain, Steady, GripsCancel, Shaped, State
  <2> HIDE DEF released
  <2>4. Plain(s, bare) /\ bare.page = s.page /\ bare.selection_list = s.selection_list
    BY <2>3, PlainDelete DEF Plain, Steady
  <2> HIDE DEF bare
  <2>5. Plain(bare, Rest(bare)) /\ ~Rest(bare).inside_action
    BY <2>4, PlainRest DEF Plain, Steady
  <2>6. Rest(bare).page = bare.page /\ Rest(bare).selection_list = bare.selection_list
    BY <2>4 DEF Rest, ActionStop, SetState, Plain, Steady, Shaped, State
  <2> QED BY <1>2, <2>1, <2>4, <2>5, <2>6 DEF Plain, Steady
<1> QED BY <1>1, <1>2

LEMMA PlainPlaceEnd ==
  ASSUME NEW s, Shaped(s), NEW c \in BOOLEAN, NEW sel \in BOOLEAN, NEW N \in SUBSET Objects
  PROVE  Plain(s, PlaceEnd(s, c, sel, N))
<1> DEFINE placed == IF c THEN N ELSE s.place_list
           changed == Changed(s, placed, {})
           chosen == IF sel THEN placed ELSE changed.selection_list
           added == [changed EXCEPT !.selection_list = chosen]
<1>1. placed \in SUBSET Objects
  BY DEF Shaped, State
<1>2. PlaceEnd(s, c, sel, N) = IF c THEN added ELSE Rest([added EXCEPT !.place_list = {}])
  BY DEF PlaceEnd, Changed, Shaped, State
<1> HIDE DEF placed
<1>3. Plain(s, changed) /\ changed.page = s.page \cup placed
  BY <1>1, PlainChanged
<1>4. chosen \in SUBSET changed.page
  BY <1>3 DEF Plain, Steady, Shaped
<1> HIDE DEF changed, chosen
<1>5. Plain(s, added)
  BY <1>3, <1>4, PlainSelect DEF Plain, Steady
<1> HIDE DEF added
<1> DEFINE bare == [added EXCEPT !.place_list = {}]
<1>6. Plain(s, bare)
  BY <1>5 DEF Plain, Steady, Shaped, OnPath, State
<1> HIDE DEF bare
<1>7. Plain(bare, Rest(bare))
  BY <1>6, PlainRest DEF Plain, Steady
<1> QED BY <1>2, <1>5, <1>6, <1>7 DEF Plain, Steady, bare

LEMMA PlainPlace ==
  ASSUME NEW s, Shaped(s), NEW m \in Modes, m # "PATHMODE", NEW N \in SUBSET Objects
  PROVE  Plain(s, Place(s, m, N))
<1> DEFINE f == FreePlaceList(s)
<1>1. Plain(s, f)
  BY PlainDelete
<1> HIDE DEF f
<1>2. Place(s, m, N) = ActionStart([SetState(f, m) EXCEPT !.place_list = N, !.live = @ \cup N])
  BY DEF Place, f
<1> DEFINE t == Place(s, m, N)
<1>3. /\ t \in State /\ t.mode = m /\ t.page = f.page /\ t.selection_list = f.selection_list
      /\ t.failed = f.failed /\ t.temp_path = f.temp_path /\ t.recorded = f.recorded
  <2> DEFINE d == SetState(f, m)
             e == [d EXCEPT !.place_list = N, !.live = @ \cup N]
  <2>1. /\ d \in State /\ d.mode = m /\ d.page = f.page /\ d.selection_list = f.selection_list
        /\ d.failed = f.failed /\ d.temp_path = f.temp_path /\ d.recorded = f.recorded
    BY <1>1 DEF Plain, Steady, Shaped, SetState, State
  <2> HIDE DEF d
  <2>2. /\ e \in State /\ e.mode = m /\ e.page = f.page /\ e.selection_list = f.selection_list
        /\ e.failed = f.failed /\ e.temp_path = f.temp_path /\ e.recorded = f.recorded
    BY <2>1 DEF State
  <2>3. t = ActionStart(e)
    BY <1>2 DEF d
  <2> HIDE DEF e, t
  <2> QED BY <2>2, <2>3 DEF ActionStart, State
<1> HIDE DEF t
<1>4. Plain(s, t)
  BY <1>1, <1>3 DEF Plain, Steady, Shaped, OnPath
<1> QED BY <1>4 DEF t

LEMMA PlainCopyStart ==
  ASSUME NEW s, Shaped(s), s.mode # "PATHMODE", NEW N \in SUBSET Objects
  PROVE  Plain(s, CopyStart(s, N))
<1>1. s.mode \in Modes
  BY DEF Shaped, State
<1>2. CASE s.selection_list = {}
  BY <1>2 DEF CopyStart, Plain, Steady
<1>3. CASE s.selection_list # {}
  BY <1>1, <1>3, PlainPlace DEF CopyStart
<1> QED BY <1>2, <1>3

(* A move may leave a change without a record, but then it is under way.   *)
LEMMA SteadyMoveStart ==
  ASSUME NEW s, Shaped(s), NEW N \in SUBSET Objects, NEW S \in SUBSET Objects
  PROVE  /\ Steady(s, MoveStart(s, N, S))
         /\ s.recorded => MoveStart(s, N, S).recorded \/ Moving(MoveStart(s, N, S))
<1> DEFINE q == [SetState(s, "MOVEMODE") EXCEPT
                   !.page = @ \cup N, !.live = @ \cup N, !.stretch_list = S,
                   !.recorded = @ /\ N = {}]
           f == FreePlaceList(q)
           t == ActionStart([f EXCEPT !.place_list = s.selection_list])
<1>1. CASE s.stretch_list # {} \/ s.selection_list = {}
  BY <1>1 DEF MoveStart, Steady
<1>2. CASE ~(s.stretch_list # {} \/ s.selection_list = {})
  <2>1. MoveStart(s, N, S) = t
    BY <1>2 DEF MoveStart
  <2>2. Shaped(q) /\ q.failed = s.failed /\ q.temp_path = s.temp_path /\ q.mode = "MOVEMODE"
    BY ZenonT(40) DEF SetState, Shaped, State, Modes
  <2> HIDE DEF q
  <2>3. Plain(q, f) /\ f.mode = q.mode
    BY <2>2, PlainDelete DEF FreePlaceList, Delete, Shaped, State
  <2> HIDE DEF f
  <2>4. s.selection_list \in SUBSET Objects
    BY DEF Shaped, State
  <2>5. /\ Shaped(t) /\ t.failed = s.failed /\ t.temp_path = s.temp_path
        /\ t.mode = "MOVEMODE" /\ t.inside_action
    BY <2>2, <2>3, <2>4 DEF Plain, Steady, Shaped, State, ActionStart
  <2> HIDE DEF t
  <2> QED BY <2>1, <2>5 DEF Steady, OnPath, Moving
<1> QED BY <1>1, <1>2

LEMMA PlainMoveEnd ==
  ASSUME NEW s, Shaped(s), NEW Z \in SUBSET Objects
  PROVE  Plain(s, MoveEnd(s, Z))
<1>1. CASE s.selection_list = {}
  BY <1>1, PlainRest DEF MoveEnd
<1>2. CASE s.selection_list # {}
  <2> DEFINE d == Delete(s, Z)
             c == Changed(d, {}, Z)
             b == [c EXCEPT !.place_list = {}, !.stretch_list = {}]
  <2>1. MoveEnd(s, Z) = Rest(b)
    BY <1>2 DEF MoveEnd
  <2>2. Plain(s, d)
    BY PlainDelete
  <2> HIDE DEF d
  <2>3. Plain(d, c)
    BY <2>2, PlainChanged DEF Plain, Steady
  <2> HIDE DEF c
  <2>4. Plain(s, b)
    BY <2>2, <2>3 DEF Plain, Steady, Shaped, OnPath, State
  <2> HIDE DEF b
  <2>5. Plain(b, Rest(b))
    BY <2>4, PlainRest DEF Plain, Steady
  <2> QED BY <2>1, <2>4, <2>5 DEF Plain, Steady
<1> QED BY <1>1, <1>2

LEMMA SteadyTurn ==
  ASSUME NEW s, Shaped(s), NEW rotate \in BOOLEAN
  PROVE  /\ Steady(s, PlaceTurn(s)) /\ Steady(s, WorldTurn(s, rotate))
         /\ ~s.inside_action => Plain(s, WorldTurn(s, rotate))
<1>1. Steady(s, PlaceTurn(s))
  BY DEF Steady, Shaped, OnPath, PlaceTurn, State
<1>2. CASE s.selection_list = {}
  BY <1>1, <1>2, PlainRest DEF WorldTurn, Plain
<1>3. CASE s.selection_list # {}
  <2> DEFINE left == IF s.mode = (IF rotate THEN "ROTATEMODE" ELSE "MIRRORMODE")
                       THEN "SELECT" ELSE s.mode
             known == IF rotate /\ s.inside_action THEN FALSE ELSE TRUE
  <2>1. WorldTurn(s, rotate) = [s EXCEPT !.recorded = known, !.mode = left]
    BY <1>3 DEF WorldTurn, Shaped, State
  <2>2. left \in Modes /\ (left = "PATHMODE" => s.mode = "PATHMODE") /\ known \in BOOLEAN
        /\ (~s.inside_action => known)
    BY DEF Shaped, State, Modes, Quiet
  <2> HIDE DEF left, known
  <2> DEFINE t == [s EXCEPT !.recorded = known, !.mode = left]
  <2>3. /\ t \in State /\ t.page = s.page /\ t.selection_list = s.selection_list
        /\ t.failed = s.failed /\ t.temp_path = s.temp_path /\ t.inside_action = s.inside_action
        /\ t.mode = left /\ t.recorded = known
    BY <2>2 DEF Shaped, State
  <2> HIDE DEF t
  <2>4. Steady(s, t) /\ (~s.inside_action => Plain(s, t))
    BY <2>2, <2>3 DEF Plain, Steady, Shaped, OnPath
  <2> QED BY <1>1, <2>1, <2>4 DEF t
<1> QED BY <1>2, <1>3

(* The drawing of a path has one; other drawings have no part in it.       *)
LEMMA PlainDraw ==
  ASSUME NEW s, Shaped(s), NEW N \in SUBSET Objects
  PROVE  /\ s.mode # "PATHMODE" => Plain(s, DrawStart(s))
         /\ Shaped(DrawStart(s)) /\ (s.recorded => DrawStart(s).recorded)
         /\ ~s.failed => ~Pathless(DrawStart(s)) \/ s.mode # "PATHMODE"
         /\ Plain(s, DrawEnd(s, N))
<1>1. /\ s.mode = "PATHMODE" => Shaped(DrawStart(s)) /\ (s.recorded => DrawStart(s).recorded)
      /\ s.mode = "PATHMODE" /\ ~s.failed => ~Pathless(DrawStart(s))
  <2> SUFFICES ASSUME s.mode = "PATHMODE"
               PROVE  /\ Shaped(DrawStart(s)) /\ (s.recorded => DrawStart(s).recorded)
                      /\ ~s.failed => ~Pathless(DrawStart(s))
    OBVIOUS
  <2> DEFINE t == DrawStart(s)
  <2>1. /\ t \in State /\ t.page = s.page /\ t.selection_list = s.selection_list
        /\ t.recorded = s.recorded /\ t.failed = s.failed /\ t.temp_path = "empty"
    BY DEF DrawStart, ActionStart, Shaped, State
  <2> QED BY <2>1 DEF Shaped, Pathless
<1>2. /\ s.mode # "PATHMODE" => Plain(s, DrawStart(s))
      /\ s.mode # "PATHMODE" => Shaped(DrawStart(s)) /\ (s.recorded => DrawStart(s).recorded)
  <2> SUFFICES ASSUME s.mode # "PATHMODE" PROVE Plain(s, DrawStart(s))
    BY DEF Plain, Steady
  <2>1. DrawStart(s) = ActionStart(s)
    BY DEF DrawStart
  <2> QED BY <2>1, PlainStop
<1>3. Plain(s, DrawEnd(s, N))
  <2> DEFINE drawn == IF N = {} THEN s ELSE Changed(s, N, {})
  <2>1. Plain(s, drawn)
    <3>1. Plain(s, Changed(s, N, {}))
      BY PlainChanged
    <3>2. Plain(s, s)
      BY DEF Plain, Steady
    <3> QED BY <3>1, <3>2
  <2>2. DrawEnd(s, N) \in {drawn, ActionStop(drawn)}
    BY DEF DrawEnd
  <2> HIDE DEF drawn
  <2>3. Plain(drawn, ActionStop(drawn))
    BY <2>1, PlainStop DEF Plain, Steady
  <2> QED BY <2>1, <2>2, <2>3 DEF Plain, Steady
<1> QED BY <1>1, <1>2, <1>3

LEMMA PathKept ==
  ASSUME NEW s, Shaped(s), NEW N \in SUBSET Objects
  PROVE  /\ Shaped(PathUsed(s)) /\ (s.recorded => PathUsed(s).recorded)
         /\ OnPath(s) /\ ~Pathless(s) => PathUsed(s) = s
         /\ Shaped(PathEnd(s, N)) /\ (s.recorded => PathEnd(s, N).recorded)
         /\ OnPath(s) /\ ~Pathless(s) => ~Pathless(PathEnd(s, N))
<1> DEFINE used == PathUsed(s)
<1>1. Shaped(used) /\ (s.recorded => used.recorded)
  BY DEF PathUsed, Shaped, State
<1>2. OnPath(s) /\ ~Pathless(s) => used = s
  BY DEF PathUsed, Shaped, State, OnPath, Pathless
<1> HIDE DEF used
<1>3. CASE N = {} \/ used.failed
  <2>1. PathEnd(s, N) = [used EXCEPT !.temp_path = IF used.temp_path = "NULL" THEN "NULL" ELSE "begun"]
    BY <1>1, <1>3 DEF PathEnd, used, Shaped, State
  <2> QED BY <1>1, <1>2, <2>1 DEF Shaped, State, OnPath, Pathless, used
<1>4. CASE N # {} /\ ~used.failed
  <2> DEFINE c == Changed(used, N, {})
  <2>1. PathEnd(s, N) = ActionStop([c EXCEPT !.temp_path = "NULL"])
    BY <1>4 DEF PathEnd, used
  <2>2. Plain(used, c)
    BY <1>1, PlainChanged
  <2> HIDE DEF c
  <2> QED BY <1>1, <1>2, <1>4, <2>1, <2>2 DEF Plain, Steady, Shaped, State, ActionStop, Pathless, used
<1> QED BY <1>1, <1>2, <1>3, <1>4 DEF used

LEMMA PlainGripsEnd ==
  ASSUME NEW s, Shaped(s), NEW N \in SUBSET Objects
  PROVE  Plain(s, GripsEnd(s, N))
<1>1. CASE s.which_object = NULL
  BY <1>1, PlainRest DEF GripsEnd
<1>2. CASE s.which_object # NULL
  <2> DEFINE c == Changed(s, N, {})
             b == [c EXCEPT !.which_object = NULL]
  <2>1. GripsEnd(s, N) = Rest(b)
    BY <1>2 DEF GripsEnd
  <2>2. Plain(s, c)
    BY PlainChanged
  <2> HIDE DEF c
  <2>3. Plain(s, b)
    BY <2>2 DEF Plain, Steady, Shaped, OnPath, State
  <2> HIDE DEF b
  <2>4. Plain(b, Rest(b))
    BY <2>3, PlainRest DEF Plain, Steady
  <2> QED BY <2>1, <2>3, <2>4 DEF Plain, Steady
<1> QED BY <1>1, <1>2

LEMMA PlainRestored ==
  ASSUME NEW s, Shaped(s), NEW N \in SUBSET Objects
  PROVE  Plain(s, Restored(s, N))
<1> DEFINE bare == [s EXCEPT !.selection_list = {}]
           deleted == Delete(bare, s.page)
           emptied == FreePlaceList(deleted)
<1>1. Restored(s, N) = [emptied EXCEPT !.page = N, !.live = @ \cup N, !.recorded = TRUE]
  BY DEF Restored
<1>2. Plain(s, bare) /\ bare.selection_list = {}
  BY PlainSelect DEF Shaped, State
<1> HIDE DEF bare
<1>3. Plain(s, deleted) /\ deleted.selection_list = {}
  BY <1>2, PlainDelete DEF Plain, Steady
<1> HIDE DEF deleted
<1>4. Plain(s, emptied) /\ emptied.selection_list = {}
  BY <1>3, PlainDelete DEF Plain, Steady
<1> HIDE DEF emptied
<1> DEFINE t == [emptied EXCEPT !.page = N, !.live = @ \cup N, !.recorded = TRUE]
<1>5. /\ t \in State /\ t.selection_list = {} /\ t.failed = emptied.failed
      /\ t.temp_path = emptied.temp_path /\ t.mode = emptied.mode
      /\ t.inside_action = emptied.inside_action /\ t.recorded
  BY <1>4 DEF Plain, Steady, Shaped, State
<1> HIDE DEF t
<1> QED BY <1>1, <1>4, <1>5 DEF Plain, Steady, Shaped, OnPath, t

LEMMA PlainDeleteSelected ==
  ASSUME NEW s, Shaped(s), NEW D \in SUBSET s.selection_list
  PROVE  Plain(s, DeleteSelected(s, D))
<1> DEFINE removed == [s EXCEPT !.page = @ \ D, !.selection_list = @ \ D]
           cancelled == MoveCancel(removed)
           stopped == IF removed.inside_action /\ removed.mode = "MOVEMODE"
                        THEN SetState(cancelled, "SELECT") ELSE removed
           deleted == Delete(stopped, D)
<1>1. DeleteSelected(s, D) = [deleted EXCEPT !.recorded = TRUE]
  BY DEF DeleteSelected
<1>2. Plain(s, removed)
  BY DEF Plain, Steady, Shaped, OnPath, State
<1> HIDE DEF removed
<1>3. Plain(s, cancelled)
  BY <1>2, PlainStop DEF Plain, Steady
<1> HIDE DEF cancelled
<1>4. "SELECT" \in Modes
  BY DEF Modes, Quiet
<1>5. Plain(cancelled, SetState(cancelled, "SELECT"))
  BY <1>3, <1>4, PlainSet DEF Plain, Steady
<1>6. Plain(s, stopped)
  BY <1>2, <1>3, <1>5 DEF Plain, Steady
<1> HIDE DEF stopped
<1>7. Plain(s, deleted)
  BY <1>6, PlainDelete DEF Plain, Steady
<1> HIDE DEF deleted
<1> QED BY <1>1, <1>7 DEF Plain, Steady, Shaped, OnPath, State

(* What every step does to the path and to the records.                    *)
Sound ==
  /\ Shaped(w')
  /\ ~Pathless(w) /\ Pathless(w') => AddPath /\ w.inside_action /\ w.mode \in Quiet
  /\ w.recorded /\ ~w'.recorded => Moving(w') \/ EditUpdate \/ Turning

LEMMA PlainIsSound ==
  ASSUME Shaped(w)
  PROVE  /\ Plain(w, w') => Sound
         /\ Steady(w, w') /\ (w.recorded /\ ~w'.recorded => Moving(w') \/ EditUpdate \/ Turning) => Sound
BY DEF Plain, Steady, Sound, Pathless, OnPath

LEMMA MouseSound ==
  ASSUME Shaped(w), Mouse
  PROVE  Sound
<1>1. /\ {"SELECT", "SBOX", "GRIPS", "COPYMODE"} \subseteq Modes
      /\ "PATHMODE" \notin Shapes \cup {"NETMODE", "BUSMODE"}
      /\ \A x : New(x) \subseteq SUBSET Objects
      /\ \A x, S : Copies(x, S) \subseteq SUBSET Objects
      /\ {} \in SUBSET Objects
  BY DEF Modes, Quiet, Placing, Shapes, New, Copies
<1>2. \A x : \A N \in SUBSET Objects : Shaped(x) => Stretchable(x, N) \subseteq SUBSET Objects
  BY DEF Stretchable, Shaped, State
<1>3. CASE PressEnds
  <2>1. CASE \E c \in BOOLEAN, sel \in BOOLEAN, N \in SUBSET Objects : w' = PlaceEnd(w, c, sel, N)
    BY <2>1, PlainPlaceEnd, PlainIsSound
  <2>2. CASE \E N \in SUBSET Objects : w' = DrawEnd(w, N)
    BY <2>2, PlainDraw, PlainIsSound
  <2>3. CASE OnPath(w) /\ w' = PathUsed(w)
    BY <2>3, PathKept DEF Sound
  <2>4. CASE \E moved \in BOOLEAN : w' = Rest(IF moved THEN Changed(w, {}, {}) ELSE w)
    <3>1. PICK moved \in BOOLEAN : w' = Rest(IF moved THEN Changed(w, {}, {}) ELSE w)
      BY <2>4
    <3> DEFINE c == IF moved THEN Changed(w, {}, {}) ELSE w
    <3>2. Plain(w, c)
      <4>1. Plain(w, Changed(w, {}, {}))
        BY <1>1, PlainChanged
      <4>2. Plain(w, w)
        BY DEF Plain, Steady
      <4> QED BY <4>1, <4>2
    <3> HIDE DEF c
    <3>3. w' = Rest(c) /\ Plain(c, Rest(c))
      BY <3>1, <3>2, PlainRest DEF c, Plain, Steady
    <3> QED BY <3>2, <3>3, PlainIsSound DEF Plain, Steady
  <2>5. PressEnds => \/ \E c \in BOOLEAN, sel \in BOOLEAN, N \in SUBSET Objects : w' = PlaceEnd(w, c, sel, N)
                     \/ \E N \in SUBSET Objects : w' = DrawEnd(w, N)
                     \/ OnPath(w) /\ w' = PathUsed(w)
                     \/ \E moved \in BOOLEAN : w' = Rest(IF moved THEN Changed(w, {}, {}) ELSE w)
    BY <1>1 DEF PressEnds, OnPath
  <2> QED BY <1>3, <2>1, <2>2, <2>3, <2>4, <2>5
<1>4. CASE PressStarts
  <2>1. CASE w.mode \in Drawing /\ w' = DrawStart(w)
    <3>1. CASE w.mode = "PATHMODE"
      BY <1>1, <2>1, <3>1, PlainDraw DEF Sound, Pathless
    <3>2. CASE w.mode # "PATHMODE"
      BY <1>1, <2>1, <3>2, PlainDraw, PlainIsSound
    <3> QED BY <3>1, <3>2
  <2>2. CASE w.mode \in {"ZOOMBOX", "SELECT"} /\ w' = ActionStart(w)
    BY <2>2, PlainStop, PlainIsSound
  <2>3. CASE \E o \in w.selection_list :
               w' = ActionStart([SetState(w, "GRIPS") EXCEPT !.which_object = o])
    <3>1. PICK o \in w.selection_list :
               w' = ActionStart([SetState(w, "GRIPS") EXCEPT !.which_object = o])
      BY <2>3
    <3>2. Plain(w, w')
      BY <1>1, <3>1 DEF Plain, Steady, Shaped, OnPath, ActionStart, SetState, State
    <3> QED BY <3>2, PlainIsSound
  <2>4. CASE w.mode \in {"COPYMODE", "MCOPYMODE"} /\ \E N \in SUBSET Objects : w' = CopyStart(w, N)
    BY <2>4, PlainCopyStart, PlainIsSound
  <2>5. CASE \E N \in SUBSET Objects, S \in SUBSET Objects : w' = MoveStart(w, N, S)
    BY <2>5, SteadyMoveStart, PlainIsSound
  <2>6. (\E N \in New(w) : \E S \in Stretchable(w, N) : w' = MoveStart(w, N, S)) =>
        \E N \in SUBSET Objects, S \in SUBSET Objects : w' = MoveStart(w, N, S)
    BY <1>1, <1>2
  <2> QED BY <1>1, <1>4, <2>1, <2>2, <2>3, <2>4, <2>5, <2>6 DEF PressStarts
<1>5. CASE PressTurns
  <2>1. CASE w' = WorldTurn(w, w.mode = "ROTATEMODE")
    <3>1. Steady(w, w') /\ (~w.inside_action => Plain(w, w'))
      BY <2>1, SteadyTurn
    <3> QED BY <1>5, <3>1, PlainIsSound DEF Turning, Plain
  <2>2. CASE w' = SetState(w, "SELECT")
    BY <1>1, <2>2, PlainSet, PlainIsSound
  <2> QED BY <1>5, <2>1, <2>2 DEF PressTurns
<1>6. CASE ReleasePlaces
  <2>1. CASE \E c \in BOOLEAN, sel \in BOOLEAN, N \in SUBSET Objects : w' = PlaceEnd(w, c, sel, N)
    BY <2>1, PlainPlaceEnd, PlainIsSound
  <2>2. CASE \E Z \in SUBSET w.stretch_list : w' = MoveEnd(w, Z)
    <3>1. w.stretch_list \in SUBSET Objects
      BY DEF Shaped, State
    <3> QED BY <2>2, <3>1, PlainMoveEnd, PlainIsSound
  <2> QED BY <1>1, <1>6, <2>1, <2>2 DEF ReleasePlaces
<1>7. CASE ReleaseEnds
  <2>1. CASE \E N \in New(w) : w' = GripsEnd(w, N)
    BY <1>1, <2>1, PlainGripsEnd, PlainIsSound
  <2>2. CASE OnPath(w) /\ \E N \in New(w) : w' = PathEnd(w, N)
    BY <1>1, <2>2, PathKept DEF Sound
  <2>3. CASE \E S \in SUBSET w.page : w' = Rest([w EXCEPT !.selection_list = S])
    <3>1. PICK S \in SUBSET w.page : w' = Rest([w EXCEPT !.selection_list = S])
      BY <2>3
    <3> DEFINE t == [w EXCEPT !.selection_list = S]
    <3>2. Plain(w, t)
      BY PlainSelect
    <3> HIDE DEF t
    <3>3. w' = Rest(t) /\ Plain(t, Rest(t))
      BY <3>1, <3>2, PlainRest DEF Plain, Steady, t
    <3> QED BY <3>2, <3>3, PlainIsSound DEF Plain, Steady
  <2>4. CASE w' = Rest(w)
    BY <2>4, PlainRest, PlainIsSound
  <2> QED BY <1>7, <2>1, <2>2, <2>3, <2>4 DEF ReleaseEnds, OnPath
<1>8. ASSUME NEW S \in SUBSET w.page, NEW hit, hit = [w EXCEPT !.selection_list = S]
      PROVE  /\ \A m \in {"SELECT", "SBOX"} : w' = SetState(hit, m) => Sound
             /\ w' = Rest(hit) => Sound
             /\ \A N \in New(hit) : w' = CopyStart(SetState(hit, "COPYMODE"), N) => Sound
             /\ \A N \in New(hit) : \A T \in Stretchable(hit, N) :
                  w' = MoveStart(hit, N, T) => Sound
  <2>1. Plain(w, hit)
    BY <1>8, PlainSelect
  <2>2. ASSUME NEW m \in {"SELECT", "SBOX"}, w' = SetState(hit, m) PROVE Sound
    <3>0. m \in Modes /\ m # "PATHMODE" /\ Shaped(hit)
      BY <1>1, <2>1 DEF Plain, Steady
    <3>1. Plain(hit, w')
      BY <2>2, <3>0, PlainSet
    <3> QED BY <2>1, <3>1, PlainIsSound DEF Plain, Steady
  <2>3. ASSUME w' = Rest(hit) PROVE Sound
    <3>1. Plain(hit, w')
      BY <2>1, <2>3, PlainRest DEF Plain, Steady
    <3> QED BY <2>1, <3>1, PlainIsSound DEF Plain, Steady
  <2>4. ASSUME NEW N \in New(hit), w' = CopyStart(SetState(hit, "COPYMODE"), N) PROVE Sound
    <3> DEFINE c == SetState(hit, "COPYMODE")
    <3>1. Plain(hit, c) /\ c.mode = "COPYMODE"
      BY <1>1, <2>1, PlainSet DEF Plain, Steady, SetState, Shaped, State
    <3> HIDE DEF c
    <3>2. w' = CopyStart(c, N)
      BY <2>4 DEF c
    <3>3. Plain(c, w')
      BY <1>1, <3>1, <3>2, PlainCopyStart DEF Plain, Steady
    <3> QED BY <2>1, <3>1, <3>3, PlainIsSound DEF Plain, Steady
  <2>5. ASSUME NEW N \in New(hit), NEW T \in Stretchable(hit, N), w' = MoveStart(hit, N, T) PROVE Sound
    <3>1. N \in SUBSET Objects /\ T \in SUBSET Objects /\ Shaped(hit)
      BY <1>1, <1>2, <2>1 DEF Plain, Steady
    <3>2. /\ Steady(hit, MoveStart(hit, N, T))
          /\ hit.recorded => MoveStart(hit, N, T).recorded \/ Moving(MoveStart(hit, N, T))
      BY <3>1, SteadyMoveStart
    <3> QED BY <2>1, <2>5, <3>2, PlainIsSound DEF Plain, Steady
  <2> QED BY <2>2, <2>3, <2>4, <2>5
<1>9. CASE Motion
  <2>1. CASE OnPath(w) /\ w' = PathUsed(w)
    BY <2>1, PathKept DEF Sound
  <2>2. CASE \E S \in SUBSET w.page :
               LET hit == [w EXCEPT !.selection_list = S]
               IN  \/ \E m \in {"SELECT", "SBOX"} : w' = SetState(hit, m)
                   \/ \E N \in New(w) : \E T \in Stretchable(hit, N) : w' = MoveStart(hit, N, T)
    <3>1. PICK S \in SUBSET w.page :
               LET hit == [w EXCEPT !.selection_list = S]
               IN  \/ \E m \in {"SELECT", "SBOX"} : w' = SetState(hit, m)
                   \/ \E N \in New(w) : \E T \in Stretchable(hit, N) : w' = MoveStart(hit, N, T)
      BY <2>2
    <3> DEFINE hit == [w EXCEPT !.selection_list = S]
    <3>2. New(hit) = New(w)
      BY DEF New, Held, Shaped, State
    <3> QED BY <1>8, <3>1, <3>2
  <2> QED BY <1>9, <2>1, <2>2 DEF Motion, OnPath
<1>10. CASE MiddleButton
  <2>1. CASE w.inside_action /\ w' = PlaceTurn(w)
    <3>1. Steady(w, w')
      BY <2>1, SteadyTurn
    <3> QED BY <1>10, <2>1, <3>1, PlainIsSound DEF Turning
  <2>2. CASE w' = Cancelled(w)
    BY <2>2, PlainCancelled, PlainIsSound
  <2>3. CASE \E S \in SUBSET w.page :
               LET hit == [w EXCEPT !.selection_list = S]
               IN  \/ S = {} /\ w' = Rest(hit)
                   \/ \E N \in Copies(hit, S) : w' = CopyStart(SetState(hit, "COPYMODE"), N)
                   \/ \E N \in New(hit) : \E T \in Stretchable(hit, N) : w' = MoveStart(hit, N, T)
    BY <1>8, <2>3 DEF Copies
  <2> QED BY <1>10, <2>1, <2>2, <2>3 DEF MiddleButton
<1>11. CASE RightButton
  <2>1. CASE w' = ActionStop(w)
    BY <2>1, PlainStop, PlainIsSound
  <2>2. CASE OnPath(w) /\ w' = ActionStop(PathUsed(w))
    <3> DEFINE used == PathUsed(w)
    <3>1. Shaped(used) /\ (w.recorded => used.recorded) /\ (~Pathless(w) => used = w)
      BY <2>2, PathKept
    <3> HIDE DEF used
    <3>2. Plain(used, ActionStop(used)) /\ w' = ActionStop(used)
      BY <2>2, <3>1, PlainStop DEF used
    <3> QED BY <3>1, <3>2 DEF Sound, Plain, Steady, Pathless, OnPath
  <2>3. CASE OnPath(w) /\ \E N \in New(w) : w' = PathEnd(w, N)
    BY <1>1, <2>3, PathKept DEF Sound
  <2>4. CASE w' = Cancelled(w)
    BY <2>4, PlainCancelled, PlainIsSound
  <2> QED BY <1>11, <2>1, <2>2, <2>3, <2>4 DEF RightButton, OnPath
<1>12. CASE DoubleClick
  BY <1>12, PlainStop, PlainIsSound DEF DoubleClick
<1> QED BY <1>3, <1>4, <1>5, <1>6, <1>7, <1>9, <1>10, <1>11, <1>12 DEF Mouse

LEMMA EditSound ==
  ASSUME Shaped(w), Edit
  PROVE  Sound
<1>1. /\ {"SELECT", "COPYMODE", "MCOPYMODE", "PASTEMODE", "MOVEMODE", "ROTATEMODE", "MIRRORMODE"}
           \subseteq Modes
      /\ \A x : New(x) \subseteq SUBSET Objects
      /\ \A x, S : Copies(x, S) \subseteq SUBSET Objects
      /\ {} \in SUBSET Objects
  BY DEF Modes, Quiet, Placing, New, Copies
<1> DEFINE c == Cleaned(w)
<1>2. /\ Plain(w, c) /\ c.page = w.page /\ c.selection_list = w.selection_list
      /\ ~w.inside_action => c = w
  BY PlainCleaned
<1> HIDE DEF c
<1>3. CASE w' = Cancelled(w)
  BY <1>3, PlainCancelled, PlainIsSound
<1>4. CASE \E N \in New(w) : w' = Restored(w, N)
  BY <1>1, <1>4, PlainRestored, PlainIsSound
<1>5. ASSUME NEW D \in SUBSET w.selection_list,
             w' = DeleteSelected(c, D) \/ w' = Rest(DeleteSelected(c, D))
      PROVE  Sound
  <2> DEFINE t == DeleteSelected(c, D)
  <2>1. Plain(c, t)
    BY <1>2, PlainDeleteSelected DEF Plain, Steady
  <2> HIDE DEF t
  <2>2. w' = t \/ w' = Rest(t)
    BY <1>5 DEF t
  <2>3. Plain(t, Rest(t))
    BY <2>1, PlainRest DEF Plain, Steady
  <2> QED BY <1>2, <2>1, <2>2, <2>3, PlainIsSound DEF Plain, Steady
<1>6. CASE ClipboardPaste
  <2> DEFINE idle == IF c.inside_action THEN Cancelled(c) ELSE c
  <2>1. PICK N \in New(w) : \/ w' = SetState(idle, "SELECT")
                            \/ w' = Place(idle, "PASTEMODE", N)
                            \/ w' = Rest(Place(idle, "PASTEMODE", N))
    BY <1>6 DEF ClipboardPaste, c
  <2>2. Plain(w, idle)
    <3>1. Plain(c, Cancelled(c))
      BY <1>2, PlainCancelled DEF Plain, Steady
    <3> QED BY <1>2, <3>1 DEF Plain, Steady
  <2> HIDE DEF idle
  <2> DEFINE t == Place(idle, "PASTEMODE", N)
  <2>3. Plain(idle, t)
    BY <1>1, <2>2, PlainPlace DEF Plain, Steady
  <2>4. Plain(idle, SetState(idle, "SELECT"))
    BY <1>1, <2>2, PlainSet DEF Plain, Steady
  <2> HIDE DEF t
  <2>5. Plain(t, Rest(t))
    BY <2>3, PlainRest DEF Plain, Steady
  <2>6. w' = SetState(idle, "SELECT") \/ w' = t \/ w' = Rest(t)
    BY <2>1 DEF t
  <2> QED BY <2>2, <2>3, <2>4, <2>5, <2>6, PlainIsSound DEF Plain, Steady
<1>7. CASE EditSelect
  <2>1. PICK S \in SUBSET w.page : w' = Rest([c EXCEPT !.selection_list = S])
    BY <1>7 DEF EditSelect, c
  <2> DEFINE t == [c EXCEPT !.selection_list = S]
  <2>2. Plain(c, t)
    BY <1>2, PlainSelect DEF Plain, Steady
  <2> HIDE DEF t
  <2>3. Plain(t, Rest(t)) /\ w' = Rest(t)
    BY <2>1, <2>2, PlainRest DEF Plain, Steady, t
  <2> QED BY <1>2, <2>2, <2>3, PlainIsSound DEF Plain, Steady
<1>8. CASE EditCopy
  <2>1. PICK m \in {"COPYMODE", "MCOPYMODE"} :
          \/ w' = SetState(c, m)
          \/ \E N \in Copies(w, w.selection_list) : w' = SetState(CopyStart(c, N), m)
    BY <1>8 DEF EditCopy, c
  <2>2. m \in Modes /\ m # "PATHMODE"
    BY <1>1
  <2>3. CASE w' = SetState(c, m)
    <3>1. Plain(c, SetState(c, m))
      BY <1>2, <2>2, PlainSet DEF Plain, Steady
    <3> QED BY <1>2, <2>3, <3>1, PlainIsSound DEF Plain, Steady
  <2>4. CASE \E N \in Copies(w, w.selection_list) : w' = SetState(CopyStart(c, N), m)
    <3>1. PICK N \in SUBSET Objects : w' = SetState(CopyStart(c, N), m)
      BY <1>1, <2>4
    <3> DEFINE t == CopyStart(c, N)
    <3>2. CASE c.mode # "PATHMODE"
      <4>1. Plain(c, t)
        BY <1>2, <3>2, PlainCopyStart DEF Plain, Steady
      <4> HIDE DEF t
      <4>2. Plain(t, SetState(t, m))
        BY <2>2, <4>1, PlainSet DEF Plain, Steady
      <4>3. w' = SetState(t, m)
        BY <3>1 DEF t
      <4> QED BY <1>2, <4>1, <4>2, <4>3, PlainIsSound DEF Plain, Steady
    <3>3. CASE c.mode = "PATHMODE"
      <4>1. CASE c.selection_list = {}
        BY <1>2, <4>1, <1>8 DEF EditCopy
      <4>2. CASE c.selection_list # {}
        <5> DEFINE f == FreePlaceList(c)
        <5>1. t = ActionStart([SetState(f, "PATHMODE") EXCEPT !.place_list = N, !.live = @ \cup N])
          BY <3>3, <4>2 DEF CopyStart, Place
        <5>2. Plain(c, f)
          BY <1>2, PlainDelete DEF Plain, Steady
        <5> HIDE DEF f
        <5>3. /\ t \in State /\ t.page = f.page /\ t.selection_list = f.selection_list
              /\ t.failed = f.failed /\ t.temp_path = f.temp_path /\ t.recorded = f.recorded
          <6> DEFINE d == SetState(f, "PATHMODE")
                     e == [d EXCEPT !.place_list = N, !.live = @ \cup N]
          <6>1. /\ d \in State /\ d.page = f.page /\ d.selection_list = f.selection_list
                /\ d.failed = f.failed /\ d.temp_path = f.temp_path /\ d.recorded = f.recorded
            BY <5>2 DEF Plain, Steady, Shaped, SetState, State, Modes, Drawing
          <6> HIDE DEF d
          <6>2. /\ e \in State /\ e.page = f.page /\ e.selection_list = f.selection_list
                /\ e.failed = f.failed /\ e.temp_path = f.temp_path /\ e.recorded = f.recorded
            BY <6>1 DEF State
          <6>3. t = ActionStart(e)
            BY <5>1 DEF d
          <6> HIDE DEF e, t
          <6> QED BY <6>2, <6>3 DEF ActionStart, State
        <5> HIDE DEF t
        <5>4. Shaped(t)
          BY <5>2, <5>3 DEF Plain, Steady, Shaped
        <5>5. Plain(t, SetState(t, m)) /\ SetState(t, m).mode = m
          BY <2>2, <5>4, PlainSet DEF SetState, Shaped, State
        <5>6. w' = SetState(t, m)
          BY <3>1 DEF t
        <5>7. Plain(w, w')
          BY <1>2, <2>2, <5>2, <5>3, <5>5, <5>6 DEF Plain, Steady, OnPath
        <5> QED BY <5>7, PlainIsSound
      <4> QED BY <4>1, <4>2
    <3> QED BY <3>2, <3>3
  <2> QED BY <2>1, <2>3, <2>4
<1>9. CASE EditMove
  <2>1. \/ w' = SetState(c, "MOVEMODE")
        \/ \E N \in New(w) : \E S \in Stretchable(c, N) : w' = SetState(MoveStart(c, N, S), "MOVEMODE")
    BY <1>9 DEF EditMove, c
  <2>2. Plain(c, SetState(c, "MOVEMODE"))
    BY <1>1, <1>2, PlainSet DEF Plain, Steady
  <2>3. CASE \E N \in New(w) : \E S \in Stretchable(c, N) : w' = SetState(MoveStart(c, N, S), "MOVEMODE")
    <3>1. PICK N \in New(w) : \E S \in Stretchable(c, N) : w' = SetState(MoveStart(c, N, S), "MOVEMODE")
      BY <2>3
    <3>2. PICK S \in Stretchable(c, N) : w' = SetState(MoveStart(c, N, S), "MOVEMODE")
      BY <3>1
    <3>3. N \in SUBSET Objects /\ S \in SUBSET Objects
      BY <1>1, <1>2 DEF Stretchable, Plain, Steady, Shaped, State
    <3> DEFINE t == MoveStart(c, N, S)
    <3>4. Steady(c, t) /\ (c.recorded => t.recorded \/ Moving(t))
      BY <1>2, <3>3, SteadyMoveStart DEF Plain, Steady
    <3> HIDE DEF t
    <3>5. Plain(t, SetState(t, "MOVEMODE"))
      BY <1>1, <3>4, PlainSet DEF Steady
    <3>6. SetState(t, "MOVEMODE").inside_action = t.inside_action /\ SetState(t, "MOVEMODE").mode = "MOVEMODE"
      BY <3>4 DEF SetState, Steady, Shaped, State
    <3>7. w' = SetState(t, "MOVEMODE")
      BY <3>2 DEF t
    <3>8. Steady(w, w') /\ (w.recorded => w'.recorded \/ Moving(w'))
      BY <1>2, <3>4, <3>5, <3>6, <3>7 DEF Plain, Steady, Moving
    <3> QED BY <3>8, PlainIsSound
  <2> QED BY <1>2, <2>1, <2>2, <2>3, PlainIsSound DEF Plain, Steady
<1>10. CASE EditRotate
  <2>1. CASE w.inside_action /\ w' = PlaceTurn(w)
    <3>1. Steady(w, w')
      BY <2>1, SteadyTurn
    <3> QED BY <1>10, <2>1, <3>1, PlainIsSound DEF Turning
  <2>2. CASE \E rotate \in BOOLEAN : w' = SetState(w, IF rotate THEN "ROTATEMODE" ELSE "MIRRORMODE")
    BY <1>1, <2>2, PlainSet, PlainIsSound
  <2>3. CASE \E rotate \in BOOLEAN : w' = WorldTurn(c, rotate)
    <3>1. PICK rotate \in BOOLEAN : w' = WorldTurn(c, rotate)
      BY <2>3
    <3>2. Steady(c, w') /\ (~c.inside_action => Plain(c, w'))
      BY <1>2, <3>1, SteadyTurn DEF Plain, Steady
    <3>3. Steady(w, w') /\ (~w.inside_action => Plain(w, w'))
      BY <1>2, <3>2 DEF Plain, Steady
    <3> QED BY <1>10, <3>3, PlainIsSound DEF Turning, Plain
  <2> QED BY <1>10, <2>1, <2>2, <2>3 DEF EditRotate, c
<1>11. CASE EditUpdate
  <2>1. PICK D \in SUBSET w.selection_list : \E N \in Copies(w, D) :
         w' = [Delete(w, D) EXCEPT !.page = (@ \ D) \cup N, !.live = (@ \ D) \cup N,
                                   !.selection_list = (@ \ D) \cup N, !.recorded = D = {}]
    BY <1>11 DEF EditUpdate
  <2> DEFINE d == Delete(w, D)
  <2>2. PICK N \in SUBSET Objects :
         w' = [d EXCEPT !.page = (@ \ D) \cup N, !.live = (@ \ D) \cup N,
                        !.selection_list = (@ \ D) \cup N, !.recorded = D = {}]
    BY <1>1, <2>1
  <2>3. Plain(w, d)
    BY PlainDelete
  <2> HIDE DEF d
  <2>4. /\ w' \in State /\ w'.page = (d.page \ D) \cup N
        /\ w'.selection_list = (d.selection_list \ D) \cup N /\ w'.failed = d.failed
        /\ w'.temp_path = d.temp_path /\ w'.mode = d.mode /\ w'.inside_action = d.inside_action
    BY <2>2, <2>3 DEF Plain, Steady, Shaped, State
  <2>5. Steady(w, w')
    BY <2>3, <2>4 DEF Plain, Steady, Shaped, OnPath
  <2> QED BY <1>11, <2>5, PlainIsSound
<1>12. CASE ChangeObjects
  <2>1. PICK N \in SUBSET Objects : w' = Changed(w, N, {})
    BY <1>1, <1>12 DEF ChangeObjects
  <2>2. Plain(w, Changed(w, N, {}))
    BY <1>1, PlainChanged
  <2> QED BY <2>1, <2>2, PlainIsSound
<1>13. CASE ClipboardCut \/ EditDelete
  BY <1>5, <1>13 DEF ClipboardCut, EditDelete, c
<1> QED BY <1>3, <1>4, <1>6, <1>7, <1>8, <1>9, <1>10, <1>11, <1>12, <1>13
        DEF Edit, EditUndo, EditRedo

LEMMA AddSound ==
  ASSUME Shaped(w), Add \/ Other
  PROVE  Sound
<1>1. /\ {"SELECT", "COMPMODE", "TEXTMODE", "PICTUREMODE", "NETMODE", "BUSMODE", "PATHMODE",
          "ZOOMBOX", "PAN", "OGNRSTMODE"} \cup Shapes \subseteq Modes
      /\ "PATHMODE" \notin Shapes
      /\ \A x : New(x) \subseteq SUBSET Objects
      /\ {} \in SUBSET Objects
  BY DEF Modes, Quiet, Placing, Drawing, Shapes, New
<1> DEFINE c == Cleaned(w)
<1>2. /\ Plain(w, c)
      /\ c.inside_action => w.inside_action /\ w.mode \in Quiet
  BY PlainCleaned
<1>3. CASE CompselectPlace
  <2> DEFINE ended == IF w.mode = "COMPMODE" THEN FreePlaceList(w) ELSE c
  <2>1. PICK N \in New(w) : w' = IF N = {} THEN Rest(Place(ended, "COMPMODE", {}))
                               ELSE Place(ended, "COMPMODE", N)
    BY <1>3 DEF CompselectPlace
  <2>2. Plain(w, ended)
    BY <1>2, PlainDelete
  <2> HIDE DEF c, ended
  <2>3. \A P \in SUBSET Objects : Plain(ended, Place(ended, "COMPMODE", P))
    BY <1>1, <2>2, PlainPlace DEF Plain, Steady
  <2> DEFINE t == Place(ended, "COMPMODE", {})
  <2>4. Plain(ended, t)
    BY <1>1, <2>3
  <2>5. \A P \in SUBSET Objects : Plain(w, Place(ended, "COMPMODE", P))
    BY <2>2, <2>3 DEF Plain, Steady
  <2>6. w' = Rest(t) \/ \E P \in SUBSET Objects : w' = Place(ended, "COMPMODE", P)
    BY <1>1, <2>1
  <2> HIDE DEF t
  <2>7. Plain(t, Rest(t))
    BY <2>4, PlainRest DEF Plain, Steady
  <2>8. Plain(w, Rest(t))
    BY <2>2, <2>4, <2>7 DEF Plain, Steady
  <2> QED BY <2>5, <2>6, <2>8, PlainIsSound
<1>4. CASE TextApply
  BY <1>1, <1>4, PlainPlace, PlainIsSound DEF TextApply
<1> HIDE DEF c
<1>5. \A m \in Modes : m # "PATHMODE" => Plain(w, SetState(c, m)) /\ SetState(c, m).mode = m
  BY <1>2, PlainSet DEF Plain, Steady
<1>6. Plain(w, ActionStop(c)) /\ Plain(w, Rest(c))
  BY <1>2, PlainStop, PlainRest DEF Plain, Steady
<1>7. \A m \in Modes : m # "PATHMODE" => Plain(w, SetState(ActionStop(c), m))
  BY <1>6, PlainSet DEF Plain, Steady
<1>8. ASSUME NEW m \in Modes, m # "PATHMODE"
      PROVE  /\ Plain(w, ActionStart(SetState(c, m))) /\ Plain(w, DrawStart(SetState(c, m)))
             /\ Plain(w, DrawStart(ActionStop(SetState(c, m))))
  <2> DEFINE t == SetState(c, m)
             d == ActionStop(t)
  <2>1. Plain(w, t) /\ t.mode = m
    BY <1>5, <1>8
  <2> HIDE DEF t
  <2>2. Plain(t, ActionStart(t)) /\ Plain(t, d) /\ d.mode = m
    BY <1>8, <2>1, PlainStop DEF Plain, Steady, ActionStop, Shaped, State
  <2> HIDE DEF d
  <2>3. Plain(t, DrawStart(t)) /\ Plain(d, DrawStart(d))
    BY <1>1, <1>8, <2>1, <2>2, PlainDraw DEF Plain, Steady
  <2>4. Plain(w, ActionStart(t)) /\ Plain(w, DrawStart(t)) /\ Plain(w, DrawStart(d))
    BY <2>1, <2>2, <2>3 DEF Plain, Steady
  <2> QED BY <2>4 DEF t, d
<1>9. CASE AddComponent \/ AddText \/ AddPicture
  BY <1>1, <1>5, <1>6, <1>7, <1>9, PlainIsSound DEF AddComponent, AddText, AddPicture, c
<1>10. CASE AddNet \/ AddBus \/ AddShape
  <2>1. PICK m \in {"NETMODE", "BUSMODE"} \cup Shapes :
          \/ w' = SetState(c, m) \/ w' = DrawStart(SetState(c, m))
          \/ w' = DrawStart(ActionStop(SetState(c, m)))
    BY <1>10 DEF AddNet, AddBus, AddShape, AddShapeLike, c
  <2>2. m \in Modes /\ m # "PATHMODE"
    BY <1>1
  <2> QED BY <1>5, <1>8, <2>1, <2>2, PlainIsSound
<1>11. CASE AddPath
  <2> DEFINE t == SetState(c, "PATHMODE")
  <2>1. /\ t \in State /\ t.page = c.page /\ t.selection_list = c.selection_list
        /\ t.failed = c.failed /\ t.temp_path = c.temp_path /\ t.recorded = c.recorded
        /\ t.inside_action = c.inside_action
    BY <1>1, <1>2 DEF SetState, Plain, Steady, Shaped, State
  <2>2. w' = t
    BY <1>11 DEF AddPath, c
  <2> HIDE DEF t
  <2> QED BY <1>2, <1>11, <2>1, <2>2 DEF Sound, Plain, Steady, Shaped, Pathless
<1>12. CASE Cancel
  BY <1>12, PlainCancelled, PlainIsSound DEF Cancel
<1>13. CASE Revert
  <2> DEFINE s == IF w.inside_action THEN Cancelled(w) ELSE w
  <2>1. PICK N \in New(w) : w' = Restored(s, N)
    BY <1>13 DEF Revert
  <2>2. Plain(w, s)
    <3>1. Plain(w, Cancelled(w))
      BY PlainCancelled
    <3> QED BY <3>1 DEF Plain, Steady
  <2> HIDE DEF s
  <2>3. Plain(s, w')
    BY <1>1, <2>1, <2>2, PlainRestored DEF Plain, Steady
  <2> QED BY <2>2, <2>3, PlainIsSound DEF Plain, Steady
<1>14. CASE Save
  BY <1>1, <1>14, PlainSet, PlainIsSound DEF Save
<1>15. CASE ViewZoomBox \/ ViewPan \/ PlaceOrigin
  BY <1>1, <1>5, <1>7, <1>8, <1>15, PlainIsSound DEF ViewZoomBox, ViewPan, PlaceOrigin, c
<1> QED BY <1>3, <1>4, <1>9, <1>10, <1>11, <1>12, <1>13, <1>14, <1>15 DEF Add, Other

LEMMA StepSound ==
  ASSUME Shaped(w), Next
  PROVE  Sound
BY MouseSound, EditSound, AddSound DEF Next

(* The state keeps its type, and the selection is part of the page.        *)
THEOREM StateTyped == Spec => []TypeOK
<1>1. Init => TypeOK
  <2> SUFFICES ASSUME Init PROVE TypeOK
    OBVIOUS
  <2>1. PICK P \in SUBSET Objects :
          w = [mode |-> "SELECT", inside_action |-> FALSE, page |-> P, selection_list |-> {},
               place_list |-> {}, stretch_list |-> {}, which_object |-> NULL,
               temp_path |-> "NULL", live |-> P,
               recorded |-> TRUE, freed_twice |-> FALSE, failed |-> FALSE]
    BY DEF Init
  <2>2. "SELECT" \in Modes
    BY DEF Modes, Quiet
  <2> QED BY <2>1, <2>2 DEF TypeOK, State
<1>2. TypeOK /\ [Next]_w => TypeOK'
  <2>1. ASSUME TypeOK, Next PROVE TypeOK'
    BY <2>1, StepSound DEF Sound, Shaped, TypeOK
  <2>2. ASSUME TypeOK, UNCHANGED w PROVE TypeOK'
    BY <2>2 DEF TypeOK
  <2> QED BY <2>1, <2>2
<1> QED BY <1>1, <1>2, PTL DEF Spec

(* A path under construction exists, whatever interrupts the actions, with *)
(* one exception: it is asked for while something else is going on that    *)
(* does not end.                                                           *)
THEOREM PathsExist == Spec => PathsAreBegun
<1>1. TypeOK /\ [Next]_w =>
        [~Pathless(w) /\ Pathless(w') => AddPath /\ w.inside_action /\ w.mode \in Quiet]_w
  BY StepSound DEF Sound, Shaped, TypeOK
<1> QED BY <1>1, StateTyped, PTL DEF Spec, PathsAreBegun

(* A change that undo does not know of is a move under way, an update of   *)
(* components or a turn within an action, whatever interrupts the actions. *)
THEOREM ChangesAreKept == Spec => ChangesAreRecorded
<1>1. TypeOK /\ [Next]_w => [w.recorded /\ ~w'.recorded => Moving(w') \/ EditUpdate \/ Turning]_w
  BY StepSound DEF Sound, Shaped, TypeOK
<1> QED BY <1>1, StateTyped, PTL DEF Spec, ChangesAreRecorded

-----------------------------------------------------------------------------
(* What the lists refer to.                                                *)

Unharmed(s) == ~s.freed_twice /\ s.page \cup s.place_list \cup s.stretch_list \subseteq s.live

Owned(s) == s.place_list \cap s.page # {} => Moving(s) /\ s.place_list = s.selection_list

Staged(s) ==
  /\ s.stretch_list # {} => Moving(s) /\ s.place_list = s.selection_list
  /\ Moving(s) => s.selection_list # {}
  /\ s.inside_action /\ s.mode = "GRIPS" => s.which_object \in s.page

Good(s) == Shaped(s) /\ Unharmed(s) /\ Owned(s) /\ Staged(s)

(* t has the place list of s, and that may be left when an action ends.    *)
Left(s, t) ==
  \/ t.place_list = {}
  \/ /\ t.place_list = s.place_list
     /\ s.inside_action => s.mode \notin Placing \cup {"MOVEMODE"}
Tidy(s, t) == ~t.inside_action => Left(s, t)

\* Unless something is moved, the place list is not on the page.
LEMMA Unmoved ==
  ASSUME NEW s, Good(s), ~Moving(s)
  PROVE  s.place_list \cap s.page = {} /\ s.stretch_list = {}
BY DEF Good, Owned, Staged

\* New objects are not in use.
LEMMA NewObjects ==
  ASSUME NEW s, NEW N \in New(s)
  PROVE  N \subseteq Objects /\ N \cap s.live = {}
BY DEF New

\* Freeing the place list is safe unless its objects are on the page.
LEMMA FreeGood ==
  ASSUME NEW s, Good(s), ~Moving(s)
  PROVE  LET t == FreePlaceList(s)
         IN  /\ Good(t) /\ t.place_list = {} /\ t.live \subseteq s.live
             /\ t.mode = s.mode /\ t.page = s.page /\ t.stretch_list = {}
             /\ t.selection_list = s.selection_list
             /\ t.inside_action = s.inside_action
<1> DEFINE t == FreePlaceList(s)
<1>1. /\ t \in State
      /\ t.place_list = {} /\ t.live = s.live \ s.place_list
      /\ t.freed_twice <=> (s.freed_twice \/ ~(s.place_list \subseteq s.live))
      /\ t.mode = s.mode /\ t.inside_action = s.inside_action /\ t.page = s.page
      /\ t.selection_list = s.selection_list /\ t.stretch_list = s.stretch_list
      /\ t.which_object = s.which_object
  BY DEF FreePlaceList, Delete, State, Good, Shaped
<1> HIDE DEF t
<1>2. s.stretch_list = {} /\ s.place_list \cap s.page = {}
  BY Unmoved
<1>3. Good(t)
  BY <1>1, <1>2 DEF Good, Shaped, Unharmed, Owned, Staged, Moving
<1> QED BY <1>1, <1>2, <1>3 DEF t

\* Cancelling a move forgets both lists and leaves the objects alone.
LEMMA MoveCancelGood ==
  ASSUME NEW s, Good(s)
  PROVE  LET t == MoveCancel(s)
         IN  /\ Good(t) /\ t.place_list = {} /\ t.live = s.live /\ ~t.inside_action
             /\ t.mode = s.mode /\ t.page = s.page
             /\ t.selection_list = s.selection_list
BY DEF Good, Shaped, Unharmed, Owned, Staged, Moving, MoveCancel, ActionStop, State

\* With nothing moved, the action may end, and the mode may be any.
LEMMA RestGood ==
  ASSUME NEW s, Good(s), ~Moving(s)
  PROVE  /\ Good(Rest(s)) /\ ~Rest(s).inside_action /\ Rest(s).mode = "SELECT"
         /\ Rest(s).page = s.page /\ Rest(s).live = s.live
         /\ Rest(s).place_list = s.place_list
         /\ Rest(s).selection_list = s.selection_list
BY Unmoved DEF Good, Shaped, Unharmed, Owned, Staged, Moving, Rest, ActionStop, SetState,
               State, Modes, Quiet

\* Without an action under way any mode may be set.
LEMMA SetStateGood ==
  ASSUME NEW s, Good(s), NEW m \in Modes, ~s.inside_action
  PROVE  /\ Good(SetState(s, m)) /\ ~SetState(s, m).inside_action
         /\ SetState(s, m).mode = m /\ SetState(s, m).live = s.live
         /\ SetState(s, m).selection_list = s.selection_list
         /\ SetState(s, m).page = s.page /\ SetState(s, m).place_list = s.place_list
BY DEF Good, Shaped, Unharmed, Owned, Staged, Moving, SetState, State

\* i_cancel ends whatever is under way.
LEMMA CancelledGood ==
  ASSUME NEW s, Good(s)
  PROVE  LET t == Cancelled(s)
         IN  /\ Good(t) /\ ~t.inside_action /\ t.mode = "SELECT" /\ t.place_list = {}
             /\ t.page = s.page /\ t.live \subseteq s.live
             /\ t.selection_list = s.selection_list
<1> DEFINE selector == IF s.mode = "COMPMODE" THEN Rest(FreePlaceList(s)) ELSE s
           stopped == IF selector.inside_action THEN MoveCancel(selector) ELSE selector
           released == IF stopped.mode = "GRIPS" THEN GripsCancel(stopped) ELSE stopped
<1>1. /\ Good(selector) /\ selector.page = s.page /\ selector.live \subseteq s.live
      /\ selector.selection_list = s.selection_list
  <2>1. CASE s.mode = "COMPMODE"
    <3> DEFINE f == FreePlaceList(s)
    <3>1. /\ Good(f) /\ ~Moving(f) /\ f.page = s.page /\ f.live \subseteq s.live
          /\ f.selection_list = s.selection_list
      BY <2>1, FreeGood DEF Moving
    <3> HIDE DEF f
    <3>2. /\ Good(Rest(f)) /\ Rest(f).page = s.page /\ Rest(f).live \subseteq s.live
          /\ Rest(f).selection_list = s.selection_list
      BY <3>1, RestGood
    <3> QED BY <2>1, <3>2 DEF f
  <2>2. CASE s.mode # "COMPMODE"
    BY <2>2
  <2> QED BY <2>1, <2>2
<1>2. /\ Good(stopped) /\ stopped.page = s.page /\ stopped.live \subseteq s.live
      /\ stopped.selection_list = s.selection_list
      /\ ~stopped.inside_action
  <2> HIDE DEF selector
  <2>1. CASE selector.inside_action
    BY <2>1, <1>1, MoveCancelGood
  <2>2. CASE ~selector.inside_action
    BY <2>2, <1>1
  <2> QED BY <2>1, <2>2
<1> HIDE DEF stopped
<1>3. /\ Good(released) /\ released.page = s.page /\ released.live \subseteq s.live
      /\ released.selection_list = s.selection_list
      /\ ~released.inside_action
  <2>1. CASE stopped.mode = "GRIPS"
    BY <2>1, <1>2 DEF GripsCancel, Good, Shaped, Unharmed, Owned, Staged, Moving, State
  <2>2. CASE stopped.mode # "GRIPS"
    BY <2>2, <1>2
  <2> QED BY <2>1, <2>2
<1>4. Cancelled(s) = SetState(FreePlaceList(released), "SELECT")
  BY DEF Cancelled, stopped
<1> HIDE DEF released
<1> DEFINE f == FreePlaceList(released)
<1>5. /\ Good(f) /\ ~f.inside_action /\ f.place_list = {} /\ f.page = s.page
      /\ f.live \subseteq s.live /\ f.selection_list = s.selection_list
  BY <1>3, FreeGood DEF Moving
<1> HIDE DEF f
<1>6. "SELECT" \in Modes
  BY DEF Modes, Quiet
<1> QED BY <1>4, <1>5, <1>6, SetStateGood DEF f

(* o_redraw_cleanstates ends the action, or leaves everything as it is.    *)
LEMMA CleanedGood ==
  ASSUME NEW s, Good(s)
  PROVE  LET t == Cleaned(s)
         IN  /\ Good(t) /\ ~Moving(t) /\ Left(s, t)
             /\ t.page = s.page /\ t.live \subseteq s.live
             /\ t.selection_list = s.selection_list
             /\ t.inside_action => s.inside_action /\ s.mode \in Quiet /\ t.mode = s.mode
<1>1. CASE ~s.inside_action \/ s.mode \in Quiet
  BY <1>1 DEF Cleaned, Moving, Left, Quiet, Placing
<1>2. CASE s.inside_action /\ s.mode \notin Quiet
  <2>1. CASE s.mode = "MOVEMODE"
    <3> DEFINE m == MoveCancel(s)
               f == FreePlaceList(m)
    <3>1. Cleaned(s) = Rest(f)
      BY <1>2, <2>1 DEF Cleaned, MoveCancel, ActionStop, Good, Shaped, State
    <3>2. /\ Good(m) /\ ~m.inside_action /\ m.page = s.page /\ m.live = s.live
          /\ m.selection_list = s.selection_list
      BY MoveCancelGood
    <3> HIDE DEF m
    <3>3. /\ Good(f) /\ ~f.inside_action /\ f.page = s.page /\ f.live \subseteq s.live
          /\ f.selection_list = s.selection_list /\ f.place_list = {}
      BY <3>2, FreeGood DEF Moving
    <3> HIDE DEF f
    <3> QED BY <3>1, <3>3, RestGood DEF Moving, Left
  <2>2. CASE s.mode = "GRIPS"
    <3>1. Cleaned(s) = Rest(FreePlaceList(GripsCancel(s)))
      BY <1>2, <2>2 DEF Cleaned
    <3>2. s.place_list \cap s.page = {} /\ s.stretch_list = {} /\ s.place_list \subseteq s.live
          /\ ~s.freed_twice
      BY <2>2, Unmoved DEF Moving, Good, Unharmed
    <3> DEFINE g == GripsCancel(s)
               f == FreePlaceList(g)
               t == Rest(f)
    <3>3. /\ g \in State /\ g.place_list = s.place_list /\ g.stretch_list = {} /\ g.live = s.live
          /\ g.page = s.page /\ g.selection_list = s.selection_list /\ ~g.freed_twice
      BY <3>2 DEF GripsCancel, Good, Shaped, State
    <3> HIDE DEF g
    <3>4. /\ f \in State /\ f.place_list = {} /\ f.stretch_list = {}
          /\ f.live = s.live \ s.place_list
          /\ f.page = s.page /\ f.selection_list = s.selection_list /\ ~f.freed_twice
      BY <3>2, <3>3 DEF FreePlaceList, Delete, State
    <3> HIDE DEF f
    <3>5. /\ t \in State /\ t.place_list = {} /\ t.stretch_list = {}
          /\ t.live = s.live \ s.place_list /\ ~t.inside_action
          /\ t.page = s.page /\ t.selection_list = s.selection_list /\ ~t.freed_twice
      BY <3>4 DEF Rest, ActionStop, SetState, State, Modes, Quiet
    <3> HIDE DEF t
    <3>6. Good(t)
      BY <3>2, <3>5 DEF Good, Shaped, Unharmed, Owned, Staged, Moving
    <3> QED BY <3>1, <3>5, <3>6 DEF t, f, g, Moving, Left
  <2>3. CASE s.mode \notin {"GRIPS", "MOVEMODE"}
    <3> DEFINE f == FreePlaceList(s)
    <3>1. Cleaned(s) = Rest(f)
      BY <1>2, <2>3 DEF Cleaned
    <3>2. /\ Good(f) /\ ~Moving(f) /\ f.page = s.page /\ f.live \subseteq s.live
          /\ f.selection_list = s.selection_list /\ f.place_list = {}
      BY <2>3, FreeGood DEF Moving
    <3> HIDE DEF f
    <3> QED BY <3>1, <3>2, RestGood DEF Moving, Left
  <2> QED BY <1>2, <2>1, <2>2, <2>3
<1> QED BY <1>1, <1>2

-----------------------------------------------------------------------------
\* While nothing is moved, the action may end.
LEMMA StopGood ==
  ASSUME NEW s, Good(s), ~Moving(s)
  PROVE  /\ Good(ActionStop(s)) /\ ~ActionStop(s).inside_action
         /\ ActionStop(s).mode = s.mode /\ ActionStop(s).live = s.live
         /\ ActionStop(s).page = s.page /\ ActionStop(s).place_list = s.place_list
         /\ ActionStop(s).selection_list = s.selection_list
BY Unmoved DEF Good, Shaped, Unharmed, Owned, Staged, Moving, ActionStop, State

\* The selection may be any objects of the page when nothing is moved.
LEMMA SelectGood ==
  ASSUME NEW s, Good(s), ~Moving(s), NEW S \in SUBSET s.page
  PROVE  LET t == [s EXCEPT !.selection_list = S]
         IN  /\ Good(t) /\ ~Moving(t) /\ t.place_list = s.place_list
             /\ t.mode = s.mode /\ t.inside_action = s.inside_action
             /\ t.page = s.page /\ t.live = s.live /\ t.selection_list = S
BY Unmoved DEF Good, Shaped, Unharmed, Owned, Staged, Moving, State

\* The fields after the page was changed by adding objects.
LEMMA ChangedFields ==
  ASSUME NEW s, Good(s), NEW N \in SUBSET Objects
  PROVE  LET t == Changed(s, N, {})
         IN  /\ t \in State
             /\ t.page = s.page \cup N /\ t.live = s.live \cup N
             /\ t.selection_list = s.selection_list /\ t.place_list = s.place_list
             /\ t.stretch_list = s.stretch_list /\ t.mode = s.mode
             /\ t.inside_action = s.inside_action /\ t.which_object = s.which_object
             /\ t.temp_path = s.temp_path /\ t.recorded = TRUE
             /\ t.freed_twice = s.freed_twice /\ t.failed = s.failed
BY DEF Changed, State, Good, Shaped

\* Adding new objects to the page.
LEMMA AddedGood ==
  ASSUME NEW s, Good(s), NEW N, N \subseteq Objects, N \cap s.live = {}
  PROVE  LET t == Changed(s, N, {})
         IN  /\ Good(t) /\ t.mode = s.mode /\ t.inside_action = s.inside_action
             /\ t.place_list = s.place_list
<1> DEFINE t == Changed(s, N, {})
<1>1. /\ t \in State
      /\ t.page = s.page \cup N /\ t.live = s.live \cup N
      /\ t.selection_list = s.selection_list /\ t.place_list = s.place_list
      /\ t.stretch_list = s.stretch_list /\ t.mode = s.mode
      /\ t.inside_action = s.inside_action /\ t.which_object = s.which_object
      /\ t.temp_path = s.temp_path /\ t.recorded = TRUE
      /\ t.freed_twice = s.freed_twice /\ t.failed = s.failed
  BY ChangedFields
<1> HIDE DEF t
<1>2. N \cap s.place_list = {}
  BY DEF Good, Unharmed
<1>3. Good(t)
  BY <1>1, <1>2 DEF Good, Shaped, Unharmed, Owned, Staged, Moving
<1> QED BY <1>1, <1>3 DEF t

\* o_place_end puts objects on the page that are not on it yet.
LEMMA PlaceEndGood ==
  ASSUME NEW s, Good(s), s.mode # "MOVEMODE", NEW N, N \subseteq Objects, N \cap s.live = {},
         s.inside_action, NEW c \in BOOLEAN, NEW sel \in BOOLEAN
  PROVE  Good(PlaceEnd(s, c, sel, N)) /\ Tidy(s, PlaceEnd(s, c, sel, N))
<1>1. s.place_list \cap s.page = {} /\ s.stretch_list = {} /\ N \cap s.place_list = {}
  BY Unmoved DEF Good, Unharmed, Moving
<1>2. CASE c
  <2> DEFINE t == PlaceEnd(s, c, sel, N)
  <2> DEFINE added == Changed(s, N, {})
  <2>1. t = [added EXCEPT !.selection_list = IF sel THEN N ELSE @]
    BY <1>2 DEF PlaceEnd
  <2>4. /\ added \in State
        /\ added.page = s.page \cup N /\ added.live = s.live \cup N
        /\ added.selection_list = s.selection_list /\ added.place_list = s.place_list
        /\ added.stretch_list = s.stretch_list /\ added.mode = s.mode
        /\ added.inside_action = s.inside_action /\ added.which_object = s.which_object
        /\ added.temp_path = s.temp_path /\ added.recorded = TRUE
        /\ added.freed_twice = s.freed_twice /\ added.failed = s.failed
    BY ChangedFields
  <2>5. s.selection_list \subseteq s.page
    BY DEF Good, Shaped
  <2> HIDE DEF added
  <2>2. /\ t \in State
        /\ t.page = s.page \cup N /\ t.live = s.live \cup N
        /\ t.selection_list \subseteq s.page \cup N /\ t.place_list = s.place_list
        /\ t.stretch_list = s.stretch_list /\ t.mode = s.mode
        /\ t.inside_action = s.inside_action /\ t.which_object = s.which_object
        /\ t.temp_path = s.temp_path /\ t.recorded = TRUE
        /\ t.freed_twice = s.freed_twice /\ t.failed = s.failed
    <3>1. CASE sel
      BY <3>1, <2>1, <2>4, <2>5, ZenonT(40) DEF State
    <3>2. CASE ~sel
      BY <3>2, <2>1, <2>4, <2>5 DEF State
    <3> QED BY <3>1, <3>2
  <2> HIDE DEF t
  <2>3. Good(t)
    BY <1>1, <2>2 DEF Good, Shaped, Unharmed, Owned, Staged, Moving
  <2> QED BY <2>2, <2>3 DEF t, Tidy
<1>3. CASE ~c
  <2> DEFINE t == PlaceEnd(s, c, sel, N)
  <2> DEFINE added == Changed(s, s.place_list, {})
             chosen == [added EXCEPT !.selection_list = IF sel THEN s.place_list ELSE @]
  <2>5. s.selection_list \subseteq s.page /\ s.place_list \in SUBSET Objects
    BY DEF Good, Shaped, State
  <2>1. t = Rest([chosen EXCEPT !.place_list = {}])
    BY <1>3 DEF PlaceEnd
  <2>4. /\ added \in State
        /\ added.page = s.page \cup s.place_list /\ added.live = s.live \cup s.place_list
        /\ added.selection_list = s.selection_list
        /\ added.stretch_list = s.stretch_list /\ added.recorded = TRUE
        /\ added.freed_twice = s.freed_twice /\ added.failed = s.failed
    <3>1. ASSUME NEW P \in SUBSET Objects, P = s.place_list
          PROVE  LET u == Changed(s, P, {})
                 IN  /\ u \in State /\ u.page = s.page \cup P /\ u.live = s.live \cup P
                     /\ u.selection_list = s.selection_list
                     /\ u.stretch_list = s.stretch_list /\ u.recorded = TRUE
                     /\ u.freed_twice = s.freed_twice /\ u.failed = s.failed
      BY <3>1, ChangedFields
    <3> QED BY <2>5, <3>1
  <2> HIDE DEF added
  <2>6. /\ chosen \in State
        /\ chosen.page = s.page \cup s.place_list /\ chosen.live = s.live \cup s.place_list
        /\ chosen.selection_list \subseteq s.page \cup s.place_list
        /\ chosen.stretch_list = s.stretch_list /\ chosen.recorded = TRUE
        /\ chosen.freed_twice = s.freed_twice /\ chosen.failed = s.failed
    <3>1. CASE sel
      BY <3>1, <2>4, <2>5 DEF State
    <3>2. CASE ~sel
      BY <3>2, <2>4, <2>5 DEF State
    <3> QED BY <3>1, <3>2
  <2> HIDE DEF chosen
  <2>2. /\ t \in State
        /\ t.page = s.page \cup s.place_list /\ t.live = s.live \cup s.place_list
        /\ t.selection_list \subseteq s.page \cup s.place_list /\ t.place_list = {}
        /\ t.stretch_list = s.stretch_list /\ t.mode = "SELECT"
        /\ t.inside_action = FALSE /\ t.recorded = TRUE
        /\ t.freed_twice = s.freed_twice /\ t.failed = s.failed
    BY <2>1, <2>6, ZenonT(40) DEF Rest, ActionStop, SetState, State, Modes, Quiet
  <2> HIDE DEF t
  <2>3. Good(t)
    BY <1>1, <2>2 DEF Good, Shaped, Unharmed, Owned, Staged, Moving
  <2> QED BY <2>2, <2>3 DEF t, Tidy, Left
<1> QED BY <1>2, <1>3

\* New objects are placed in a mode for it, which may be set afterwards.
LEMMA PlaceGood ==
  ASSUME NEW s, Good(s), ~Moving(s), NEW x \in Modes,
         NEW m \in Placing, NEW N, N \subseteq Objects, N \cap s.live = {}, N \cap s.page = {}
  PROVE  /\ Good(Place(s, m, N)) /\ Place(s, m, N).inside_action
         /\ ~Moving(Place(s, m, N)) /\ Place(s, m, N).place_list = N
         /\ Good(SetState(Place(s, x, N), m)) /\ SetState(Place(s, x, N), m).inside_action
<1>1. ASSUME NEW t \in {Place(s, m, N), SetState(Place(s, x, N), m)}
      PROVE  Good(t) /\ t.inside_action /\ ~Moving(t) /\ t.place_list = N
  <2>1. /\ t \in State
        /\ t.page = s.page /\ t.live = (s.live \ s.place_list) \cup N
        /\ t.selection_list = s.selection_list /\ t.place_list = N
        /\ t.stretch_list = s.stretch_list /\ t.mode = m /\ t.inside_action = TRUE
        /\ t.freed_twice <=> (s.freed_twice \/ ~(s.place_list \subseteq s.live))
    <3>1. CASE t = Place(s, m, N)
      BY <3>1, ZenonT(40) DEF Place, FreePlaceList, Delete, SetState, ActionStart, State, Good, Shaped, Modes
    <3>2. CASE t = SetState(Place(s, x, N), m)
      BY <3>2, ZenonT(40) DEF Place, FreePlaceList, Delete, SetState, ActionStart, State, Good, Shaped, Modes
    <3> QED BY <3>1, <3>2
  <2>2. s.place_list \cap s.page = {} /\ s.stretch_list = {}
    BY Unmoved
  <2>3. m \notin {"GRIPS", "MOVEMODE", "ROTATEMODE", "MIRRORMODE", "PAN", "PATHMODE"}
    BY DEF Placing
  <2> QED BY <2>1, <2>2, <2>3 DEF Good, Shaped, Unharmed, Owned, Staged, Moving
<1> QED BY <1>1

(* Copies are placed, unless nothing is selected.                          *)
LEMMA CopyStartGood ==
  ASSUME NEW s, Good(s), ~Moving(s), NEW m \in Placing,
         NEW N, N \subseteq Objects, N \cap s.live = {}, N \cap s.page = {},
         s.selection_list # {}
  PROVE  /\ Good(SetState(CopyStart(s, N), m)) /\ SetState(CopyStart(s, N), m).inside_action
         /\ s.mode = m => Good(CopyStart(s, N)) /\ CopyStart(s, N).inside_action
<1>1. CopyStart(s, N) = Place(s, s.mode, N)
  BY DEF CopyStart
<1>2. s.mode \in Modes
  BY DEF Good, Shaped, State
<1> QED BY <1>1, <1>2, PlaceGood

(* A move is staged with the selection on the place list.                  *)
LEMMA MoveStartGood ==
  ASSUME NEW s, Good(s), ~Moving(s), s.selection_list # {},
         NEW N, N \subseteq Objects, N \cap s.live = {},
         NEW S \in SUBSET ((s.page \cup N) \ s.selection_list)
  PROVE  /\ Good(MoveStart(s, N, S)) /\ MoveStart(s, N, S).inside_action
         /\ Good(SetState(MoveStart(s, N, S), "MOVEMODE"))
         /\ SetState(MoveStart(s, N, S), "MOVEMODE").inside_action
<1>0. /\ s.place_list \cap (s.page \cup N) = {} /\ s.stretch_list = {}
      /\ s.place_list \subseteq s.live /\ ~s.freed_twice
  BY Unmoved DEF Good, Unharmed
<1> DEFINE r == ActionStart([FreePlaceList([SetState(s, "MOVEMODE") EXCEPT
                           !.page = @ \cup N, !.live = @ \cup N, !.stretch_list = S,
                           !.recorded = @ /\ N = {}])
                       EXCEPT !.place_list = s.selection_list])
<1>1. MoveStart(s, N, S) = r
  BY <1>0 DEF MoveStart
<1>2. ASSUME NEW t \in {r, SetState(r, "MOVEMODE")}
      PROVE  Good(t) /\ t.inside_action
  <2> DEFINE q == [SetState(s, "MOVEMODE") EXCEPT
                           !.page = @ \cup N, !.live = @ \cup N, !.stretch_list = S,
                           !.recorded = @ /\ N = {}]
  <2>1. /\ q \in State
        /\ q.page = s.page \cup N /\ q.live = s.live \cup N
        /\ q.selection_list = s.selection_list /\ q.place_list = s.place_list
        /\ q.stretch_list = S /\ q.mode = "MOVEMODE"
        /\ q.freed_twice = s.freed_twice
    BY ZenonT(40) DEF SetState, State, Good, Shaped, Modes
  <2> DEFINE f == FreePlaceList(q)
  <2>2. r = ActionStart([f EXCEPT !.place_list = s.selection_list])
    OBVIOUS
  <2> HIDE DEF q
  <2>4. /\ f \in State
        /\ f.page = s.page \cup N /\ f.live = (s.live \cup N) \ s.place_list
        /\ f.selection_list = s.selection_list
        /\ f.stretch_list = S /\ f.mode = "MOVEMODE"
        /\ ~f.freed_twice
    BY <1>0, <2>1 DEF FreePlaceList, Delete, State
  <2>5. s.selection_list \subseteq Objects
    BY DEF Good, Shaped, State
  <2> HIDE DEF f, r
  <2>3. /\ t \in State
        /\ t.page = s.page \cup N /\ t.live = (s.live \cup N) \ s.place_list
        /\ t.selection_list = s.selection_list /\ t.place_list = s.selection_list
        /\ t.stretch_list = S /\ t.mode = "MOVEMODE" /\ t.inside_action = TRUE
        /\ ~t.freed_twice
    <3>1. CASE t = r
      BY <3>1, <2>2, <2>4, <2>5 DEF ActionStart, State
    <3>2. CASE t = SetState(r, "MOVEMODE")
      BY <3>2, <2>2, <2>4, <2>5 DEF ActionStart, SetState, State, Modes
    <3> QED BY <3>1, <3>2
  <2> QED BY <1>0, <2>3 DEF Good, Shaped, Unharmed, Owned, Staged, Moving
<1> QED BY <1>1, <1>2

(* Ending a move: stretched nets Z are deleted from the page.              *)
LEMMA MoveEndGood ==
  ASSUME NEW s, Good(s), s.inside_action, s.mode = "MOVEMODE", s.place_list # {},
         NEW Z \in SUBSET s.stretch_list
  PROVE  Good(MoveEnd(s, Z)) /\ MoveEnd(s, Z).place_list = {}
<1> DEFINE d == Delete(s, Z)
           c == Changed(d, {}, Z)
           t == MoveEnd(s, Z)
<1>1. s.selection_list # {} /\ Z \subseteq s.live
  BY DEF Good, Staged, Unharmed, Moving
<1>2. t = Rest([c EXCEPT !.place_list = {}, !.stretch_list = {}])
  BY <1>1 DEF MoveEnd
<1>3. /\ d \in State /\ d.live = s.live \ Z /\ d.page = s.page
      /\ d.freed_twice = FALSE /\ d.selection_list = s.selection_list
  BY <1>1 DEF Delete, State, Good, Shaped, Unharmed
<1> HIDE DEF d
<1>4. /\ c \in State /\ c.live = (s.live \ Z) \ Z /\ c.page = s.page \ Z
      /\ c.freed_twice = FALSE
      /\ c.selection_list = s.selection_list \ Z
  BY <1>3 DEF Changed, State
<1> HIDE DEF c, t
<1>5. /\ t \in State /\ t.live = s.live \ Z /\ t.page = s.page \ Z
      /\ t.freed_twice = FALSE
      /\ t.selection_list = s.selection_list \ Z
      /\ t.place_list = {} /\ t.stretch_list = {} /\ t.inside_action = FALSE
  BY <1>2, <1>4 DEF Rest, ActionStop, SetState, State, Modes, Quiet
<1>6. Good(t)
  BY <1>5 DEF Good, Shaped, Unharmed, Owned, Staged, Moving
<1> QED BY <1>5, <1>6 DEF t

(* Turning what is placed changes no list.                                 *)
LEMMA PlaceTurnGood ==
  ASSUME NEW s, Good(s), s.inside_action
  PROVE  Good(PlaceTurn(s)) /\ Tidy(s, PlaceTurn(s))
<1> DEFINE t == PlaceTurn(s)
<1>1. /\ t \in State /\ t.mode = s.mode /\ t.inside_action = s.inside_action
      /\ t.page = s.page /\ t.selection_list = s.selection_list
      /\ t.place_list = s.place_list /\ t.stretch_list = s.stretch_list
      /\ t.which_object = s.which_object /\ t.live = s.live
      /\ t.freed_twice = s.freed_twice
  BY DEF PlaceTurn, State, Good, Shaped
<1> HIDE DEF t
<1>2. Good(t)
  BY <1>1 DEF Good, Shaped, Unharmed, Owned, Staged, Moving
<1> QED BY <1>1, <1>2 DEF t, Tidy

(* Turning the selection on the page, also while something is selected.    *)
LEMMA WorldTurnGood ==
  ASSUME NEW s, Good(s), s.inside_action => s.mode \in Quiet, NEW rotate \in BOOLEAN
  PROVE  /\ Good(WorldTurn(s, rotate)) /\ WorldTurn(s, rotate).place_list = s.place_list
<1> DEFINE t == WorldTurn(s, rotate)
<1>1. CASE s.selection_list = {}
  <2>1. ~Moving(s)
    BY DEF Moving, Quiet
  <2>2. t = Rest(s)
    BY <1>1 DEF WorldTurn
  <2> QED BY <2>1, <2>2, RestGood
<1>2. CASE s.selection_list # {}
  <2> DEFINE turning == IF rotate THEN "ROTATEMODE" ELSE "MIRRORMODE"
             left == IF s.mode = turning THEN "SELECT" ELSE s.mode
             known == IF rotate /\ s.inside_action THEN FALSE ELSE TRUE
  <2>1. t = [s EXCEPT !.recorded = known, !.mode = left]
    BY <1>2 DEF WorldTurn, Good, Shaped, State
  <2>2. left \in Modes /\ known \in BOOLEAN /\ (s.inside_action => left \in Quiet)
    BY DEF Good, Shaped, State, Modes, Quiet
  <2> HIDE DEF left, known
  <2>3. /\ t \in State /\ t.mode = left /\ t.inside_action = s.inside_action
        /\ t.page = s.page /\ t.selection_list = s.selection_list
        /\ t.place_list = s.place_list /\ t.stretch_list = s.stretch_list
        /\ t.live = s.live /\ t.freed_twice = s.freed_twice
    BY <2>1, <2>2 DEF State, Good, Shaped
  <2>4. ~Moving(s) /\ ~Moving(t) /\ (t.inside_action => t.mode # "GRIPS")
    BY <2>2, <2>3 DEF Moving, Quiet
  <2> HIDE DEF t
  <2>5. Good(t)
    BY <2>3, <2>4, Unmoved DEF Good, Shaped, Unharmed, Owned, Staged
  <2> QED BY <2>3, <2>5 DEF t
<1> QED BY <1>1, <1>2

(* The start of a drawing, for which a path may be created.                *)
LEMMA DrawStartGood ==
  ASSUME NEW s, Good(s), s.mode \in Drawing
  PROVE  Good(DrawStart(s)) /\ DrawStart(s).inside_action
<1> DEFINE t == DrawStart(s)
<1>1. s.mode \notin {"GRIPS", "MOVEMODE"}
  BY DEF Drawing, Shapes
<1>2. /\ t \in State /\ t.mode = s.mode /\ t.inside_action = TRUE
      /\ t.page = s.page /\ t.selection_list = s.selection_list
      /\ t.place_list = s.place_list /\ t.stretch_list = s.stretch_list
      /\ t.live = s.live /\ t.freed_twice = s.freed_twice
  <2>1. CASE s.mode = "PATHMODE"
    BY <2>1 DEF DrawStart, ActionStart, State, Good, Shaped
  <2>2. CASE s.mode # "PATHMODE"
    BY <2>2 DEF DrawStart, ActionStart, State, Good, Shaped
  <2> QED BY <2>1, <2>2
<1> HIDE DEF t
<1>3. Good(t)
  BY <1>1, <1>2 DEF Good, Shaped, Unharmed, Owned, Staged, Moving
<1> QED BY <1>2, <1>3 DEF t

(* The end of a drawing, whose object N is added.                          *)
LEMMA DrawEndGood ==
  ASSUME NEW s, Good(s), ~Moving(s), NEW N, N \subseteq Objects, N \cap s.live = {}
  PROVE  Good(DrawEnd(s, N)) /\ DrawEnd(s, N).place_list = s.place_list
<1> DEFINE drawn == IF N = {} THEN s ELSE Changed(s, N, {})
<1>1. Good(drawn) /\ ~Moving(drawn) /\ drawn.place_list = s.place_list
  <2>1. CASE N = {}
    BY <2>1
  <2>2. CASE N # {}
    BY <2>2, AddedGood DEF Moving
  <2> QED BY <2>1, <2>2
<1>2. DrawEnd(s, N) \in {drawn, ActionStop(drawn)}
  BY DEF DrawEnd
<1> HIDE DEF drawn
<1> QED BY <1>1, <1>2, StopGood

(* A path is used, and sections are added to it, without a list changing.  *)
LEMMA PathUsedGood ==
  ASSUME NEW s, Good(s), NEW p \in {"NULL", "empty", "begun"}
  PROVE  /\ \A t \in {PathUsed(s), [PathUsed(s) EXCEPT !.temp_path = p]} :
              /\ Good(t) /\ t.mode = s.mode /\ t.inside_action = s.inside_action
              /\ t.live = s.live /\ t.place_list = s.place_list
         /\ PathUsed(s).temp_path = s.temp_path
<1> SUFFICES ASSUME NEW t \in {PathUsed(s), [PathUsed(s) EXCEPT !.temp_path = p]}
             PROVE  /\ Good(t) /\ t.mode = s.mode /\ t.inside_action = s.inside_action
                    /\ t.live = s.live /\ t.place_list = s.place_list
                    /\ PathUsed(s).temp_path = s.temp_path
  OBVIOUS
<1>1. /\ PathUsed(s).temp_path = s.temp_path
      /\ t \in State /\ t.mode = s.mode /\ t.inside_action = s.inside_action
      /\ t.page = s.page /\ t.selection_list = s.selection_list
      /\ t.place_list = s.place_list /\ t.stretch_list = s.stretch_list
      /\ t.which_object = s.which_object /\ t.live = s.live
      /\ t.freed_twice = s.freed_twice
  BY DEF PathUsed, State, Good, Shaped
<1> QED BY <1>1 DEF Good, Shaped, Unharmed, Owned, Staged, Moving

LEMMA PathEndGood ==
  ASSUME NEW s, Good(s), ~Moving(s), NEW N, N \subseteq Objects, N \cap s.live = {}
  PROVE  Good(PathEnd(s, N)) /\ PathEnd(s, N).place_list = s.place_list
<1> DEFINE used == PathUsed(s)
           p == IF used.temp_path = "NULL" THEN "NULL" ELSE "begun"
<1>1. /\ Good(used) /\ used.mode = s.mode /\ used.inside_action = s.inside_action
      /\ used.live = s.live /\ used.place_list = s.place_list
  BY PathUsedGood
<1>2. CASE N = {} \/ used.failed
  <2>1. PathEnd(s, N) = [used EXCEPT !.temp_path = p]
    BY <1>2, PathUsedGood DEF PathEnd, PathUsed
  <2>2. p \in {"NULL", "empty", "begun"}
    OBVIOUS
  <2> HIDE DEF p
  <2> QED BY <2>1, <2>2, PathUsedGood
<1>3. CASE N # {} /\ ~used.failed
  <2> DEFINE c == Changed(used, N, {})
             n == [c EXCEPT !.temp_path = "NULL"]
  <2>1. PathEnd(s, N) = ActionStop(n)
    BY <1>3 DEF PathEnd
  <2> HIDE DEF used
  <2>2. Good(c) /\ ~Moving(c) /\ c.place_list = s.place_list
    BY <1>1, AddedGood DEF Moving
  <2> HIDE DEF c
  <2>3. /\ n \in State /\ n.mode = c.mode /\ n.inside_action = c.inside_action
        /\ n.page = c.page /\ n.selection_list = c.selection_list
        /\ n.place_list = c.place_list /\ n.stretch_list = c.stretch_list
        /\ n.which_object = c.which_object /\ n.live = c.live
        /\ n.freed_twice = c.freed_twice
    BY <2>2 DEF State, Good, Shaped
  <2> HIDE DEF n
  <2>4. Good(n) /\ ~Moving(n)
    BY <2>2, <2>3 DEF Good, Shaped, Unharmed, Owned, Staged, Moving
  <2> QED BY <2>1, <2>2, <2>3, <2>4, StopGood
<1> QED BY <1>2, <1>3

(* A grip is let go, with bus rippers N.                                   *)
LEMMA GripsEndGood ==
  ASSUME NEW s, Good(s), ~Moving(s), s.place_list = {},
         NEW N, N \subseteq Objects, N \cap s.live = {}
  PROVE  Good(GripsEnd(s, N)) /\ GripsEnd(s, N).place_list = {}
<1>1. CASE s.which_object = NULL
  <2>1. GripsEnd(s, N) = Rest(s)
    BY <1>1 DEF GripsEnd
  <2> QED BY <2>1, RestGood
<1>2. CASE s.which_object # NULL
  <2> DEFINE c == Changed(s, N, {})
             t == Rest([c EXCEPT !.which_object = NULL])
  <2>1. GripsEnd(s, N) = t
    BY <1>2 DEF GripsEnd
  <2>2. Good(c) /\ ~Moving(c) /\ c.place_list = {}
    BY AddedGood DEF Moving
  <2>3. c.stretch_list = {}
    BY <2>2, Unmoved
  <2> HIDE DEF c
  <2>4. /\ t \in State /\ t.mode = "SELECT" /\ t.inside_action = FALSE
        /\ t.page = c.page /\ t.selection_list = c.selection_list
        /\ t.place_list = c.place_list /\ t.stretch_list = c.stretch_list
        /\ t.live = c.live /\ t.freed_twice = c.freed_twice
    BY <2>2 DEF Rest, ActionStop, SetState, State, Good, Shaped, Modes, Quiet
  <2> HIDE DEF t
  <2>5. Good(t)
    BY <2>2, <2>3, <2>4 DEF Good, Shaped, Unharmed, Owned, Staged, Moving
  <2> QED BY <2>1, <2>2, <2>4, <2>5
<1> QED BY <1>1, <1>2

(* The page is replaced by the objects N, when no action is under way.     *)
LEMMA RestoredGood ==
  ASSUME NEW s, Good(s), ~s.inside_action,
         NEW N, N \subseteq Objects, N \cap s.live = {}
  PROVE  Good(Restored(s, N)) /\ Restored(s, N).place_list = {}
<1> DEFINE bare == [s EXCEPT !.selection_list = {}]
           deleted == Delete(bare, s.page)
           emptied == FreePlaceList(deleted)
           t == Restored(s, N)
<1>1. /\ s.place_list \cap s.page = {} /\ s.stretch_list = {}
      /\ s.page \subseteq s.live /\ s.place_list \subseteq s.live
  BY Unmoved DEF Good, Unharmed, Moving
<1>2. t = [emptied EXCEPT !.page = N, !.live = @ \cup N, !.recorded = TRUE]
  BY DEF Restored
<1>3. /\ bare \in State /\ bare.selection_list = {} /\ bare.place_list = s.place_list
      /\ bare.stretch_list = {} /\ bare.inside_action = FALSE /\ bare.live = s.live
      /\ bare.freed_twice = FALSE
  BY <1>1 DEF State, Good, Shaped, Unharmed
<1> HIDE DEF bare
<1>4. /\ deleted \in State /\ deleted.selection_list = {}
      /\ deleted.place_list = s.place_list /\ deleted.live = s.live \ s.page
      /\ deleted.stretch_list = {} /\ deleted.inside_action = FALSE
      /\ deleted.freed_twice = FALSE
  BY <1>1, <1>3 DEF Delete, State
<1> HIDE DEF deleted
<1>5. /\ emptied \in State /\ emptied.selection_list = {} /\ emptied.place_list = {}
      /\ emptied.stretch_list = {} /\ emptied.inside_action = FALSE
      /\ emptied.freed_twice = FALSE
  BY <1>1, <1>4 DEF FreePlaceList, Delete, State
<1> HIDE DEF emptied, t
<1>6. /\ t \in State /\ t.selection_list = {} /\ t.place_list = {} /\ t.page = N
      /\ t.stretch_list = {} /\ t.inside_action = FALSE /\ N \subseteq t.live
      /\ t.freed_twice = FALSE
  BY <1>2, <1>5 DEF State
<1>7. Good(t)
  BY <1>6 DEF Good, Shaped, Unharmed, Owned, Staged, Moving
<1> QED BY <1>6, <1>7 DEF t

(* Selected objects D are deleted, after what was under way was cleaned.   *)
LEMMA DeleteSelectedGood ==
  ASSUME NEW s, Good(s), s.inside_action => s.mode \in Quiet, NEW D \in SUBSET s.selection_list
  PROVE  /\ Good(DeleteSelected(s, D)) /\ ~Moving(DeleteSelected(s, D))
         /\ DeleteSelected(s, D).place_list = s.place_list
         /\ DeleteSelected(s, D).inside_action = s.inside_action
<1> DEFINE removed == [s EXCEPT !.page = @ \ D, !.selection_list = @ \ D]
           deleted == Delete(removed, D)
           t == [deleted EXCEPT !.recorded = TRUE]
<1>1. /\ removed \in State /\ removed.page = s.page \ D
      /\ removed.selection_list = s.selection_list \ D /\ removed.place_list = s.place_list
      /\ removed.stretch_list = s.stretch_list /\ removed.inside_action = s.inside_action
      /\ removed.mode = s.mode /\ removed.live = s.live
      /\ removed.freed_twice = FALSE
  BY DEF State, Good, Shaped, Unharmed
<1>2. ~(removed.inside_action /\ removed.mode = "MOVEMODE") /\ ~Moving(s)
      /\ (s.inside_action => s.mode # "GRIPS")
  BY <1>1 DEF Quiet, Moving
<1>3. DeleteSelected(s, D) = t
  BY <1>2 DEF DeleteSelected
<1> HIDE DEF removed
<1>4. D \subseteq s.live /\ D \subseteq s.page
  BY DEF Good, Shaped, Unharmed
<1>5. /\ deleted \in State /\ deleted.page = s.page \ D
      /\ deleted.selection_list = s.selection_list \ D /\ deleted.place_list = s.place_list
      /\ deleted.stretch_list = s.stretch_list /\ deleted.inside_action = s.inside_action
      /\ deleted.mode = s.mode /\ deleted.live = s.live \ D
      /\ deleted.freed_twice = FALSE
  BY <1>1, <1>4 DEF Delete, State
<1> HIDE DEF deleted
<1>6. /\ t \in State /\ t.page = s.page \ D
      /\ t.selection_list = s.selection_list \ D /\ t.place_list = s.place_list
      /\ t.stretch_list = s.stretch_list /\ t.inside_action = s.inside_action
      /\ t.mode = s.mode /\ t.live = s.live \ D
      /\ t.freed_twice = FALSE
  BY <1>5 DEF State
<1> HIDE DEF t
<1>7. s.place_list \cap s.page = {} /\ s.stretch_list = {}
  BY <1>2, Unmoved
<1>8. Good(t) /\ ~Moving(t)
  BY <1>2, <1>4, <1>6, <1>7 DEF Good, Shaped, Unharmed, Owned, Staged, Moving
<1> QED BY <1>3, <1>6, <1>8

-----------------------------------------------------------------------------
(* The mouse.                                                              *)

LEMMA PressEndsGood ==
  ASSUME Good(w), PressEnds
  PROVE  Good(w') /\ Tidy(w, w')
<1> w.inside_action
  BY DEF PressEnds
<1>1. CASE w.place_list # {}
  <2>1. CASE w.mode = "COMPMODE"
    <3>1. PICK c \in BOOLEAN, N \in Copies(w, w.place_list) : w' = PlaceEnd(w, c, FALSE, N)
      BY <1>1, <2>1 DEF PressEnds
    <3>2. N \subseteq Objects /\ N \cap w.live = {}
      BY <3>1, NewObjects DEF Copies
    <3> QED BY <2>1, <3>1, <3>2, PlaceEndGood
  <2>2. CASE w.mode \in {"TEXTMODE", "PASTEMODE"}
    <3>1. PICK sel \in BOOLEAN : w' = PlaceEnd(w, FALSE, sel, {})
      BY <1>1, <2>2 DEF PressEnds
    <3> QED BY <2>2, <3>1, PlaceEndGood
  <2> QED BY <1>1, <2>1, <2>2 DEF PressEnds
<1>2. CASE w.place_list = {}
  <2>1. CASE w.mode \in Shapes \cup {"NETMODE", "BUSMODE"}
    <3>1. ~Moving(w)
      BY <2>1 DEF Shapes, Moving
    <3>2. PICK N \in New(w) : w' = DrawEnd(w, N)
      BY <1>2, <2>1 DEF PressEnds, Shapes
    <3> QED BY <1>2, <3>1, <3>2, NewObjects, DrawEndGood DEF Tidy, Left
  <2>2. CASE w.mode = "PATHMODE"
    <3>1. w' = PathUsed(w)
      BY <1>2, <2>2 DEF PressEnds, Shapes
    <3> QED BY <1>2, <3>1, PathUsedGood DEF Tidy, Left
  <2>3. CASE w.mode = "OGNRSTMODE"
    <3>1. PICK moved \in BOOLEAN : w' = Rest(IF moved THEN Changed(w, {}, {}) ELSE w)
      BY <1>2, <2>3 DEF PressEnds, Shapes
    <3> DEFINE c == IF moved THEN Changed(w, {}, {}) ELSE w
    <3>2. Good(c) /\ ~Moving(c) /\ c.place_list = {}
      BY <1>2, <2>3, AddedGood DEF Moving
    <3> HIDE DEF c
    <3>3. w' = Rest(c)
      BY <3>1 DEF c
    <3> QED BY <3>2, <3>3, RestGood DEF Tidy, Left
  <2> QED BY <1>2, <2>1, <2>2, <2>3 DEF PressEnds
<1> QED BY <1>1, <1>2

(* With nothing moved, most modes may be set at any time.                  *)
LEMMA ModeGood ==
  ASSUME NEW s, Good(s), ~Moving(s), NEW m \in Modes,
         s.inside_action => m # "GRIPS" /\ (m = "MOVEMODE" => s.selection_list # {})
  PROVE  LET t == SetState(s, m)
         IN  /\ Good(t) /\ t.mode = m /\ t.place_list = s.place_list
             /\ t.page = s.page /\ t.selection_list = s.selection_list /\ t.live = s.live
             /\ t.inside_action = s.inside_action
<1> DEFINE t == SetState(s, m)
<1>1. /\ t \in State /\ t.mode = m /\ t.inside_action = s.inside_action
      /\ t.page = s.page /\ t.selection_list = s.selection_list
      /\ t.place_list = s.place_list /\ t.stretch_list = s.stretch_list
      /\ t.live = s.live /\ t.freed_twice = s.freed_twice
  BY DEF SetState, State, Good, Shaped
<1> HIDE DEF t
<1>2. s.place_list \cap s.page = {} /\ s.stretch_list = {}
  BY Unmoved
<1>3. Good(t)
  BY <1>1, <1>2 DEF Good, Shaped, Unharmed, Owned, Staged, Moving
<1> QED BY <1>1, <1>3 DEF t

(* In most modes, an action may begin.                                     *)
LEMMA StartGood ==
  ASSUME NEW s, Good(s), ~Moving(s), s.mode \notin {"GRIPS", "MOVEMODE"}
  PROVE  Good(ActionStart(s)) /\ ActionStart(s).inside_action
<1> DEFINE t == ActionStart(s)
<1>1. /\ t \in State /\ t.mode = s.mode /\ t.inside_action = TRUE
      /\ t.page = s.page /\ t.selection_list = s.selection_list
      /\ t.place_list = s.place_list /\ t.stretch_list = s.stretch_list
      /\ t.live = s.live /\ t.freed_twice = s.freed_twice
  BY DEF ActionStart, State, Good, Shaped
<1> HIDE DEF t
<1>2. s.place_list \cap s.page = {} /\ s.stretch_list = {}
  BY Unmoved
<1>3. Good(t)
  BY <1>1, <1>2 DEF Good, Shaped, Unharmed, Owned, Staged, Moving
<1> QED BY <1>1, <1>3 DEF t

(* Gripping an object of the page.                                         *)
LEMMA GripsStartGood ==
  ASSUME NEW s, Good(s), ~Moving(s), NEW o \in Objects, o \in s.page
  PROVE  LET t == ActionStart([SetState(s, "GRIPS") EXCEPT !.which_object = o])
         IN  Good(t) /\ t.inside_action
<1> DEFINE t == ActionStart([SetState(s, "GRIPS") EXCEPT !.which_object = o])
<1>1. /\ t \in State /\ t.mode = "GRIPS" /\ t.which_object = o /\ t.inside_action = TRUE
      /\ t.page = s.page /\ t.selection_list = s.selection_list
      /\ t.place_list = s.place_list /\ t.stretch_list = s.stretch_list
      /\ t.live = s.live /\ t.freed_twice = s.freed_twice
  BY DEF ActionStart, SetState, State, Good, Shaped, Modes
<1> HIDE DEF t
<1>2. s.place_list \cap s.page = {} /\ s.stretch_list = {}
  BY Unmoved
<1>3. Good(t)
  BY <1>1, <1>2 DEF Good, Shaped, Unharmed, Owned, Staged, Moving
<1> QED BY <1>1, <1>3 DEF t

LEMMA PressStartsGood ==
  ASSUME Good(w), PressStarts
  PROVE  Good(w') /\ Tidy(w, w')
<1>1. ~w.inside_action /\ ~Moving(w)
  BY DEF PressStarts, Moving
<1>2. CASE w.mode \in Drawing /\ w' = DrawStart(w)
  BY <1>2, DrawStartGood DEF Tidy
<1>3. CASE w.mode \in {"ZOOMBOX", "SELECT"} /\ w' = ActionStart(w)
  BY <1>1, <1>3, StartGood DEF Tidy
<1>4. CASE \E o \in w.selection_list :
             w' = ActionStart([SetState(w, "GRIPS") EXCEPT !.which_object = o])
  <2>1. PICK o \in w.selection_list :
             w' = ActionStart([SetState(w, "GRIPS") EXCEPT !.which_object = o])
    BY <1>4
  <2>2. o \in w.page /\ o \in Objects
    BY DEF Good, Shaped, State
  <2> QED BY <1>1, <2>1, <2>2, GripsStartGood DEF Tidy
<1>5. CASE w.mode \in {"COPYMODE", "MCOPYMODE"}
           /\ \E N \in Copies(w, w.selection_list) : w' = CopyStart(w, N)
  <2>1. PICK N \in Copies(w, w.selection_list) : w' = CopyStart(w, N)
    BY <1>5
  <2>2. N \subseteq Objects /\ N \cap w.live = {} /\ N \cap w.page = {}
    BY NewObjects DEF Copies, Good, Unharmed
  <2>3. CASE w.selection_list = {}
    BY <1>1, <2>1, <2>3 DEF CopyStart, Tidy, Left
  <2>4. CASE w.selection_list # {}
    BY <1>1, <1>5, <2>1, <2>2, <2>4, CopyStartGood DEF Tidy, Placing
  <2> QED BY <2>3, <2>4
<1>6. CASE w.mode = "MOVEMODE"
           /\ \E N \in New(w) : \E S \in Stretchable(w, N) : w' = MoveStart(w, N, S)
  <2>4. PICK N \in New(w) : \E S \in Stretchable(w, N) : w' = MoveStart(w, N, S)
    BY <1>6
  <2>1. PICK S \in Stretchable(w, N) : w' = MoveStart(w, N, S)
    BY <2>4
  <2>2. CASE w.selection_list = {}
    BY <1>1, <2>1, <2>2 DEF MoveStart, Tidy, Left
  <2>3. CASE w.selection_list # {}
    BY <1>1, <2>1, <2>3, NewObjects, MoveStartGood DEF Tidy, Stretchable
  <2> QED BY <2>2, <2>3
<1> QED BY <1>1, <1>2, <1>3, <1>4, <1>5, <1>6 DEF PressStarts

LEMMA PressTurnsGood ==
  ASSUME Good(w), PressTurns
  PROVE  Good(w') /\ Tidy(w, w')
<1>1. w.mode \in Quiet /\ ~Moving(w) /\ w.mode \notin Placing \cup {"MOVEMODE"}
  BY DEF PressTurns, Quiet, Moving, Placing
<1>2. CASE w' = WorldTurn(w, w.mode = "ROTATEMODE")
  BY <1>1, <1>2, WorldTurnGood DEF Tidy, Left
<1>3. CASE w' = SetState(w, "SELECT")
  BY <1>1, <1>3, ModeGood DEF Tidy, Left, Modes, Quiet
<1> QED BY <1>2, <1>3 DEF PressTurns

LEMMA ReleasePlacesGood ==
  ASSUME Good(w), ReleasePlaces
  PROVE  Good(w') /\ Tidy(w, w')
<1>1. w.inside_action
  BY DEF ReleasePlaces
<1>2. CASE w.mode = "COPYMODE" /\ w' = PlaceEnd(w, FALSE, TRUE, {})
  BY <1>1, <1>2, PlaceEndGood
<1>3. CASE w.mode = "MCOPYMODE"
           /\ \E N \in Copies(w, w.place_list) : w' = PlaceEnd(w, TRUE, FALSE, N)
  <2>1. PICK N \in Copies(w, w.place_list) : w' = PlaceEnd(w, TRUE, FALSE, N)
    BY <1>3
  <2>2. N \subseteq Objects /\ N \cap w.live = {}
    BY NewObjects DEF Copies
  <2> QED BY <1>1, <1>3, <2>1, <2>2, PlaceEndGood
<1>4. CASE w.mode = "MOVEMODE" /\ \E Z \in SUBSET w.stretch_list : w' = MoveEnd(w, Z)
  <2>1. w.place_list # {}
    BY DEF ReleasePlaces
  <2> QED BY <1>1, <1>4, <2>1, MoveEndGood DEF Tidy, Left
<1> QED BY <1>2, <1>3, <1>4 DEF ReleasePlaces

LEMMA ReleaseEndsGood ==
  ASSUME Good(w), ReleaseEnds
  PROVE  Good(w') /\ Tidy(w, w')
<1>1. w.place_list = {} /\ ~Moving(w)
  BY DEF ReleaseEnds, Moving
<1>2. CASE \E N \in New(w) : w' = GripsEnd(w, N)
  BY <1>1, <1>2, NewObjects, GripsEndGood DEF Tidy, Left
<1>3. CASE \E N \in New(w) : w' = PathEnd(w, N)
  BY <1>1, <1>3, NewObjects, PathEndGood DEF Tidy, Left
<1>4. CASE \E S \in SUBSET w.page : w' = Rest([w EXCEPT !.selection_list = S])
  <2>1. PICK S \in SUBSET w.page : w' = Rest([w EXCEPT !.selection_list = S])
    BY <1>4
  <2> DEFINE t == [w EXCEPT !.selection_list = S]
  <2>2. Good(t) /\ ~Moving(t) /\ t.place_list = {}
    BY <1>1, SelectGood
  <2> HIDE DEF t
  <2>3. Good(Rest(t)) /\ Rest(t).place_list = {}
    BY <2>2, RestGood
  <2> QED BY <2>1, <2>3 DEF t, Tidy, Left
<1>5. CASE w' = Rest(w)
  BY <1>1, <1>5, RestGood DEF Tidy, Left
<1> QED BY <1>2, <1>3, <1>4, <1>5 DEF ReleaseEnds

(* Selecting what was hit and moving it.                                   *)
LEMMA MoveHitGood ==
  ASSUME NEW s, Good(s), ~Moving(s),
         NEW S \in SUBSET s.page, NEW hit, hit = [s EXCEPT !.selection_list = S],
         NEW N \in New(hit), NEW T \in Stretchable(hit, N)
  PROVE  LET t == MoveStart(hit, N, T)
         IN  /\ Good(t)
             /\ t.inside_action \/ (t.inside_action = s.inside_action /\ t.place_list = s.place_list)
<1>1. /\ Good(hit) /\ ~Moving(hit) /\ hit.place_list = s.place_list
      /\ hit.inside_action = s.inside_action
  <2>1. \A P \in SUBSET s.page :
          LET t == [s EXCEPT !.selection_list = P]
          IN  /\ Good(t) /\ ~Moving(t) /\ t.place_list = s.place_list
              /\ t.inside_action = s.inside_action
    BY SelectGood
  <2> QED BY <2>1
<1>2. CASE hit.selection_list = {}
  BY <1>1, <1>2 DEF MoveStart
<1>3. CASE hit.selection_list # {}
  BY <1>1, <1>3, NewObjects, MoveStartGood DEF Stretchable
<1> QED BY <1>2, <1>3

LEMMA MotionGood ==
  ASSUME Good(w), Motion
  PROVE  Good(w') /\ Tidy(w, w')
<1>1. w.inside_action /\ w.place_list = {} /\ ~Moving(w)
  BY DEF Motion, Moving
<1>2. CASE w.mode = "SELECT"
  <2>1. PICK S \in SUBSET w.page :
          LET hit == [w EXCEPT !.selection_list = S]
          IN  \/ \E m \in {"SELECT", "SBOX"} : w' = SetState(hit, m)
              \/ \E N \in New(w) : \E T \in Stretchable(hit, N) : w' = MoveStart(hit, N, T)
    BY <1>2 DEF Motion
  <2> DEFINE hit == [w EXCEPT !.selection_list = S]
  <2>2. /\ Good(hit) /\ ~Moving(hit) /\ hit.place_list = {}
        /\ hit.inside_action /\ hit.page = w.page /\ hit.live = w.live
    BY <1>1, SelectGood
  <2>3. CASE \E m \in {"SELECT", "SBOX"} : w' = SetState(hit, m)
    <3>1. PICK m \in {"SELECT", "SBOX"} : w' = SetState(hit, m)
      BY <2>3
    <3> HIDE DEF hit
    <3>2. m \in Modes
      BY DEF Modes, Quiet
    <3> QED BY <2>2, <3>1, <3>2, ModeGood DEF Tidy
  <2>4. CASE \E N \in New(w) : \E T \in Stretchable(hit, N) : w' = MoveStart(hit, N, T)
    <3>1. PICK N \in New(w) : \E T \in Stretchable(hit, N) : w' = MoveStart(hit, N, T)
      BY <2>4
    <3>2. PICK T \in Stretchable(hit, N) : w' = MoveStart(hit, N, T)
      BY <3>1
    <3>3. N \subseteq Objects /\ N \cap hit.live = {}
      BY <2>2, NewObjects
    <3> HIDE DEF hit
    <3>4. CASE hit.selection_list = {}
      BY <2>2, <3>2, <3>4 DEF MoveStart, Tidy
    <3>5. CASE hit.selection_list # {}
      BY <2>2, <3>2, <3>3, <3>5, MoveStartGood DEF Stretchable, Tidy
    <3> QED BY <3>4, <3>5
  <2> QED BY <2>1, <2>3, <2>4
<1>3. CASE w.mode = "PATHMODE" /\ w' = PathUsed(w)
  BY <1>1, <1>3, PathUsedGood DEF Tidy
<1> QED BY <1>2, <1>3 DEF Motion

LEMMA MiddleButtonGood ==
  ASSUME Good(w), MiddleButton
  PROVE  Good(w') /\ Tidy(w, w')
<1>1. CASE w.inside_action /\ w' = PlaceTurn(w)
  BY <1>1, PlaceTurnGood
<1>2. CASE w' = Cancelled(w)
  BY <1>2, CancelledGood DEF Tidy, Left
<1>3. CASE ~w.inside_action /\ \E S \in SUBSET w.page :
          LET hit == [w EXCEPT !.selection_list = S]
          IN  \/ S = {} /\ w' = Rest(hit)
              \/ \E N \in Copies(hit, S) : w' = CopyStart(SetState(hit, "COPYMODE"), N)
              \/ \E N \in New(hit) : \E T \in Stretchable(hit, N) : w' = MoveStart(hit, N, T)
  <2>1. PICK S \in SUBSET w.page :
          LET hit == [w EXCEPT !.selection_list = S]
          IN  \/ S = {} /\ w' = Rest(hit)
              \/ \E N \in Copies(hit, S) : w' = CopyStart(SetState(hit, "COPYMODE"), N)
              \/ \E N \in New(hit) : \E T \in Stretchable(hit, N) : w' = MoveStart(hit, N, T)
    BY <1>3
  <2> DEFINE hit == [w EXCEPT !.selection_list = S]
             copying == SetState(hit, "COPYMODE")
  <2>2. ~Moving(w)
    BY <1>3 DEF Moving
  <2>3. /\ Good(hit) /\ ~Moving(hit) /\ hit.place_list = w.place_list /\ ~hit.inside_action
        /\ hit.page = w.page /\ hit.live = w.live
        /\ hit.selection_list = S
    BY <1>3, <2>2, SelectGood
  <2>4. CASE w' = Rest(hit)
    <3> HIDE DEF hit
    <3> QED BY <1>3, <2>3, <2>4, RestGood DEF Tidy, Left
  <2>5. CASE \E N \in Copies(hit, S) : w' = CopyStart(SetState(hit, "COPYMODE"), N)
    <3>1. PICK N \in Copies(hit, S) : w' = CopyStart(copying, N)
      BY <2>5
    <3>2. N \subseteq Objects /\ N \cap hit.live = {} /\ N \cap hit.page = {}
      BY <2>3, NewObjects DEF Copies, Good, Unharmed
    <3> HIDE DEF hit
    <3>3. /\ Good(copying) /\ ~copying.inside_action /\ copying.place_list = w.place_list
          /\ copying.live = hit.live /\ copying.page = hit.page /\ copying.mode = "COPYMODE"
      BY <2>3, SetStateGood DEF Modes, Placing
    <3> HIDE DEF copying
    <3>4. CASE copying.selection_list = {}
      BY <1>3, <3>1, <3>3, <3>4 DEF CopyStart, Tidy, Left
    <3>5. CASE copying.selection_list # {}
      BY <3>1, <3>2, <3>3, <3>5, CopyStartGood DEF Tidy, Placing, Moving
    <3> QED BY <3>4, <3>5
  <2>6. CASE \E N \in New(hit) : \E T \in Stretchable(hit, N) : w' = MoveStart(hit, N, T)
    <3>1. PICK N \in New(hit) : \E T \in Stretchable(hit, N) : w' = MoveStart(hit, N, T)
      BY <2>6
    <3>2. PICK T \in Stretchable(hit, N) : w' = MoveStart(hit, N, T)
      BY <3>1
    <3> QED BY <1>3, <2>2, <3>2, MoveHitGood DEF Tidy, Left
  <2> QED BY <2>1, <2>4, <2>5, <2>6
<1> QED BY <1>1, <1>2, <1>3 DEF MiddleButton

LEMMA RightButtonGood ==
  ASSUME Good(w), RightButton
  PROVE  Good(w') /\ Tidy(w, w')
<1>1. CASE w' = Cancelled(w)
  BY <1>1, CancelledGood DEF Tidy, Left
<1>2. CASE w.mode = "NETMODE" /\ w' = ActionStop(w)
  BY <1>2, StopGood DEF Tidy, Left, Moving, Placing
<1>3. CASE w.mode = "PATHMODE"
  <2>1. ~Moving(w) /\ w.mode \notin Placing \cup {"MOVEMODE"}
    BY <1>3 DEF Moving, Placing
  <2>2. CASE w' = ActionStop(PathUsed(w))
    <3> DEFINE used == PathUsed(w)
    <3>1. Good(used) /\ ~Moving(used) /\ used.place_list = w.place_list
      BY <2>1, PathUsedGood DEF Moving
    <3> HIDE DEF used
    <3>2. w' = ActionStop(used)
      BY <2>2 DEF used
    <3> QED BY <2>1, <3>1, <3>2, StopGood DEF Tidy, Left
  <2>3. CASE \E N \in New(w) : w' = PathEnd(w, N)
    BY <2>1, <2>3, NewObjects, PathEndGood DEF Tidy, Left
  <2> QED BY <1>3, <2>2, <2>3 DEF RightButton, Drawing
<1> QED BY <1>1, <1>2, <1>3 DEF RightButton

LEMMA DoubleClickGood ==
  ASSUME Good(w), DoubleClick
  PROVE  Good(w') /\ Tidy(w, w')
<1>1. w.mode = "SELECT" /\ ~Moving(w) /\ w' = ActionStop(w)
  BY DEF DoubleClick, Moving
<1> QED BY <1>1, StopGood DEF Tidy, Left, Placing
-----------------------------------------------------------------------------
(* Commands.                                                               *)

\* The selection after cleaning.
LEMMA CleanedSelectGood ==
  ASSUME Good(w), EditSelect
  PROVE  Good(w') /\ Tidy(w, w')
<1>1. PICK S \in SUBSET w.page : w' = Rest([Cleaned(w) EXCEPT !.selection_list = S])
  BY DEF EditSelect
<1> DEFINE c == Cleaned(w)
           t == [c EXCEPT !.selection_list = S]
<1>2. Good(c) /\ ~Moving(c) /\ Left(w, c) /\ c.page = w.page
  BY CleanedGood
<1> HIDE DEF c
<1>3. Good(t) /\ ~Moving(t) /\ t.place_list = c.place_list
  BY <1>2, SelectGood
<1>4. w' = Rest(t)
  BY <1>1 DEF c
<1> HIDE DEF t
<1> QED BY <1>2, <1>3, <1>4, RestGood DEF Tidy, Left

\* Redo is only given without an action; undo cancels one that is under way.
LEMMA UndoRedoGood ==
  ASSUME Good(w), "redo" \notin Interrupts, EditUndo \/ EditRedo \/ Revert \/ Cancel
  PROVE  Good(w') /\ Tidy(w, w')
<1>1. CASE w' = Cancelled(w)
  BY <1>1, CancelledGood DEF Tidy, Left
<1>2. CASE ~w.inside_action /\ \E N \in New(w) : w' = Restored(w, N)
  BY <1>2, NewObjects, RestoredGood DEF Tidy, Left
<1>3. CASE Revert
  <2> DEFINE s == IF w.inside_action THEN Cancelled(w) ELSE w
  <2>1. PICK N \in New(w) : w' = Restored(s, N)
    BY <1>3 DEF Revert
  <2>2. Good(s) /\ ~s.inside_action /\ s.live \subseteq w.live
    <3>1. CASE w.inside_action
      BY <3>1, CancelledGood
    <3>2. CASE ~w.inside_action
      BY <3>2
    <3> QED BY <3>1, <3>2
  <2> HIDE DEF s
  <2>3. N \subseteq Objects /\ N \cap s.live = {}
    BY <2>2, NewObjects
  <2> QED BY <2>1, <2>2, <2>3, RestoredGood DEF Tidy, Left
<1> QED BY <1>1, <1>2, <1>3 DEF EditUndo, EditRedo, Cancel, MayInterrupt

LEMMA DeleteGood ==
  ASSUME Good(w), ClipboardCut \/ EditDelete
  PROVE  Good(w') /\ Tidy(w, w')
<1> DEFINE c == Cleaned(w)
<1>1. PICK D \in SUBSET w.selection_list :
        w' = DeleteSelected(c, D) \/ w' = Rest(DeleteSelected(c, D))
  BY DEF ClipboardCut, EditDelete
<1>2. /\ Good(c) /\ Left(w, c) /\ c.selection_list = w.selection_list
      /\ c.inside_action => c.mode \in Quiet
  BY CleanedGood
<1> HIDE DEF c
<1> DEFINE t == DeleteSelected(c, D)
<1>3. Good(t) /\ ~Moving(t) /\ t.place_list = c.place_list
  BY <1>2, DeleteSelectedGood
<1> HIDE DEF t
<1>4. w' = t \/ w' = Rest(t)
  BY <1>1 DEF t
<1> QED BY <1>2, <1>3, <1>4, RestGood DEF Tidy, Left

\* Pasted objects are placed, or left in the place list without an action.
LEMMA ClipboardPasteGood ==
  ASSUME Good(w), ClipboardPaste
  PROVE  Good(w')
<1> DEFINE c == Cleaned(w)
           idle == IF c.inside_action THEN Cancelled(c) ELSE c
<1>1. PICK N \in New(w) : \/ w' = SetState(idle, "SELECT")
                          \/ w' = Place(idle, "PASTEMODE", N)
                          \/ w' = Rest(Place(idle, "PASTEMODE", N))
  BY DEF ClipboardPaste
<1>2. Good(c) /\ c.page = w.page /\ c.live \subseteq w.live
  BY CleanedGood
<1> HIDE DEF c
<1>3. Good(idle) /\ ~idle.inside_action /\ idle.page = w.page /\ idle.live \subseteq w.live
  <2>1. CASE c.inside_action
    BY <1>2, <2>1, CancelledGood
  <2>2. CASE ~c.inside_action
    BY <1>2, <2>2
  <2> QED BY <2>1, <2>2
<1> HIDE DEF idle
<1>4. /\ N \subseteq Objects /\ N \cap idle.live = {} /\ N \cap idle.page = {}
      /\ ~Moving(idle)
  BY <1>3, NewObjects DEF Good, Unharmed, Moving
<1>5. "SELECT" \in Modes /\ "PASTEMODE" \in Placing /\ "PASTEMODE" \in Modes
  BY DEF Modes, Quiet, Placing
<1> DEFINE t == Place(idle, "PASTEMODE", N)
<1>6. Good(t) /\ ~Moving(t)
  BY <1>3, <1>4, <1>5, PlaceGood
<1> HIDE DEF t
<1>7. w' = SetState(idle, "SELECT") \/ w' = t \/ w' = Rest(t)
  BY <1>1 DEF t
<1> QED BY <1>3, <1>5, <1>6, <1>7, SetStateGood, RestGood

LEMMA CompselectPlaceGood ==
  ASSUME Good(w), CompselectPlace
  PROVE  Good(w') /\ Tidy(w, w')
<1> DEFINE ended == IF w.mode = "COMPMODE" THEN FreePlaceList(w) ELSE Cleaned(w)
<1>1. PICK N \in New(w) : w' = IF N = {} THEN Rest(Place(ended, "COMPMODE", {}))
                             ELSE Place(ended, "COMPMODE", N)
  BY DEF CompselectPlace
<1>2. Good(ended) /\ ~Moving(ended) /\ ended.page = w.page /\ ended.live \subseteq w.live
  <2>1. CASE w.mode = "COMPMODE"
    BY <2>1, FreeGood DEF Moving
  <2>2. CASE w.mode # "COMPMODE"
    BY <2>2, CleanedGood
  <2> QED BY <2>1, <2>2
<1> HIDE DEF ended
<1>3. N \subseteq Objects /\ N \cap ended.live = {} /\ N \cap ended.page = {}
  BY <1>2, NewObjects DEF Good, Unharmed
<1>4. "COMPMODE" \in Modes /\ "COMPMODE" \in Placing
  BY DEF Modes, Placing
<1>5. CASE N = {}
  <2> DEFINE t == Place(ended, "COMPMODE", {})
  <2>1. Good(t) /\ ~Moving(t) /\ t.place_list = {}
    BY <1>2, <1>4, PlaceGood
  <2> HIDE DEF t
  <2>2. w' = Rest(t)
    BY <1>1, <1>5 DEF t
  <2> QED BY <2>1, <2>2, RestGood DEF Tidy, Left
<1>6. CASE N # {}
  BY <1>1, <1>2, <1>3, <1>4, <1>6, PlaceGood DEF Tidy
<1> QED BY <1>5, <1>6

LEMMA TextApplyGood ==
  ASSUME Good(w), "text" \notin Interrupts, TextApply
  PROVE  Good(w') /\ Tidy(w, w')
<1>1. PICK N \in New(w) : w' = Place(w, "TEXTMODE", N)
  BY DEF TextApply
<1>2. ~Moving(w)
  BY DEF TextApply, MayInterrupt, Placing, Moving
<1>3. N \subseteq Objects /\ N \cap w.live = {} /\ N \cap w.page = {}
  BY NewObjects DEF Good, Unharmed
<1>4. "TEXTMODE" \in Modes /\ "TEXTMODE" \in Placing
  BY DEF Modes, Placing
<1> QED BY <1>1, <1>2, <1>3, <1>4, PlaceGood DEF Tidy

(* Commands that clean and set a mode, which may begin an action.          *)
LEMMA CleanedModeGood ==
  ASSUME Good(w), NEW m \in Modes, m \notin {"GRIPS", "MOVEMODE"}
  PROVE  LET t == SetState(Cleaned(w), m)
         IN  /\ Good(t) /\ Tidy(w, t)
             /\ Good(ActionStart(t)) /\ Tidy(w, ActionStart(t))
             /\ m \in Drawing => Good(DrawStart(t)) /\ Tidy(w, DrawStart(t))
<1> DEFINE c == Cleaned(w)
           t == SetState(c, m)
<1>1. Good(c) /\ ~Moving(c) /\ Left(w, c)
  BY CleanedGood
<1> HIDE DEF c
<1>2. Good(t) /\ t.mode = m /\ Left(w, t) /\ ~Moving(t)
  BY <1>1, ModeGood DEF Left, Moving
<1> HIDE DEF t
<1>3. Good(ActionStart(t)) /\ ActionStart(t).inside_action
  BY <1>2, StartGood
<1>4. m \in Drawing => Good(DrawStart(t)) /\ DrawStart(t).inside_action
  BY <1>2, DrawStartGood
<1> QED BY <1>2, <1>3, <1>4 DEF t, c, Tidy

LEMMA AddGood ==
  ASSUME Good(w),
         AddComponent \/ AddText \/ AddPicture \/ AddNet \/ AddBus \/ AddShape \/ AddPath
  PROVE  Good(w') /\ Tidy(w, w')
<1> DEFINE c == Cleaned(w)
<1>1. Good(c) /\ ~Moving(c) /\ Left(w, c)
  BY CleanedGood
<1>2. {"SELECT", "PICTUREMODE", "PATHMODE", "NETMODE", "BUSMODE"} \subseteq Modes \ {"GRIPS", "MOVEMODE"}
  BY DEF Modes, Quiet, Drawing, Shapes
<1>3. CASE AddComponent
  BY <1>2, <1>3, CleanedModeGood DEF AddComponent
<1>4. CASE AddText
  <2> w' = Rest(c)
    BY <1>4 DEF AddText
  <2> HIDE DEF c
  <2> QED BY <1>1, RestGood DEF Tidy, Left
<1>5. CASE AddPicture
  <2> DEFINE d == ActionStop(c)
  <2>1. w' = SetState(d, "PICTUREMODE")
    BY <1>5 DEF AddPicture
  <2> HIDE DEF c
  <2>2. Good(d) /\ ~d.inside_action /\ d.place_list = c.place_list
    BY <1>1, StopGood
  <2> HIDE DEF d
  <2> QED BY <1>1, <1>2, <2>1, <2>2, SetStateGood DEF Tidy, Left
<1>6. CASE AddNet
  <2> DEFINE n == SetState(c, "NETMODE")
             d == ActionStop(n)
  <2>1. w' = n \/ w' = DrawStart(d)
    BY <1>6 DEF AddNet
  <2>2. Good(n) /\ Tidy(w, n)
    BY <1>2, CleanedModeGood
  <2> HIDE DEF c
  <2>3. n.mode = "NETMODE" /\ ~Moving(n)
    BY <1>1, <1>2, ModeGood DEF Moving
  <2> HIDE DEF n
  <2>4. Good(d) /\ d.mode = "NETMODE"
    BY <2>2, <2>3, StopGood
  <2> HIDE DEF d
  <2>5. d.mode \in Drawing
    BY <2>4 DEF Drawing
  <2> QED BY <2>1, <2>2, <2>4, <2>5, DrawStartGood DEF Tidy
<1>7. ASSUME NEW m \in Modes, m \notin {"GRIPS", "MOVEMODE"}, m \in Drawing, AddShapeLike(m)
      PROVE  Good(w') /\ Tidy(w, w')
  BY <1>7, CleanedModeGood DEF AddShapeLike
<1>8. CASE AddBus
  BY <1>2, <1>7, <1>8 DEF AddBus, Drawing
<1>9. CASE AddShape
  BY <1>7, <1>9 DEF AddShape, Shapes, Drawing, Modes
<1>10. CASE AddPath
  BY <1>2, <1>10, CleanedModeGood DEF AddPath
<1> QED BY <1>3, <1>4, <1>5, <1>6, <1>8, <1>9, <1>10

LEMMA EditCopyGood ==
  ASSUME Good(w), EditCopy
  PROVE  Good(w') /\ Tidy(w, w')
<1> DEFINE c == Cleaned(w)
<1>1. /\ Good(c) /\ ~Moving(c)
      /\ c.live \subseteq w.live /\ c.page = w.page /\ c.selection_list = w.selection_list
  BY CleanedGood
<1>2. PICK m \in {"COPYMODE", "MCOPYMODE"} :
        \/ w' = SetState(c, m)
        \/ \E N \in Copies(w, w.selection_list) : w' = SetState(CopyStart(c, N), m)
  BY DEF EditCopy
<1>3. /\ m \in Modes /\ m \in Placing /\ m \notin {"GRIPS", "MOVEMODE"}
      /\ c.selection_list # {}
  BY <1>1 DEF Modes, Placing, EditCopy
<1>4. CASE w' = SetState(c, m)
  BY <1>3, <1>4, CleanedModeGood
<1> HIDE DEF c
<1>5. CASE \E N \in Copies(w, w.selection_list) : w' = SetState(CopyStart(c, N), m)
  <2>1. PICK N \in Copies(w, w.selection_list) : w' = SetState(CopyStart(c, N), m)
    BY <1>5
  <2>2. N \subseteq Objects /\ N \cap c.live = {} /\ N \cap c.page = {}
    BY <1>1, NewObjects DEF Copies, Good, Unharmed
  <2> QED BY <1>1, <1>3, <2>1, <2>2, CopyStartGood DEF Tidy
<1> QED BY <1>2, <1>4, <1>5

LEMMA EditMoveGood ==
  ASSUME Good(w), EditMove
  PROVE  Good(w') /\ Tidy(w, w')
<1> DEFINE c == Cleaned(w)
<1>1. /\ Good(c) /\ ~Moving(c) /\ Left(w, c)
      /\ c.live \subseteq w.live /\ c.page = w.page /\ c.selection_list = w.selection_list
  BY CleanedGood
<1>2. \/ w' = SetState(c, "MOVEMODE")
      \/ \E N \in New(w) : \E S \in Stretchable(c, N) : w' = SetState(MoveStart(c, N, S), "MOVEMODE")
  BY DEF EditMove
<1>3. "MOVEMODE" \in Modes /\ c.selection_list # {}
  BY <1>1 DEF Modes, EditMove
<1> HIDE DEF c
<1>4. CASE w' = SetState(c, "MOVEMODE")
  BY <1>1, <1>3, <1>4, ModeGood DEF Tidy, Left
<1>5. CASE \E N \in New(w) : \E S \in Stretchable(c, N) : w' = SetState(MoveStart(c, N, S), "MOVEMODE")
  <2>1. PICK N \in New(w) : \E S \in Stretchable(c, N) : w' = SetState(MoveStart(c, N, S), "MOVEMODE")
    BY <1>5
  <2>2. PICK S \in Stretchable(c, N) : w' = SetState(MoveStart(c, N, S), "MOVEMODE")
    BY <2>1
  <2>3. N \subseteq Objects /\ N \cap c.live = {}
    BY <1>1, NewObjects
  <2> QED BY <1>1, <1>3, <2>2, <2>3, MoveStartGood DEF Stretchable, Tidy
<1> QED BY <1>2, <1>4, <1>5

\* A mode for turning is also set while nothing is placed within an action.
LEMMA EditRotateGood ==
  ASSUME Good(w), EditRotate
  PROVE  Good(w') /\ Tidy(w, w')
<1>1. CASE w.inside_action /\ w.place_list # {}
  BY <1>1, PlaceTurnGood DEF EditRotate
<1>2. CASE ~(w.inside_action /\ w.place_list # {})
  <2>1. PICK rotate \in BOOLEAN :
          \/ w' = SetState(w, IF rotate THEN "ROTATEMODE" ELSE "MIRRORMODE")
          \/ w' = WorldTurn(Cleaned(w), rotate)
    BY <1>2 DEF EditRotate
  <2>2. CASE w' = SetState(w, IF rotate THEN "ROTATEMODE" ELSE "MIRRORMODE")
    <3> DEFINE m == IF rotate THEN "ROTATEMODE" ELSE "MIRRORMODE"
               t == SetState(w, m)
    <3>1. m \in Modes /\ m \notin {"GRIPS", "MOVEMODE"}
      BY DEF Modes, Quiet
    <3> HIDE DEF m
    <3>2. /\ t \in State /\ t.mode = m /\ t.inside_action = w.inside_action
          /\ t.page = w.page /\ t.selection_list = w.selection_list
          /\ t.place_list = w.place_list /\ t.stretch_list = w.stretch_list
          /\ t.live = w.live /\ t.freed_twice = w.freed_twice
      BY <3>1 DEF SetState, State, Good, Shaped
    <3>3. w.place_list \cap w.page = {} /\ w.stretch_list = {}
      BY <1>2 DEF Good, Owned, Staged, Moving
    <3> HIDE DEF t
    <3>4. Good(t)
      BY <3>1, <3>2, <3>3 DEF Good, Shaped, Unharmed, Owned, Staged, Moving
    <3>5. Tidy(w, t)
      BY <1>2, <3>2 DEF Tidy, Left
    <3> QED BY <2>2, <3>4, <3>5 DEF t, m
  <2>3. CASE w' = WorldTurn(Cleaned(w), rotate)
    <3> DEFINE c == Cleaned(w)
    <3>1. Good(c) /\ Left(w, c) /\ (c.inside_action => c.mode \in Quiet)
      BY CleanedGood
    <3> HIDE DEF c
    <3>2. w' = WorldTurn(c, rotate)
      BY <2>3 DEF c
    <3> QED BY <3>1, <3>2, WorldTurnGood DEF Tidy, Left
  <2> QED BY <2>1, <2>2, <2>3
<1> QED BY <1>1, <1>2

LEMMA EditUpdateGood ==
  ASSUME Good(w), "update" \notin Interrupts, EditUpdate
  PROVE  Good(w') /\ Tidy(w, w')
<1>1. PICK D \in SUBSET w.selection_list : \E N \in Copies(w, D) :
       w' = [Delete(w, D) EXCEPT !.page = (@ \ D) \cup N, !.live = (@ \ D) \cup N,
                                 !.selection_list = (@ \ D) \cup N, !.recorded = D = {}]
  BY DEF EditUpdate
<1> DEFINE d == Delete(w, D)
<1>2. PICK N \in Copies(w, D) :
       w' = [d EXCEPT !.page = (@ \ D) \cup N, !.live = (@ \ D) \cup N,
                      !.selection_list = (@ \ D) \cup N, !.recorded = D = {}]
  BY <1>1
<1>3. ~w.inside_action /\ w.stretch_list = {} /\ w.place_list \cap w.page = {}
  BY Unmoved DEF EditUpdate, MayInterrupt, Moving
<1>4. /\ d \in State /\ d.live = w.live \ D /\ d.freed_twice = FALSE
      /\ d.page = w.page /\ d.selection_list = w.selection_list /\ d.inside_action = FALSE
      /\ d.place_list = w.place_list /\ d.stretch_list = {}
  BY <1>3 DEF Delete, State, Good, Shaped, Unharmed
<1> HIDE DEF d
<1>5. N \subseteq Objects /\ N \cap w.place_list = {}
  BY NewObjects DEF Copies, Good, Unharmed
<1>6. /\ w' \in State /\ w'.freed_twice = FALSE
      /\ w'.live = ((w.live \ D) \ D) \cup N /\ w'.page = (w.page \ D) \cup N
      /\ w'.selection_list = (w.selection_list \ D) \cup N /\ w'.inside_action = FALSE
      /\ w'.place_list = w.place_list /\ w'.stretch_list = {}
  BY <1>2, <1>4, <1>5 DEF State
<1>7. D \subseteq w.page
  BY DEF Good, Shaped
<1> QED BY <1>3, <1>5, <1>6, <1>7 DEF Good, Shaped, Unharmed, Owned, Staged, Moving, Tidy, Left

LEMMA OthersGood ==
  ASSUME Good(w), "save" \notin Interrupts,
         ChangeObjects \/ Save \/ ViewZoomBox \/ ViewPan \/ PlaceOrigin
  PROVE  Good(w') /\ Tidy(w, w')
<1>1. CASE ChangeObjects
  BY <1>1, NewObjects, AddedGood DEF ChangeObjects, Tidy, Left
<1>2. CASE Save
  BY <1>2, SetStateGood DEF Save, MayInterrupt, Tidy, Left, Modes, Quiet
<1>3. CASE ViewZoomBox
  BY <1>3, CleanedModeGood DEF ViewZoomBox, Modes
<1>4. CASE ViewPan
  <2> DEFINE c == Cleaned(w)
             d == ActionStop(c)
  <2>1. Good(c) /\ ~Moving(c) /\ Left(w, c)
    BY CleanedGood
  <2>2. w' = SetState(d, "PAN")
    BY <1>4 DEF ViewPan
  <2> HIDE DEF c
  <2>3. Good(d) /\ ~d.inside_action /\ d.place_list = c.place_list
    BY <2>1, StopGood
  <2> HIDE DEF d
  <2> QED BY <2>1, <2>2, <2>3, SetStateGood DEF Tidy, Left, Modes, Quiet
<1>5. CASE PlaceOrigin
  BY <1>5, CleanedModeGood DEF PlaceOrigin, Modes
<1> QED BY <1>1, <1>2, <1>3, <1>4, <1>5

-----------------------------------------------------------------------------
(* Every step keeps Good, and ends actions cleanly unless it is a paste.   *)
\* Commands that break nothing when they are given within an action.
Harmless == Interrupts \subseteq {"path", "rotate"}

LEMMA StepGood ==
  ASSUME Good(w), Harmless, Next
  PROVE  Good(w') /\ (Tidy(w, w') \/ ClipboardPaste)
<1> USE DEF Harmless
<1>1. CASE Mouse
  BY <1>1, PressEndsGood, PressStartsGood, PressTurnsGood, ReleasePlacesGood, ReleaseEndsGood,
     MotionGood, MiddleButtonGood, RightButtonGood, DoubleClickGood DEF Mouse
<1>2. CASE Edit
  BY <1>2, UndoRedoGood, DeleteGood, ClipboardPasteGood, CleanedSelectGood, EditCopyGood,
     EditMoveGood, EditRotateGood, EditUpdateGood, OthersGood DEF Edit
<1>3. CASE Add
  BY <1>3, CompselectPlaceGood, AddGood, TextApplyGood DEF Add
<1>4. CASE Other
  BY <1>4, UndoRedoGood, OthersGood DEF Other
<1> QED BY <1>1, <1>2, <1>3, <1>4 DEF Next

LEMMA InitGood ==
  ASSUME Init
  PROVE  Good(w)
<1>1. PICK P \in SUBSET Objects :
        w = [mode |-> "SELECT", inside_action |-> FALSE, page |-> P, selection_list |-> {},
             place_list |-> {}, stretch_list |-> {}, which_object |-> NULL,
             temp_path |-> "NULL", live |-> P,
             recorded |-> TRUE, freed_twice |-> FALSE, failed |-> FALSE]
  BY DEF Init
<1>2. "SELECT" \in Modes
  BY DEF Modes, Quiet
<1> QED BY <1>1, <1>2 DEF Good, Shaped, Unharmed, Owned, Staged, Moving, State

LEMMA GoodImplies ==
  ASSUME Good(w)
  PROVE  TypeOK /\ NothingFreedInUse /\ PlaceListIsOwned
BY DEF Good, Shaped, Unharmed, Owned, Staged, Moving, TypeOK, NothingFreedInUse, Gripping,
       PlaceListIsOwned

(* Every state is good, also when actions are interrupted by asking for a  *)
(* path or by rotating.                                                    *)
THEOREM AlwaysGood == ASSUME Harmless PROVE Spec => []Good(w)
<1>1. Init => Good(w)
  BY InitGood
<1>2. Good(w) /\ [Next]_w => Good(w)'
  <2>1. ASSUME Good(w), Next PROVE Good(w')
    BY <2>1, StepGood
  <2>2. ASSUME Good(w), UNCHANGED w PROVE Good(w')
    BY <2>2
  <2> QED BY <2>1, <2>2
<1> QED BY <1>1, <1>2, PTL DEF Spec

(* Nothing that is in use is freed, and nothing is freed twice, whatever   *)
(* is placed, moved, cancelled, deleted or undone, in any order.           *)
THEOREM ObjectsAreSafe == ASSUME Harmless PROVE Spec => []NothingFreedInUse
<1>1. Good(w) => NothingFreedInUse
  BY GoodImplies
<1> QED BY <1>1, AlwaysGood, PTL

(* The place list shares objects with the page only during a move.         *)
THEOREM PlacementsAreOwned == ASSUME Harmless PROVE Spec => []PlaceListIsOwned
<1>1. Good(w) => PlaceListIsOwned
  BY GoodImplies
<1> QED BY <1>1, AlwaysGood, PTL

(* An action that places or moves leaves no placement and no stretched nets*)
(* behind, however it ends; only pasting can leave objects without one.    *)
THEOREM ActionsEndCleanly == ASSUME Harmless PROVE Spec => EndsCleanly
<1> DEFINE Clean ==
      ~w'.inside_action =>
       /\ w'.stretch_list = {}
       /\ \/ w'.place_list = {}
          \/ ClipboardPaste
          \/ /\ w'.place_list = w.place_list
             /\ w.inside_action => w.mode \notin Placing \cup {"MOVEMODE"}
<1>1. Good(w) /\ [Next]_w => [Clean]_w
  <2>1. ASSUME Good(w), Next PROVE Clean
    <3>1. Good(w') /\ (Tidy(w, w') \/ ClipboardPaste)
      BY <2>1, StepGood
    <3>2. ~w'.inside_action => w'.stretch_list = {}
      BY <3>1 DEF Good, Staged, Moving
    <3> QED BY <3>1, <3>2 DEF Tidy, Left
  <2> QED BY <2>1
<1> QED BY <1>1, AlwaysGood, PTL DEF Spec, EndsCleanly
=============================================================================
