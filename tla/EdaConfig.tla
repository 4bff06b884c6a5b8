------------------------------ MODULE EdaConfig ------------------------------
(***************************************************************************)
(* Configuration contexts of libgeda (libgeda/src/edaconfig.c), with what  *)
(* Scheme does with them (scheme_config.c).                                *)
(*                                                                         *)
(* A context has a key file of its own and inherits what the file lacks    *)
(* from its parent.  Setting a parameter emits the GObject signal          *)
(* "config-changed", which is synchronous: the class handler marks the     *)
(* context as changed, then the connected handlers are called one by one.  *)
(* A child context that inherits the parameter emits the signal again; a   *)
(* Scheme procedure may call anything of this interface, so emissions      *)
(* nest.  The signal has the flag G_SIGNAL_NO_RECURSE: emitting it on a    *)
(* context that is emitting only makes the emission under way start again. *)
(*                                                                         *)
(* The handlers of a context are called in any order here (GLib: in the    *)
(* order they were connected).                                             *)
(*                                                                         *)
(* Values are left out, a key file is the set of the parameters it         *)
(* contains.  Other programs may write the files at any time, so loading   *)
(* one may bring any set.                                                  *)
(***************************************************************************)
EXTENDS Integers, Sequences

CONSTANTS
  Params,      \* configuration parameters (group and key)
  Default,     \* the default context, which has no file
  System, User,   \* the system and the user context
  Locals,      \* local contexts, one for each geda.conf
  Procs,       \* Scheme procedures used as handlers
  Listens,     \* Listens[h]: contexts that procedure h may be connected to
  NoContext    \* a context's parent if it has none

Shared == {Default, System, User}
Contexts == Shared \cup Locals

ASSUME ConfigAssumption ==
  /\ Default # User /\ Default # System /\ System # User
  /\ Shared \cap Locals = {} /\ Contexts \cap Procs = {}
  /\ NoContext \notin Contexts
  /\ Listens \in [Procs -> SUBSET Contexts]

VARIABLES
  contexts,    \* the contexts created so far
  keyfile,     \* per context: the parameters in its key file
  changed,     \* contexts whose flag "changed" is set
  parent,      \* per context: its parent
  handlers,    \* per context: what is connected to its signal
  emissions    \* the emissions under way, the innermost last

VARIABLES
  altered,     \* history: contexts altered since they were loaded or saved
  untold,      \* history: <<c, h>>: c was set after h was last called for it
  owed,        \* history: <<c, p>>: c inherits a p that was set, not yet told
  absorbed     \* history: a set since then only restarted an emission

vars == <<contexts, keyfile, changed, parent, handlers, emissions,
          altered, untold, owed, absorbed>>

Handlers == Contexts \cup Procs
Emission == [context : Contexts, param : Params, todo : SUBSET Handlers,
             restart : BOOLEAN, in_proc : BOOLEAN]
-----------------------------------------------------------------------------
(* Inheritance.                                                            *)

\* eda_config_is_descendent: going up from c through parents one meets a.
IsDescendent(c, a) ==
  \A S \in SUBSET Contexts :
    c \in S /\ (\A x \in S : parent[x] \in S \cup {NoContext}) => a \in S
Descendents(a) == {c \in contexts : IsDescendent(c, a)}

\* S contains the contexts that inherit p from its members.
PassedOn(S, p) == \A x \in contexts : parent[x] \in S /\ p \notin keyfile[x] => x \in S
\* The contexts whose eda_config_get_source for p goes through c.
Inheritors(c, p) ==
  {x \in contexts : \A S \in SUBSET Contexts : c \in S /\ PassedOn(S, p) => x \in S}

-----------------------------------------------------------------------------
(* The signal config-changed.                                              *)

Idle == emissions = << >>
Top == emissions[Len(emissions)]
WithTop(e) == [emissions EXCEPT ![Len(emissions)] = e]
Emitting(c) == \E i \in DOMAIN emissions : emissions[i].context = c

\* Scheme code runs: outside of all emissions, or in a handler.
InScheme == ~Idle => Top.in_proc

\* Mutant: an emission on a context that is emitting has no effect.
EmitOnce(c, p, pending) ==
  IF \E i \in DOMAIN pending : pending[i].context = c
    THEN emissions' = pending /\ UNCHANGED changed
    ELSE /\ changed' = changed \cup {c}
         /\ emissions' = Append(pending, [context |-> c, param |-> p, todo |-> handlers[c],
                                          restart |-> FALSE, in_proc |-> FALSE])

(* g_signal_emit, after which pending are the emissions under way; the     *)
(* class handler runs first.                                               *)
Emit(c, p, pending) ==
  IF \E i \in DOMAIN pending : pending[i].context = c
    THEN /\ emissions' = [i \in DOMAIN pending |->
                           [pending[i] EXCEPT !.restart = @ \/ pending[i].context = c]]
         /\ UNCHANGED changed
    ELSE /\ changed' = changed \cup {c}
         /\ emissions' = Append(pending, [context |-> c, param |-> p, todo |-> handlers[c],
                                          restart |-> FALSE, in_proc |-> FALSE])

\* Handler h is no longer called for c, not even by an emission under way.
Disconnected(c, h) ==
  [i \in DOMAIN emissions |-> IF emissions[i].context = c
                                THEN [emissions[i] EXCEPT !.todo = @ \ {h}]
                                ELSE emissions[i]]

(* An emission that was asked to starts again, from the class handler, with*)
(* its own parameter and the handlers connected by now.                    *)
Restart ==
  /\ ~Idle /\ ~Top.in_proc /\ Top.restart
  /\ emissions' = WithTop([Top EXCEPT !.restart = FALSE, !.todo = handlers[Top.context]])
  /\ changed' = changed \cup {Top.context}
  /\ owed' = owed \ {<<Top.context, Top.param>>}
  /\ UNCHANGED <<contexts, keyfile, parent, handlers, altered, untold, absorbed>>

Calls(h) == ~Idle /\ ~Top.in_proc /\ ~Top.restart /\ h \in Top.todo
Called(h, running) == WithTop([Top EXCEPT !.todo = @ \ {h}, !.in_proc = running])

\* Mutant: the signal is not passed on to a child.
CallChildOnly(x) ==
  /\ Calls(x) /\ x \in Contexts
  /\ emissions' = Called(x, FALSE)
  /\ UNCHANGED <<contexts, keyfile, changed, parent, handlers, altered, untold, owed, absorbed>>

(* parent_config_changed_handler for the child x.                          *)
CallChild(x) ==
  /\ Calls(x) /\ x \in Contexts
  /\ IF Top.param \notin keyfile[x]
       THEN /\ Emit(x, Top.param, Called(x, FALSE))
            /\ owed' = IF Emitting(x) THEN owed ELSE owed \ {<<x, Top.param>>}
            /\ absorbed' = (absorbed \/ Emitting(x))
       ELSE /\ emissions' = Called(x, FALSE)
            /\ UNCHANGED <<changed, owed, absorbed>>
  /\ UNCHANGED <<contexts, keyfile, parent, handlers, altered, untold>>

(* edascm_config_event_dispatcher for the procedure h.                     *)
CallProc(h) ==
  /\ Calls(h) /\ h \in Procs
  /\ emissions' = Called(h, TRUE)
  /\ untold' = untold \ {<<Top.context, h>>}
  /\ UNCHANGED <<contexts, keyfile, changed, parent, handlers, altered, owed, absorbed>>

ProcReturns ==
  /\ ~Idle /\ Top.in_proc
  /\ emissions' = WithTop([Top EXCEPT !.in_proc = FALSE])
  /\ UNCHANGED <<contexts, keyfile, changed, parent, handlers, altered, untold, owed, absorbed>>

EmissionEnds ==
  /\ ~Idle /\ ~Top.in_proc /\ ~Top.restart /\ Top.todo = {}
  /\ emissions' = SubSeq(emissions, 1, Len(emissions) - 1)
  /\ IF Len(emissions) = 1 THEN owed' = {} /\ absorbed' = FALSE
                           ELSE UNCHANGED <<owed, absorbed>>
  /\ UNCHANGED <<contexts, keyfile, changed, parent, handlers, altered, untold>>

-----------------------------------------------------------------------------
(* What Scheme and the program call.                                       *)

(* eda_config_set_string and its like.                                     *)
SetValue(c, p) ==
  /\ InScheme /\ c \in contexts
  /\ keyfile' = [keyfile EXCEPT ![c] = @ \cup {p}]
  /\ Emit(c, p, emissions)
  /\ altered' = altered \cup {c}
  /\ untold' = untold \cup {<<c, h>> : h \in handlers[c] \cap Procs}
  /\ owed' = (owed \cup {<<x, p>> : x \in Inheritors(c, p)})
               \ (IF Emitting(c) THEN {} ELSE {<<c, p>>})
  /\ absorbed' = (absorbed \/ Emitting(c))
  /\ UNCHANGED <<contexts, parent, handlers>>

(* eda_config_set_parent.  The signal is not emitted.                      *)
SetParent(c, a) ==
  /\ InScheme /\ c \in contexts /\ a \in contexts \cup {NoContext}
  /\ a \in contexts => ~IsDescendent(a, c)
  /\ parent' = [parent EXCEPT ![c] = a]
  /\ handlers' = [x \in Contexts |-> IF x = a THEN handlers[x] \cup {c}
                                     ELSE handlers[x] \ {c}]
  /\ emissions' = IF parent[c] = NoContext THEN emissions ELSE Disconnected(parent[c], c)
  /\ owed' = {o \in owed : o[1] \notin Descendents(c)}
  /\ UNCHANGED <<contexts, keyfile, changed, altered, untold, absorbed>>

(* add_config_event_x.                                                     *)
AddEvent(c, h) ==
  /\ InScheme /\ c \in contexts /\ c \in Listens[h] /\ h \notin handlers[c]
  /\ handlers' = [handlers EXCEPT ![c] = @ \cup {h}]
  /\ UNCHANGED <<contexts, keyfile, changed, parent, emissions, altered, untold, owed, absorbed>>

(* remove_config_event_x.                                                  *)
RemoveEvent(c, h) ==
  /\ InScheme /\ c \in contexts /\ h \in handlers[c]
  /\ handlers' = [handlers EXCEPT ![c] = @ \ {h}]
  /\ emissions' = Disconnected(c, h)
  /\ untold' = untold \ {<<c, h>>}
  /\ UNCHANGED <<contexts, keyfile, changed, parent, altered, owed, absorbed>>

(* eda_config_load of a file that can be read and parsed.  The signal is   *)
(* not emitted.                                                            *)
Load(c, K) ==
  /\ InScheme /\ c \in contexts \ {Default}
  /\ keyfile' = [keyfile EXCEPT ![c] = K]
  /\ changed' = changed \ {c}
  /\ altered' = altered \ {c}
  /\ owed' = {o \in owed : o[1] \notin Descendents(c)}
  /\ UNCHANGED <<contexts, parent, handlers, emissions, untold, absorbed>>

(* eda_config_save, when the file can be written.                          *)
Save(c) ==
  /\ InScheme /\ c \in contexts \ {Default}
  /\ changed' = changed \ {c}
  /\ altered' = altered \ {c}
  /\ UNCHANGED <<contexts, keyfile, parent, handlers, emissions, untold, owed, absorbed>>

\* Mutant: the new context is not entered in the table of local contexts.
NewContextUnrecorded(c) ==
  /\ InScheme /\ c \in Locals \ contexts
  /\ parent' = [parent EXCEPT ![c] = User]
  /\ handlers' = [handlers EXCEPT ![User] = @ \cup {c}]
  /\ UNCHANGED <<contexts, keyfile, changed, emissions, altered, untold, owed, absorbed>>

(* eda_config_get_context_for_file, when there is no context yet for the   *)
(* file that it finds.                                                     *)
NewContext(c) ==
  /\ InScheme /\ c \in Locals \ contexts
  /\ contexts' = contexts \cup {c}
  /\ parent' = [parent EXCEPT ![c] = User]
  /\ handlers' = [handlers EXCEPT ![User] = @ \cup {c}]
  /\ UNCHANGED <<keyfile, changed, emissions, altered, untold, owed, absorbed>>

-----------------------------------------------------------------------------
Init ==
  /\ contexts = Shared
  /\ keyfile = [c \in Contexts |-> {}]
  /\ changed = {}
  /\ parent = [c \in Contexts |-> IF c = User THEN System
                                  ELSE IF c = System THEN Default ELSE NoContext]
  /\ handlers = [c \in Contexts |-> IF c = Default THEN {System}
                                    ELSE IF c = System THEN {User} ELSE {}]
  /\ emissions = << >>
  /\ altered = {} /\ untold = {} /\ owed = {} /\ absorbed = FALSE

Emits ==
  \/ Restart
  \/ \E x \in Contexts : CallChild(x)
  \/ \E h \in Procs : CallProc(h)
  \/ EmissionEnds

Next ==
  \/ Emits
  \/ ProcReturns
  \/ \E c \in Contexts :
       \/ \E p \in Params : SetValue(c, p)
       \/ \E a \in Contexts \cup {NoContext} : SetParent(c, a)
       \/ \E h \in Procs : AddEvent(c, h) \/ RemoveEvent(c, h)
       \/ \E K \in SUBSET Params : Load(c, K)
       \/ Save(c)
       \/ NewContext(c)

Spec == Init /\ [][Next]_vars
-----------------------------------------------------------------------------
(* Properties.                                                             *)

TypeOK ==
  /\ Shared \subseteq contexts /\ contexts \subseteq Contexts
  /\ keyfile \in [Contexts -> SUBSET Params]
  /\ changed \subseteq contexts
  /\ parent \in [Contexts -> contexts \cup {NoContext}]
  /\ handlers \in [Contexts -> SUBSET (contexts \cup Procs)]
  /\ emissions \in Seq(Emission)
  /\ altered \subseteq contexts
  /\ untold \subseteq contexts \X Procs
  /\ owed \subseteq contexts \X Params
  /\ absorbed \in BOOLEAN

(* Whatever handlers do, in whatever order: contexts never inherit in a    *)
(* loop ("Inheritance loops are not permitted", eda_config_set_parent), so *)
(* the walks up the parents end.                                           *)
NoLoops ==
  \A S \in SUBSET contexts : S # {} => \E c \in S : parent[c] \notin S

(* A context whose values were altered since its file was read or written  *)
(* is marked as changed (eda_config_is_changed) as soon as all signals are *)
(* delivered, even if a handler saved it and altered it again while the    *)
(* signal was under way.                                                   *)
AlteredIsMarked == Idle => altered \subseteq changed

(* Every Scheme procedure connected to a context is called after the last  *)
(* time that the context was set: one that was called earlier in an        *)
(* emission is called again if a later one sets another value.             *)
HandlersSeeTheLast == Idle => untold = {}

\* All handlers were called for the outermost emission.
Delivered == Len(emissions) = 1 /\ ~Top.in_proc /\ ~Top.restart /\ Top.todo = {}

(* A set parameter is announced in every context that inherits it from     *)
(* there, unless inheritance was changed meanwhile, or a handler set       *)
(* something in a context that was just emitting.                          *)
EventsFlowDown == Delivered /\ ~absorbed => owed = {}

(* "configuration events flow down the configuration tree, from the context*)
(* where the parameter was altered to any child contexts which inherit that*)
(* parameter's value" (docs/specifications/config-api.txt).                *)
EventsAlwaysFlowDown == Delivered => owed = {}
=============================================================================
