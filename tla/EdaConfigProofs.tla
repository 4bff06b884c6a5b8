--------------------------- MODULE EdaConfigProofs ---------------------------
(* Proofs of the properties of EdaConfig, for all contexts, parameters and *)
(* procedures.                                                             *)
EXTENDS EdaConfig, SequenceTheorems, TLAPS

-----------------------------------------------------------------------------
(* The invariant.                                                          *)

\* A context that does not exist inherits from nothing.
Uncreated == \A c \in Contexts \ contexts : parent[c] = NoContext

\* Each emission calls what is connected, and no context emits twice.
Calling ==
  /\ \A i, j \in DOMAIN emissions : emissions[i].context = emissions[j].context => i = j
  /\ \A i \in DOMAIN emissions : /\ emissions[i].context \in contexts
                                 /\ emissions[i].todo \subseteq handlers[emissions[i].context]

Restarting(c) == \E i \in DOMAIN emissions : emissions[i].context = c /\ emissions[i].restart

\* The flag of an altered context is set, or will be when its emission restarts.
Marked == \A c \in altered : c \in changed \/ Restarting(c)

WillCall(c, h) ==
  \E i \in DOMAIN emissions :
    emissions[i].context = c /\ (emissions[i].restart \/ h \in emissions[i].todo)

\* Procedures that have not seen a change will still be called.
Seen == \A u \in untold : u[2] \in handlers[u[1]] /\ WillCall(u[1], u[2])

\* S contains the children that will hear of p.
ToldDirectly(S, p) ==
  \A i \in DOMAIN emissions : emissions[i].param = p =>
    \A y \in emissions[i].todo \cap Contexts : p \notin keyfile[y] => y \in S

\* What is owed will be told to a child, and passed on from there.
Owed ==
  /\ Idle => owed = {} /\ ~absorbed
  /\ ~absorbed => \A c \in Contexts : ~Restarting(c)
  /\ ~absorbed => \A o \in owed : \A S \in SUBSET Contexts :
       ToldDirectly(S, o[2]) /\ PassedOn(S, o[2]) => o[1] \in S

Listening == \A c \in Contexts : \A x \in Contexts : x \in handlers[c] <=> parent[x] = c

Inv == TypeOK /\ Uncreated /\ NoLoops /\ Listening /\ Calling /\ Marked /\ Seen /\ Owed

-----------------------------------------------------------------------------
(* The stack of emissions.                                                 *)

(* Replacing the innermost emission.                                       *)
LEMMA ReplaceTop ==
  ASSUME NEW E, NEW s \in Seq(E), s # << >>, NEW e \in E
  PROVE  LET t == [s EXCEPT ![Len(s)] = e]
         IN  /\ t \in Seq(E) /\ t # << >>
             /\ DOMAIN t = DOMAIN s /\ Len(t) = Len(s)
             /\ Len(s) \in DOMAIN s /\ t[Len(s)] = e
             /\ \A i \in DOMAIN s : i # Len(s) => t[i] = s[i]
OBVIOUS

(* Pushing an emission.                                                    *)
LEMMA Push ==
  ASSUME NEW E, NEW s \in Seq(E), NEW e \in E
  PROVE  LET t == Append(s, e)
         IN  /\ t \in Seq(E) /\ t # << >>
             /\ DOMAIN t = DOMAIN s \cup {Len(s) + 1} /\ Len(s) + 1 \notin DOMAIN s
             /\ t[Len(s) + 1] = e
             /\ \A i \in DOMAIN s : t[i] = s[i]
OBVIOUS

(* Ending the innermost emission.                                          *)
LEMMA Pop ==
  ASSUME NEW E, NEW s \in Seq(E), s # << >>
  PROVE  LET t == SubSeq(s, 1, Len(s) - 1)
         IN  /\ t \in Seq(E) /\ (t = << >> <=> Len(s) = 1)
             /\ DOMAIN t = DOMAIN s \ {Len(s)} /\ Len(s) \in DOMAIN s
             /\ \A i \in DOMAIN t : t[i] = s[i]
<1> DEFINE t == SubSeq(s, 1, Len(s) - 1)
<1>1. Len(s) \in Nat \ {0} /\ DOMAIN s = 1..Len(s)
  OBVIOUS
<1>2. t \in Seq(E) /\ Len(t) = Len(s) - 1 /\ DOMAIN t = 1..(Len(s) - 1)
  BY <1>1
<1>3. \A i \in 1..(Len(s) - 1) : t[i] = s[i]
  BY <1>1
<1> HIDE DEF t
<1>4. t = << >> <=> Len(t) = 0
  BY <1>2, EmptySeq
<1>5. Len(s) - 1 = 0 <=> Len(s) = 1
  BY <1>1
<1>6. 1..(Len(s) - 1) = (1..Len(s)) \ {Len(s)} /\ Len(s) \in 1..Len(s)
  BY <1>1
<1>7. /\ t \in Seq(E) /\ (t = << >> <=> Len(s) = 1)
      /\ DOMAIN t = DOMAIN s \ {Len(s)} /\ Len(s) \in DOMAIN s
      /\ \A i \in DOMAIN t : t[i] = s[i]
  BY <1>1, <1>2, <1>3, <1>4, <1>5, <1>6
<1> QED BY <1>7 DEF t

(* Changing every emission.                                                *)
LEMMA ChangeEach ==
  ASSUME NEW E, NEW s \in Seq(E), NEW f \in [DOMAIN s -> E]
  PROVE  /\ f \in Seq(E) /\ DOMAIN f = DOMAIN s /\ Len(f) = Len(s)
         /\ f = << >> <=> s = << >>
<1>1. /\ Len(s) \in Nat /\ DOMAIN s = 1..Len(s)
  OBVIOUS
<1>2. f \in [1..Len(s) -> E]
  BY <1>1
<1>3. f \in Seq(E) /\ Len(f) = Len(s)
  BY <1>1, <1>2
<1> QED BY <1>1, <1>3
LEMMA TopIsEmission ==
  ASSUME TypeOK, ~Idle
  PROVE  /\ Len(emissions) \in DOMAIN emissions
         /\ Top \in Emission /\ Top = emissions[Len(emissions)]
BY DEF TypeOK, Idle, Top

-----------------------------------------------------------------------------
(* Steps that only change the innermost emission.                          *)

LEMMA ProcReturnsStep == ASSUME Inv, ProcReturns PROVE Inv'
<1> DEFINE n == Len(emissions)
           e == [Top EXCEPT !.in_proc = FALSE]
<1>1. TypeOK /\ ~Idle
  BY DEF Inv, ProcReturns
<1>2. n \in DOMAIN emissions /\ Top \in Emission /\ Top = emissions[n]
  BY <1>1, TopIsEmission
<1>3. /\ e \in Emission /\ e.context = Top.context /\ e.param = Top.param
      /\ e.todo = Top.todo /\ e.restart = Top.restart
  BY <1>2 DEF Emission
<1>4. emissions' = [emissions EXCEPT ![n] = e]
  BY DEF ProcReturns, WithTop
<1>5. /\ emissions' \in Seq(Emission) /\ emissions' # << >>
      /\ DOMAIN emissions' = DOMAIN emissions
      /\ emissions'[n] = e /\ \A i \in DOMAIN emissions : i # n => emissions'[i] = emissions[i]
  BY <1>1, <1>3, <1>4, ReplaceTop DEF TypeOK, Idle
<1>6. \A i \in DOMAIN emissions : /\ emissions'[i].context = emissions[i].context
                                  /\ emissions'[i].param = emissions[i].param
                                  /\ emissions'[i].todo = emissions[i].todo
                                  /\ emissions'[i].restart = emissions[i].restart
  BY <1>2, <1>3, <1>5
<1>7. UNCHANGED <<contexts, keyfile, changed, parent, handlers, altered, untold, owed, absorbed>>
  BY DEF ProcReturns
<1> HIDE DEF n, e
<1>8. TypeOK'
  BY <1>5, <1>7 DEF Inv, TypeOK
<1>9. Uncreated' /\ NoLoops' /\ Listening'
  BY <1>7 DEF Inv, Uncreated, NoLoops, Listening
<1>10. Calling'
  BY <1>5, <1>6, <1>7 DEF Inv, Calling
<1>11. \A c : Restarting(c)' <=> Restarting(c)
  BY <1>5, <1>6 DEF Restarting
<1>12. Marked'
  BY <1>7, <1>11 DEF Inv, Marked
<1>13. Seen'
  BY <1>5, <1>6, <1>7 DEF Inv, Seen, WillCall
<1>14. \A S, p : ToldDirectly(S, p)' => ToldDirectly(S, p)
  BY <1>5, <1>6, <1>7 DEF ToldDirectly
<1>15. \A S, p : PassedOn(S, p)' <=> PassedOn(S, p)
  BY <1>7 DEF PassedOn
<1>16. Owed'
  BY <1>1, <1>5, <1>7, <1>11, <1>14, <1>15 DEF Inv, Owed, Idle
<1> QED BY <1>8, <1>9, <1>10, <1>12, <1>13, <1>16 DEF Inv

LEMMA CallProcStep == ASSUME Inv, NEW h \in Procs, CallProc(h) PROVE Inv'
<1> DEFINE n == Len(emissions)
           e == [Top EXCEPT !.todo = @ \ {h}, !.in_proc = TRUE]
<1>1. TypeOK /\ ~Idle /\ h \in Top.todo /\ ~Top.restart
  BY DEF Inv, CallProc, Calls
<1>2. n \in DOMAIN emissions /\ Top \in Emission /\ Top = emissions[n]
  BY <1>1, TopIsEmission
<1>3. /\ e \in Emission /\ e.context = Top.context /\ e.param = Top.param
      /\ e.todo = Top.todo \ {h} /\ e.restart = Top.restart
  BY <1>2 DEF Emission
<1>4. emissions' = [emissions EXCEPT ![n] = e]
  BY DEF CallProc, WithTop, Called
<1>5. /\ emissions' \in Seq(Emission) /\ emissions' # << >>
      /\ DOMAIN emissions' = DOMAIN emissions
      /\ emissions'[n] = e /\ \A i \in DOMAIN emissions : i # n => emissions'[i] = emissions[i]
  BY <1>1, <1>3, <1>4, ReplaceTop DEF TypeOK, Idle
<1>6. \A i \in DOMAIN emissions : /\ emissions'[i].context = emissions[i].context
                                  /\ emissions'[i].param = emissions[i].param
                                  /\ emissions'[i].todo = IF i = n THEN emissions[i].todo \ {h}
                                                          ELSE emissions[i].todo
                                  /\ emissions'[i].restart = emissions[i].restart
  BY <1>2, <1>3, <1>5
<1>7. /\ UNCHANGED <<contexts, keyfile, changed, parent, handlers, altered, owed, absorbed>>
      /\ untold' = untold \ {<<Top.context, h>>}
  BY DEF CallProc
<1> HIDE DEF n, e
<1>8. TypeOK'
  BY <1>5, <1>7 DEF Inv, TypeOK
<1>9. Uncreated' /\ NoLoops' /\ Listening'
  BY <1>7 DEF Inv, Uncreated, NoLoops, Listening
<1>10. Calling'
  BY <1>5, <1>6, <1>7 DEF Inv, Calling
<1>11. \A c : Restarting(c)' <=> Restarting(c)
  BY <1>5, <1>6 DEF Restarting
<1>12. Marked'
  BY <1>7, <1>11 DEF Inv, Marked
<1>13. ASSUME NEW u \in untold'
       PROVE  u[2] \in handlers'[u[1]] /\ WillCall(u[1], u[2])'
  <2>1. u \in untold /\ u \in contexts \X Procs /\ u # <<Top.context, h>>
    BY <1>1, <1>7 DEF TypeOK
  <2>2. u = <<u[1], u[2]>>
    BY <2>1
  <2>3. PICK i \in DOMAIN emissions : /\ emissions[i].context = u[1]
                                      /\ emissions[i].restart \/ u[2] \in emissions[i].todo
    BY <2>1 DEF Inv, Seen, WillCall
  <2>4. emissions'[i].restart \/ u[2] \in emissions'[i].todo
    BY <1>2, <1>6, <2>1, <2>2, <2>3
  <2> QED BY <1>5, <1>6, <1>7, <2>1, <2>3, <2>4 DEF Inv, Seen, WillCall
<1>14. \A S, p : ToldDirectly(S, p)' => ToldDirectly(S, p)
  <2>1. h \notin Contexts
    BY ConfigAssumption
  <2> QED BY <1>5, <1>6, <1>7, <2>1 DEF ToldDirectly
<1>15. \A S, p : PassedOn(S, p)' <=> PassedOn(S, p)
  BY <1>7 DEF PassedOn
<1>16. Owed'
  BY <1>1, <1>5, <1>7, <1>11, <1>14, <1>15 DEF Inv, Owed, Idle
<1>17. Seen'
  BY <1>13 DEF Seen
<1> QED BY <1>8, <1>9, <1>10, <1>12, <1>17, <1>16 DEF Inv

LEMMA RestartStep == ASSUME Inv, Restart PROVE Inv'
<1> DEFINE n == Len(emissions)
           c == Top.context
           e == [Top EXCEPT !.restart = FALSE, !.todo = handlers[c]]
<1>1. TypeOK /\ ~Idle /\ Top.restart
  BY DEF Inv, Restart
<1>2. n \in DOMAIN emissions /\ Top \in Emission /\ Top = emissions[n]
  BY <1>1, TopIsEmission
<1>3. c \in contexts /\ handlers[c] \subseteq Handlers
  BY <1>1, <1>2 DEF Inv, TypeOK, Calling, Handlers
<1>4. /\ e \in Emission /\ e.context = c /\ e.param = Top.param
      /\ e.todo = handlers[c] /\ e.restart = FALSE
  BY <1>2, <1>3 DEF Emission
<1>5. /\ emissions' = [emissions EXCEPT ![n] = e] /\ changed' = changed \cup {c}
      /\ owed' \subseteq owed
      /\ UNCHANGED <<contexts, keyfile, parent, handlers, altered, untold, absorbed>>
  BY DEF Restart, WithTop
<1>6. /\ emissions' \in Seq(Emission) /\ emissions' # << >>
      /\ DOMAIN emissions' = DOMAIN emissions
      /\ emissions'[n] = e /\ \A i \in DOMAIN emissions : i # n => emissions'[i] = emissions[i]
  BY <1>1, <1>4, <1>5, ReplaceTop DEF TypeOK, Idle
<1>7. \A i \in DOMAIN emissions : emissions'[i].context = emissions[i].context
  BY <1>2, <1>4, <1>6
<1>8. emissions'[n].todo = handlers[c] /\ emissions[n].context = c
  BY <1>2, <1>4, <1>6
<1>9. absorbed
  BY <1>1, <1>2, <1>3 DEF Inv, Owed, Restarting, TypeOK
<1> HIDE DEF n, e
<1>10. TypeOK'
  BY <1>3, <1>5, <1>6 DEF Inv, TypeOK
<1>11. Uncreated' /\ NoLoops' /\ Listening'
  BY <1>5 DEF Inv, Uncreated, NoLoops, Listening
<1>12. Calling'
  BY <1>5, <1>6, <1>7, <1>8 DEF Inv, Calling
<1>13. ASSUME NEW b \in altered
       PROVE  b \in changed' \/ Restarting(b)'
  <2>1. CASE b = c
    BY <2>1, <1>5
  <2>2. CASE b # c
    BY <2>2, <1>5, <1>6, <1>8 DEF Inv, Marked, Restarting
  <2> QED BY <2>1, <2>2
<1>14. ASSUME NEW u \in untold
       PROVE  u[2] \in handlers[u[1]] /\ WillCall(u[1], u[2])'
  <2>1. u[2] \in handlers[u[1]]
    BY DEF Inv, Seen
  <2>2. PICK i \in DOMAIN emissions : /\ emissions[i].context = u[1]
                                      /\ emissions[i].restart \/ u[2] \in emissions[i].todo
    BY DEF Inv, Seen, WillCall
  <2>3. CASE i = n
    BY <2>1, <2>2, <2>3, <1>6, <1>7, <1>8 DEF WillCall
  <2>4. CASE i # n
    BY <2>1, <2>2, <2>4, <1>6 DEF WillCall
  <2> QED BY <2>1, <2>3, <2>4
<1>15. Marked' /\ Seen'
  BY <1>5, <1>13, <1>14 DEF Marked, Seen
<1>16. Owed'
  BY <1>5, <1>6, <1>9 DEF Owed, Idle
<1> QED BY <1>10, <1>11, <1>12, <1>15, <1>16 DEF Inv

-----------------------------------------------------------------------------
(* Steps that push or end an emission.                                     *)

LEMMA EmissionEndsStep == ASSUME Inv, EmissionEnds PROVE Inv'
<1> DEFINE n == Len(emissions)
<1>1. TypeOK /\ ~Idle /\ Top.todo = {} /\ ~Top.restart
  BY DEF Inv, EmissionEnds
<1>2. n \in DOMAIN emissions /\ Top \in Emission /\ Top = emissions[n]
  BY <1>1, TopIsEmission
<1>3. /\ emissions' = SubSeq(emissions, 1, n - 1)
      /\ UNCHANGED <<contexts, keyfile, changed, parent, handlers, altered, untold>>
      /\ IF n = 1 THEN owed' = {} /\ absorbed' = FALSE ELSE UNCHANGED <<owed, absorbed>>
  BY DEF EmissionEnds
<1>4. /\ emissions' \in Seq(Emission) /\ (emissions' = << >> <=> n = 1)
      /\ DOMAIN emissions' = DOMAIN emissions \ {n}
      /\ \A i \in DOMAIN emissions' : emissions'[i] = emissions[i]
  BY <1>1, <1>3, Pop DEF TypeOK, Idle
<1> HIDE DEF n
<1>5. TypeOK'
  BY <1>3, <1>4 DEF Inv, TypeOK
<1>6. Uncreated' /\ NoLoops' /\ Listening'
  BY <1>3 DEF Inv, Uncreated, NoLoops, Listening
<1>7. Calling'
  BY <1>3, <1>4 DEF Inv, Calling
<1>8. Marked'
  BY <1>1, <1>2, <1>3, <1>4 DEF Inv, Marked, Restarting
<1>9. Seen'
  BY <1>1, <1>2, <1>3, <1>4 DEF Inv, Seen, WillCall
<1>10. Owed'
  <2>1. CASE n = 1
    <3>1. emissions' = << >> /\ owed' = {} /\ absorbed' = FALSE
      BY <2>1, <1>3, <1>4
    <3> QED BY <3>1 DEF Owed, Restarting
  <2>2. CASE n # 1
    <3>1. emissions' # << >> /\ UNCHANGED <<owed, absorbed>>
      BY <2>2, <1>3, <1>4
    <3>2. \A c : Restarting(c)' => Restarting(c)
      BY <1>4 DEF Restarting
    <3>3. \A S, p : ToldDirectly(S, p)' => ToldDirectly(S, p)
      BY <1>1, <1>2, <1>3, <1>4 DEF ToldDirectly
    <3>4. \A S, p : PassedOn(S, p)' <=> PassedOn(S, p)
      BY <1>3 DEF PassedOn
    <3> QED BY <3>1, <3>2, <3>3, <3>4 DEF Inv, Owed, Idle
  <2> QED BY <2>1, <2>2
<1> QED BY <1>5, <1>6, <1>7, <1>8, <1>9, <1>10 DEF Inv

(* Emitting on a context that is not emitting pushes an emission.          *)
LEMMA EmitPushes ==
  ASSUME NEW s \in Seq(Emission), NEW c \in Contexts, NEW p \in Params,
         handlers[c] \subseteq Handlers,
         \A i \in DOMAIN s : s[i].context # c, Emit(c, p, s)
  PROVE  /\ changed' = changed \cup {c}
         /\ emissions' \in Seq(Emission) /\ emissions' # << >>
         /\ DOMAIN emissions' = DOMAIN s \cup {Len(s) + 1} /\ Len(s) + 1 \notin DOMAIN s
         /\ \A i \in DOMAIN s : emissions'[i] = s[i]
         /\ emissions'[Len(s) + 1].context = c /\ emissions'[Len(s) + 1].param = p
         /\ emissions'[Len(s) + 1].todo = handlers[c] /\ ~emissions'[Len(s) + 1].restart
<1> DEFINE e == [context |-> c, param |-> p, todo |-> handlers[c],
                 restart |-> FALSE, in_proc |-> FALSE]
<1>1. e \in Emission
  BY DEF Emission
<1>2. emissions' = Append(s, e) /\ changed' = changed \cup {c}
  BY DEF Emit
<1> HIDE DEF e
<1>3. /\ emissions' \in Seq(Emission) /\ emissions' # << >>
      /\ DOMAIN emissions' = DOMAIN s \cup {Len(s) + 1} /\ Len(s) + 1 \notin DOMAIN s
      /\ \A i \in DOMAIN s : emissions'[i] = s[i]
      /\ emissions'[Len(s) + 1] = e
  BY <1>1, <1>2, Push
<1> QED BY <1>2, <1>3 DEF e

(* Emitting on a context that is emitting restarts its emission.           *)
LEMMA EmitRestarts ==
  ASSUME NEW s \in Seq(Emission), NEW c \in Contexts, NEW p \in Params,
         \E i \in DOMAIN s : s[i].context = c, Emit(c, p, s)
  PROVE  /\ changed' = changed
         /\ emissions' \in Seq(Emission) /\ (emissions' = << >> <=> s = << >>)
         /\ DOMAIN emissions' = DOMAIN s
         /\ \A i \in DOMAIN s : /\ emissions'[i].context = s[i].context
                                /\ emissions'[i].param = s[i].param
                                /\ emissions'[i].todo = s[i].todo
                                /\ emissions'[i].restart = (s[i].restart \/ s[i].context = c)
<1> DEFINE f == [i \in DOMAIN s |-> [s[i] EXCEPT !.restart = @ \/ s[i].context = c]]
<1>1. emissions' = f /\ changed' = changed
  BY DEF Emit
<1>2. \A i \in DOMAIN s : s[i] \in Emission
  OBVIOUS
<1>3. \A i \in DOMAIN s : /\ f[i] \in Emission
                          /\ f[i].context = s[i].context
                          /\ f[i].param = s[i].param
                          /\ f[i].todo = s[i].todo
                          /\ f[i].restart = (s[i].restart \/ s[i].context = c)
  BY <1>2 DEF Emission
<1>4. f \in [DOMAIN s -> Emission]
  BY <1>3
<1> HIDE DEF f
<1>5. f \in Seq(Emission) /\ DOMAIN f = DOMAIN s /\ (f = << >> <=> s = << >>)
  BY <1>4, ChangeEach
<1> QED BY <1>1, <1>3, <1>5

LEMMA CallChildStep == ASSUME Inv, NEW x \in Contexts, CallChild(x) PROVE Inv'
<1> DEFINE n == Len(emissions)
           e == [Top EXCEPT !.todo = @ \ {x}, !.in_proc = FALSE]
           s == Called(x, FALSE)
           p == Top.param
<1>1. TypeOK /\ ~Idle /\ x \in Top.todo /\ ~Top.restart
  BY DEF Inv, CallChild, Calls
<1>2. n \in DOMAIN emissions /\ Top \in Emission /\ Top = emissions[n]
  BY <1>1, TopIsEmission
<1>3. /\ e \in Emission /\ e.context = Top.context /\ e.param = p
      /\ e.todo = Top.todo \ {x} /\ e.restart = Top.restart
  BY <1>2 DEF Emission
<1>4. s = [emissions EXCEPT ![n] = e]
  BY DEF WithTop, Called
<1> HIDE DEF e, s
<1>5. /\ s \in Seq(Emission) /\ s # << >> /\ DOMAIN s = DOMAIN emissions /\ Len(s) = n
      /\ s[n] = e /\ \A i \in DOMAIN emissions : i # n => s[i] = emissions[i]
  BY <1>1, <1>3, <1>4, ReplaceTop DEF TypeOK, Idle
<1>6. \A i \in DOMAIN emissions : /\ s[i].context = emissions[i].context
                                  /\ s[i].param = emissions[i].param
                                  /\ s[i].todo = IF i = n THEN emissions[i].todo \ {x}
                                                 ELSE emissions[i].todo
                                  /\ s[i].restart = emissions[i].restart
  BY <1>2, <1>3, <1>5
<1>7. UNCHANGED <<contexts, keyfile, parent, handlers, altered, untold>>
  BY DEF CallChild
<1>8. p \in Params /\ emissions[n].param = p
  BY <1>2 DEF Emission
<1>9. x \notin Procs /\ x \in contexts /\ handlers[x] \subseteq contexts \cup Procs
      /\ handlers[x] \subseteq Handlers
  BY <1>1, <1>2, ConfigAssumption DEF Inv, TypeOK, Calling, Handlers
<1>10. Uncreated' /\ NoLoops' /\ Listening'
  BY <1>7 DEF Inv, Uncreated, NoLoops, Listening
<1>11. \A u \in untold : u[2] \in handlers[u[1]] /\ u[2] # x
  BY <1>1, <1>9 DEF Inv, Seen, TypeOK
<1>12. \A S, q : PassedOn(S, q)' <=> PassedOn(S, q)
  BY <1>7 DEF PassedOn
<1>13. ASSUME NEW u \in untold
       PROVE  /\ u[2] \in handlers[u[1]]
              /\ \E i \in DOMAIN s :
                   s[i].context = u[1] /\ (s[i].restart \/ u[2] \in s[i].todo)
  <2>1. PICK i \in DOMAIN emissions : /\ emissions[i].context = u[1]
                                      /\ emissions[i].restart \/ u[2] \in emissions[i].todo
    BY DEF Inv, Seen, WillCall
  <2>2. i \in DOMAIN s /\ s[i].context = u[1] /\ (s[i].restart \/ u[2] \in s[i].todo)
    BY <2>1, <1>5, <1>6, <1>11
  <2> QED BY <2>2, <1>11
<1>14. /\ \A i, j \in DOMAIN s : s[i].context = s[j].context => i = j
       /\ \A i \in DOMAIN s : /\ s[i].context \in contexts
                              /\ s[i].todo \subseteq handlers[s[i].context]
  <2>1. \A i \in DOMAIN s : s[i].todo \subseteq emissions[i].todo
    BY <1>5, <1>6
  <2> QED BY <2>1, <1>5, <1>6 DEF Inv, Calling
<1>15. CASE p \in keyfile[x]
  <2>1. emissions' = s /\ UNCHANGED <<changed, owed, absorbed>>
    BY <1>15 DEF CallChild, s, p
  <2> HIDE DEF n, e, s, p
  <2>2. TypeOK'
    BY <1>5, <1>7, <2>1 DEF Inv, TypeOK
  <2>3. Calling'
    BY <1>5, <1>7, <1>14, <2>1 DEF Calling
  <2>4. \A c : Restarting(c)' <=> Restarting(c)
    BY <1>5, <1>6, <2>1 DEF Restarting
  <2>5. Marked'
    BY <1>7, <2>1, <2>4 DEF Inv, Marked
  <2>6. Seen'
    <3>1. ASSUME NEW u \in untold
          PROVE  u[2] \in handlers'[u[1]] /\ WillCall(u[1], u[2])'
      <4>1. PICK i \in DOMAIN s : s[i].context = u[1] /\ (s[i].restart \/ u[2] \in s[i].todo)
        BY <1>13
      <4>2. /\ i \in DOMAIN emissions' /\ emissions'[i].context = u[1]
            /\ emissions'[i].restart \/ u[2] \in emissions'[i].todo
        BY <4>1, <1>5, <2>1
      <4> QED BY <4>2, <1>7, <1>13 DEF WillCall
    <3> QED BY <3>1, <1>7 DEF Seen
  <2>7. \A S, q : ToldDirectly(S, q)' => ToldDirectly(S, q)
    <3> SUFFICES ASSUME NEW S, NEW q, ToldDirectly(S, q)', NEW i \in DOMAIN emissions,
                        emissions[i].param = q, NEW y \in emissions[i].todo \cap Contexts,
                        q \notin keyfile[y]
                 PROVE  y \in S
      BY DEF ToldDirectly
    <3>1. i = n => q = p
      BY <1>8
    <3>2. i = n => y # x
      BY <3>1, <1>15
    <3>3. y \in s[i].todo /\ s[i].param = q
      BY <3>2, <1>6
    <3> QED BY <3>3, <1>5, <1>7, <2>1 DEF ToldDirectly
  <2>8. Owed'
    BY <1>1, <1>5, <1>12, <2>1, <2>4, <2>7 DEF Inv, Owed, Idle
  <2> QED BY <1>10, <2>2, <2>3, <2>5, <2>6, <2>8 DEF Inv
<1>16. CASE p \notin keyfile[x] /\ ~Emitting(x)
  <2>1. /\ Emit(x, p, s) /\ owed' = owed \ {<<x, p>>} /\ absorbed' = absorbed
    BY <1>1, <1>16 DEF CallChild, TypeOK, s, p
  <2> HIDE DEF n, e, s, p
  <2>2. ~\E i \in DOMAIN s : s[i].context = x
    BY <1>5, <1>6, <1>16 DEF Emitting
  <2> DEFINE m == Len(s) + 1
  <2>3. /\ changed' = changed \cup {x}
        /\ emissions' \in Seq(Emission) /\ emissions' # << >>
        /\ DOMAIN emissions' = DOMAIN s \cup {m} /\ m \notin DOMAIN s
        /\ \A i \in DOMAIN s : emissions'[i] = s[i]
        /\ emissions'[m].context = x /\ emissions'[m].param = p
        /\ emissions'[m].todo = handlers[x] /\ ~emissions'[m].restart
    <3>1. /\ s \in Seq(Emission) /\ handlers[x] \subseteq Handlers /\ p \in Params
          /\ \A i \in DOMAIN s : s[i].context # x
          /\ Emit(x, p, s)
      BY <1>5, <1>8, <1>9, <2>1, <2>2
    <3> QED BY <3>1, EmitPushes DEF m
  <2> HIDE DEF m
  <2>5. TypeOK'
    BY <1>7, <1>9, <2>1, <2>3 DEF Inv, TypeOK
  <2>6. Calling'
    <3>1. ASSUME NEW i \in DOMAIN emissions', NEW j \in DOMAIN emissions',
                 emissions'[i].context = emissions'[j].context
          PROVE  i = j
      BY <3>1, <1>14, <2>2, <2>3
    <3>2. ASSUME NEW i \in DOMAIN emissions'
          PROVE  /\ emissions'[i].context \in contexts'
                 /\ emissions'[i].todo \subseteq handlers'[emissions'[i].context]
      BY <1>7, <1>9, <1>14, <2>3
    <3> QED BY <3>1, <3>2 DEF Calling
  <2>7. \A c : Restarting(c)' <=> Restarting(c)
    <3>1. \A i \in DOMAIN emissions : /\ i \in DOMAIN emissions' /\ i # m
                                      /\ emissions'[i].context = emissions[i].context
                                      /\ emissions'[i].restart = emissions[i].restart
      BY <1>5, <1>6, <2>3
    <3>2. \A i \in DOMAIN emissions' : i = m \/ i \in DOMAIN emissions
      BY <1>5, <2>3
    <3> QED BY <2>3, <3>1, <3>2 DEF Restarting
  <2>8. Marked'
    BY <1>7, <2>3, <2>7 DEF Inv, Marked
  <2>9. Seen'
    <3>1. ASSUME NEW u \in untold
          PROVE  u[2] \in handlers'[u[1]] /\ WillCall(u[1], u[2])'
      <4>1. PICK i \in DOMAIN s : s[i].context = u[1] /\ (s[i].restart \/ u[2] \in s[i].todo)
        BY <1>13
      <4>2. /\ i \in DOMAIN emissions' /\ emissions'[i].context = u[1]
            /\ emissions'[i].restart \/ u[2] \in emissions'[i].todo
        BY <4>1, <2>3
      <4> QED BY <4>2, <1>7, <1>13 DEF WillCall
    <3> QED BY <3>1, <1>7 DEF Seen
  <2>10. ASSUME NEW o \in owed', ~absorbed', NEW S \in SUBSET Contexts,
                ToldDirectly(S, o[2])', PassedOn(S, o[2])'
         PROVE  o[1] \in S
    <3> DEFINE R == IF o[2] = p THEN S \cup {x} ELSE S
    <3>1. ToldDirectly(R, o[2])
      <4> SUFFICES ASSUME NEW i \in DOMAIN emissions, emissions[i].param = o[2],
                          NEW y \in emissions[i].todo \cap Contexts, o[2] \notin keyfile[y]
                   PROVE  y \in R
        BY DEF ToldDirectly
      <4>1. CASE i = n /\ y = x
        BY <4>1, <1>8
      <4>2. CASE ~(i = n /\ y = x)
        <5>1. y \in s[i].todo /\ s[i].param = o[2] /\ i \in DOMAIN s
          BY <4>2, <1>5, <1>6
        <5>2. y \in S
          BY <5>1, <1>7, <2>3, <2>10 DEF ToldDirectly
        <5> QED BY <5>2
      <4> QED BY <4>1, <4>2
    <3>2. PassedOn(R, o[2])
      <4> SUFFICES ASSUME NEW y \in contexts, parent[y] \in R, o[2] \notin keyfile[y]
                   PROVE  y \in R
        BY DEF PassedOn
      <4>1. CASE parent[y] \in S
        BY <4>1, <1>7, <2>10 DEF PassedOn
      <4>2. CASE parent[y] \notin S
        <5>1. o[2] = p /\ parent[y] = x
          BY <4>2
        <5>2. y \in handlers[x] /\ y \in Contexts
          BY <5>1, <1>1 DEF Inv, Listening, TypeOK
        <5>3. y \in S
          BY <5>1, <5>2, <1>7, <2>3, <2>10 DEF ToldDirectly
        <5> QED BY <5>3
      <4> QED BY <4>1, <4>2
    <3>3. R \in SUBSET Contexts
      OBVIOUS
    <3>4. o \in owed /\ o # <<x, p>> /\ o = <<o[1], o[2]>> /\ ~absorbed
      BY <1>1, <2>1, <2>10 DEF TypeOK
    <3>5. o[1] \in R
      BY <3>1, <3>2, <3>3, <3>4 DEF Inv, Owed
    <3> QED BY <3>4, <3>5
  <2>11. ~Idle'
    BY <2>3 DEF Idle
  <2>12. ~absorbed' => \A c \in Contexts : ~Restarting(c)'
    BY <2>1, <2>7 DEF Inv, Owed
  <2>13. Owed'
    BY <2>10, <2>11, <2>12 DEF Owed
  <2> QED BY <1>10, <2>5, <2>6, <2>8, <2>9, <2>13 DEF Inv
<1>17. CASE p \notin keyfile[x] /\ Emitting(x)
  <2>1. /\ Emit(x, p, s) /\ owed' = owed /\ absorbed' = TRUE
    BY <1>1, <1>17 DEF CallChild, TypeOK, s, p
  <2> HIDE DEF n, e, s, p
  <2>2. \E i \in DOMAIN s : s[i].context = x
    BY <1>5, <1>6, <1>17 DEF Emitting
  <2>3. /\ changed' = changed
        /\ emissions' \in Seq(Emission) /\ (emissions' = << >> <=> s = << >>)
        /\ DOMAIN emissions' = DOMAIN s
        /\ \A i \in DOMAIN s : /\ emissions'[i].context = s[i].context
                               /\ emissions'[i].param = s[i].param
                               /\ emissions'[i].todo = s[i].todo
                               /\ emissions'[i].restart = (s[i].restart \/ s[i].context = x)
    BY <1>5, <1>8, <2>1, <2>2, EmitRestarts
  <2>4. TypeOK'
    BY <1>7, <2>1, <2>3 DEF Inv, TypeOK
  <2>5. Calling'
    BY <1>7, <1>14, <2>3 DEF Calling
  <2>6. \A c : Restarting(c) => Restarting(c)'
    BY <1>5, <1>6, <2>3 DEF Restarting
  <2>7. Marked'
    BY <1>7, <2>3, <2>6 DEF Inv, Marked
  <2>8. Seen'
    <3>1. ASSUME NEW u \in untold
          PROVE  u[2] \in handlers'[u[1]] /\ WillCall(u[1], u[2])'
      <4>1. PICK i \in DOMAIN s : s[i].context = u[1] /\ (s[i].restart \/ u[2] \in s[i].todo)
        BY <1>13
      <4>2. /\ i \in DOMAIN emissions' /\ emissions'[i].context = u[1]
            /\ emissions'[i].restart \/ u[2] \in emissions'[i].todo
        BY <4>1, <2>3
      <4> QED BY <4>2, <1>7, <1>13 DEF WillCall
    <3> QED BY <3>1, <1>7 DEF Seen
  <2>9. Owed'
    BY <1>5, <2>1, <2>3 DEF Owed, Idle
  <2> QED BY <1>10, <2>4, <2>5, <2>7, <2>8, <2>9 DEF Inv
<1> QED BY <1>15, <1>16, <1>17

-----------------------------------------------------------------------------
(* Setting a parameter.                                                    *)

\* S with c contains what would be told of p, if S does after c was set.
LEMMA SetToldBefore ==
  ASSUME TypeOK, Listening, NEW c \in contexts, NEW p \in Params,
         keyfile' = [keyfile EXCEPT ![c] = @ \cup {p}],
         UNCHANGED <<contexts, parent, handlers>>,
         NEW S \in SUBSET Contexts, NEW q, PassedOn(S, q)',
         q = p => handlers[c] \cap Contexts \subseteq {y \in Contexts : q \notin keyfile'[y] => y \in S}
  PROVE  PassedOn(IF q = p THEN S \cup {c} ELSE S, q)
<1>1. \A y \in Contexts : keyfile'[y] = IF y = c THEN keyfile[y] \cup {p} ELSE keyfile[y]
  BY DEF TypeOK
<1>2. CASE q = p
  <2> SUFFICES ASSUME NEW y \in contexts, parent[y] \in S \cup {c}, q \notin keyfile[y]
               PROVE  y \in S \cup {c}
    BY <1>2 DEF PassedOn
  <2>1. y \in Contexts
    BY DEF TypeOK
  <2>2. CASE y = c
    BY <2>2
  <2>3. CASE y # c /\ parent[y] \in S
    BY <2>1, <2>3, <1>1 DEF PassedOn
  <2>4. CASE y # c /\ parent[y] = c
    BY <1>1, <1>2, <2>1, <2>4 DEF Listening, TypeOK
  <2> QED BY <2>2, <2>3, <2>4
<1>3. CASE q # p
  BY <1>1, <1>3 DEF PassedOn, TypeOK
<1> QED BY <1>2, <1>3

LEMMA SetValueStep ==
  ASSUME Inv, NEW c \in Contexts, NEW p \in Params, SetValue(c, p)
  PROVE  Inv'
<1>1. TypeOK /\ Listening /\ c \in contexts /\ (Idle <=> emissions = << >>)
  BY DEF Inv, SetValue, Idle
<1>2. /\ emissions \in Seq(Emission)
      /\ handlers[c] \subseteq contexts \cup Procs /\ handlers[c] \subseteq Handlers
  BY <1>1 DEF TypeOK, Handlers
<1>3. /\ UNCHANGED <<contexts, parent, handlers>>
      /\ keyfile' = [keyfile EXCEPT ![c] = @ \cup {p}]
      /\ altered' = altered \cup {c}
      /\ untold' = untold \cup {<<c, h>> : h \in handlers[c] \cap Procs}
      /\ Emit(c, p, emissions)
  BY DEF SetValue
<1>4. Uncreated' /\ NoLoops' /\ Listening'
  BY <1>3 DEF Inv, Uncreated, NoLoops, Listening
<1>5. /\ keyfile' \in [Contexts -> SUBSET Params] /\ altered' \subseteq contexts
      /\ untold' \subseteq contexts \X Procs
      /\ \A y \in Contexts : keyfile'[y] = IF y = c THEN keyfile[y] \cup {p} ELSE keyfile[y]
  <2>1. keyfile' \in [Contexts -> SUBSET Params]
    BY <1>1, <1>3 DEF TypeOK
  <2>2. \A y \in Contexts : keyfile'[y] = IF y = c THEN keyfile[y] \cup {p} ELSE keyfile[y]
    BY <1>1, <1>3 DEF TypeOK
  <2>3. altered' \subseteq contexts
    BY <1>1, <1>3 DEF TypeOK
  <2>4. untold' \subseteq contexts \X Procs
    BY <1>1, <1>3 DEF TypeOK
  <2> QED BY <2>1, <2>2, <2>3, <2>4
<1>6. \A u \in untold' : /\ u[2] \in handlers[u[1]]
                         /\ u \in untold \/ (u[1] = c /\ u[2] \in handlers[c])
  BY <1>3 DEF Inv, Seen
<1>7. CASE ~Emitting(c)
  <2>1. \A i \in DOMAIN emissions : emissions[i].context # c
    BY <1>7 DEF Emitting
  <2>2. /\ owed' = (owed \cup {<<x, p>> : x \in Inheritors(c, p)}) \ {<<c, p>>}
        /\ absorbed' = absorbed
    BY <1>1, <1>7 DEF SetValue, TypeOK
  <2> DEFINE m == Len(emissions) + 1
  <2>3. /\ changed' = changed \cup {c}
        /\ emissions' \in Seq(Emission) /\ emissions' # << >>
        /\ DOMAIN emissions' = DOMAIN emissions \cup {m} /\ m \notin DOMAIN emissions
        /\ \A i \in DOMAIN emissions : emissions'[i] = emissions[i]
        /\ emissions'[m].context = c /\ emissions'[m].param = p
        /\ emissions'[m].todo = handlers[c] /\ ~emissions'[m].restart
    BY <1>2, <1>3, <2>1, EmitPushes DEF m
  <2> HIDE DEF m
  <2>4. Inheritors(c, p) \subseteq contexts
    BY DEF Inheritors
  <2>5. TypeOK'
    BY <1>1, <1>3, <1>5, <2>2, <2>3, <2>4 DEF TypeOK
  <2>6. Calling'
    <3>1. ASSUME NEW i \in DOMAIN emissions', NEW j \in DOMAIN emissions',
                 emissions'[i].context = emissions'[j].context
          PROVE  i = j
      BY <3>1, <2>1, <2>3 DEF Inv, Calling
    <3>2. ASSUME NEW i \in DOMAIN emissions'
          PROVE  /\ emissions'[i].context \in contexts'
                 /\ emissions'[i].todo \subseteq handlers'[emissions'[i].context]
      BY <1>1, <1>3, <2>3 DEF Inv, Calling
    <3> QED BY <3>1, <3>2 DEF Calling
  <2>7. \A b : Restarting(b)' <=> Restarting(b)
    BY <2>3 DEF Restarting
  <2>8. Marked'
    BY <1>3, <2>3, <2>7 DEF Inv, Marked
  <2>9. ASSUME NEW u \in untold'
        PROVE  u[2] \in handlers'[u[1]] /\ WillCall(u[1], u[2])'
    <3>1. CASE u \in untold
      BY <1>3, <1>6, <2>3, <3>1 DEF Inv, Seen, WillCall
    <3>2. CASE u[1] = c /\ u[2] \in handlers[c]
      <4>1. m \in DOMAIN emissions'
        BY <2>3
      <4> QED BY <4>1, <1>3, <1>6, <2>3, <3>2 DEF WillCall
    <3> QED BY <1>6, <3>1, <3>2
  <2>10. Seen'
    BY <2>9 DEF Seen
  <2>11. ASSUME NEW o \in owed', ~absorbed', NEW S \in SUBSET Contexts,
                ToldDirectly(S, o[2])', PassedOn(S, o[2])'
         PROVE  o[1] \in S
    <3> DEFINE R == IF o[2] = p THEN S \cup {c} ELSE S
    <3>1. o[2] = p => handlers[c] \cap Contexts \subseteq
                        {y \in Contexts : o[2] \notin keyfile'[y] => y \in S}
      BY <2>3, <2>11 DEF ToldDirectly
    <3>2. R \in SUBSET Contexts /\ PassedOn(R, o[2])
      <4> DEFINE q == o[2]
      <4>1. /\ PassedOn(S, q)'
            /\ q = p => handlers[c] \cap Contexts \subseteq
                          {y \in Contexts : q \notin keyfile'[y] => y \in S}
        BY <2>11, <3>1
      <4>2. keyfile' = [keyfile EXCEPT ![c] = @ \cup {p}] /\ UNCHANGED <<contexts, parent, handlers>>
        BY <1>3
      <4>3. TypeOK /\ Listening /\ c \in contexts /\ S \in SUBSET Contexts
        BY <1>1, <2>11
      <4> HIDE DEF q
      <4>4. PassedOn(IF q = p THEN S \cup {c} ELSE S, q)
        BY <4>1, <4>2, <4>3, SetToldBefore
      <4>5. PassedOn(R, o[2])
        BY <4>4 DEF q
      <4> QED BY <4>3, <4>5
    <3>3. ToldDirectly(R, o[2])
      <4> SUFFICES ASSUME NEW i \in DOMAIN emissions, emissions[i].param = o[2],
                          NEW y \in emissions[i].todo \cap Contexts, o[2] \notin keyfile[y]
                   PROVE  y \in R
        BY DEF ToldDirectly
      <4>1. y = c \/ o[2] \notin keyfile'[y]
        BY <1>5
      <4>2. i \in DOMAIN emissions' /\ emissions'[i] = emissions[i]
        BY <2>3
      <4>3. CASE o[2] \notin keyfile'[y]
        BY <4>2, <4>3, <2>11 DEF ToldDirectly
      <4>4. CASE o[2] \in keyfile'[y]
        <5>1. y = c /\ o[2] = p
          BY <4>1, <4>4, <1>5
        <5> QED BY <5>1
      <4> QED BY <4>3, <4>4
    <3>4. o[1] \in R
      <4>1. CASE o \in owed
        BY <4>1, <2>2, <2>11, <3>2, <3>3 DEF Inv, Owed
      <4>2. CASE o \notin owed
        <5>1. o[2] = p /\ o[1] \in Inheritors(c, p)
          BY <4>2, <2>2
        <5>2. c \in R /\ R \in SUBSET Contexts /\ PassedOn(R, p)
          BY <5>1, <3>2
        <5> QED BY <5>1, <5>2 DEF Inheritors
      <4> QED BY <4>1, <4>2
    <3>5. o # <<c, p>> /\ o = <<o[1], o[2]>>
      BY <1>1, <2>2 DEF TypeOK
    <3> QED BY <3>4, <3>5
  <2>12. ~absorbed' => \A b \in Contexts : ~Restarting(b)'
    BY <2>2, <2>7 DEF Inv, Owed
  <2>13. Owed'
    BY <2>3, <2>11, <2>12 DEF Owed, Idle
  <2> QED BY <1>4, <2>5, <2>6, <2>8, <2>10, <2>13 DEF Inv
<1>8. CASE Emitting(c)
  <2>1. \E i \in DOMAIN emissions : emissions[i].context = c
    BY <1>8 DEF Emitting
  <2>2. owed' = owed \cup {<<x, p>> : x \in Inheritors(c, p)} /\ absorbed' = TRUE
    BY <1>1, <1>8 DEF SetValue, TypeOK
  <2>3. /\ changed' = changed
        /\ emissions' \in Seq(Emission) /\ (emissions' = << >> <=> emissions = << >>)
        /\ DOMAIN emissions' = DOMAIN emissions
        /\ \A i \in DOMAIN emissions :
             /\ emissions'[i].context = emissions[i].context
             /\ emissions'[i].param = emissions[i].param
             /\ emissions'[i].todo = emissions[i].todo
             /\ emissions'[i].restart = (emissions[i].restart \/ emissions[i].context = c)
    BY <1>2, <1>3, <2>1, EmitRestarts
  <2>4. Inheritors(c, p) \subseteq contexts
    BY DEF Inheritors
  <2>5. TypeOK'
    BY <1>1, <1>3, <1>5, <2>2, <2>3, <2>4 DEF TypeOK
  <2>6. Calling'
    BY <1>3, <2>3 DEF Inv, Calling
  <2>7. Restarting(c)' /\ \A b : Restarting(b) => Restarting(b)'
    BY <2>1, <2>3 DEF Restarting
  <2>8. Marked'
    BY <1>3, <2>3, <2>7 DEF Inv, Marked
  <2>9. ASSUME NEW u \in untold'
        PROVE  u[2] \in handlers'[u[1]] /\ WillCall(u[1], u[2])'
    <3>1. CASE u \in untold
      <4>1. PICK i \in DOMAIN emissions :
              emissions[i].context = u[1] /\ (emissions[i].restart \/ u[2] \in emissions[i].todo)
        BY <3>1 DEF Inv, Seen, WillCall
      <4> QED BY <4>1, <1>3, <1>6, <2>3 DEF WillCall
    <3>2. CASE u[1] = c
      BY <3>2, <1>3, <1>6, <2>1, <2>3 DEF WillCall
    <3> QED BY <1>6, <3>1, <3>2
  <2>10. Seen'
    BY <2>9 DEF Seen
  <2>11. Owed'
    <3>1. emissions # << >>
      BY <2>1
    <3> QED BY <3>1, <2>2, <2>3 DEF Owed, Idle
  <2> QED BY <1>4, <2>5, <2>6, <2>8, <2>10, <2>11 DEF Inv
<1> QED BY <1>7, <1>8

-----------------------------------------------------------------------------
(* Steps that change inheritance or what is connected.                     *)

LEMMA DisconnectedIs ==
  ASSUME TypeOK, NEW x, NEW h, emissions' = Disconnected(x, h)
  PROVE  /\ emissions' \in Seq(Emission) /\ (emissions' = << >> <=> emissions = << >>)
         /\ DOMAIN emissions' = DOMAIN emissions
         /\ \A i \in DOMAIN emissions :
              /\ emissions'[i].context = emissions[i].context
              /\ emissions'[i].param = emissions[i].param
              /\ emissions'[i].restart = emissions[i].restart
              /\ emissions[i].context = x => emissions'[i].todo = emissions[i].todo \ {h}
              /\ emissions[i].context # x => emissions'[i].todo = emissions[i].todo
<1> DEFINE f == [i \in DOMAIN emissions |-> IF emissions[i].context = x
                                              THEN [emissions[i] EXCEPT !.todo = @ \ {h}]
                                              ELSE emissions[i]]
<1>1. emissions' = f
  BY DEF Disconnected
<1>2. emissions \in Seq(Emission) /\ \A i \in DOMAIN emissions : emissions[i] \in Emission
  BY DEF TypeOK
<1>3. \A i \in DOMAIN emissions :
        /\ f[i] \in Emission
        /\ f[i].context = emissions[i].context
        /\ f[i].param = emissions[i].param
        /\ f[i].restart = emissions[i].restart
        /\ emissions[i].context = x => f[i].todo = emissions[i].todo \ {h}
        /\ emissions[i].context # x => f[i].todo = emissions[i].todo
  BY <1>2 DEF Emission
<1>4. f \in [DOMAIN emissions -> Emission]
  BY <1>3
<1> HIDE DEF f
<1>5. f \in Seq(Emission) /\ DOMAIN f = DOMAIN emissions /\ (f = << >> <=> emissions = << >>)
  BY <1>2, <1>4, ChangeEach
<1> QED BY <1>1, <1>3, <1>5

(* A context is below itself, and what inherits from below it is too.      *)
LEMMA Below ==
  ASSUME TypeOK, NEW c \in contexts
  PROVE  /\ c \in Descendents(c)
         /\ \A y \in contexts : parent[y] \in Descendents(c) => y \in Descendents(c)
<1>1. c \in Descendents(c)
  BY DEF Descendents, IsDescendent
<1>2. ASSUME NEW y \in contexts, parent[y] \in Descendents(c)
      PROVE  y \in Descendents(c)
  <2>1. parent[y] \in Contexts /\ parent[y] # NoContext
    BY <1>2, ConfigAssumption DEF Descendents, TypeOK
  <2>2. ASSUME NEW S \in SUBSET Contexts, y \in S,
               \A x \in S : parent[x] \in S \cup {NoContext}
        PROVE  c \in S
    <3>1. parent[y] \in S
      BY <2>1, <2>2
    <3> QED BY <3>1, <2>2, <1>2 DEF Descendents, IsDescendent
  <2> QED BY <2>2 DEF Descendents, IsDescendent
<1> QED BY <1>1, <1>2

(* A step that changes things for c and below it, where nothing is owed    *)
(* any more.                                                               *)
LEMMA OwedElsewhere ==
  ASSUME TypeOK, Owed, NEW c \in contexts,
         UNCHANGED <<contexts, absorbed>>,
         owed' = {o \in owed : o[1] \notin Descendents(c)},
         emissions' = << >> <=> emissions = << >>,
         \A b \in Contexts : Restarting(b)' => Restarting(b),
         \A y \in Contexts \ {c} : parent'[y] = parent[y] /\ keyfile'[y] = keyfile[y],
         DOMAIN emissions' = DOMAIN emissions,
         \A i \in DOMAIN emissions : /\ emissions'[i].param = emissions[i].param
                                     /\ emissions[i].todo \ {c} \subseteq emissions'[i].todo
  PROVE  Owed'
<1>1. ASSUME NEW o \in owed', ~absorbed', NEW S \in SUBSET Contexts,
             ToldDirectly(S, o[2])', PassedOn(S, o[2])'
      PROVE  o[1] \in S
  <2> DEFINE R == S \cup Descendents(c)
  <2>1. o \in owed /\ o[1] \notin Descendents(c)
    OBVIOUS
  <2>2. contexts \subseteq Contexts /\ Descendents(c) \subseteq Contexts
    BY DEF TypeOK, Descendents
  <2>3. /\ c \in Descendents(c)
        /\ \A y \in contexts : parent[y] \in Descendents(c) => y \in Descendents(c)
    BY Below
  <2>4. PassedOn(R, o[2])
    <3> SUFFICES ASSUME NEW y \in contexts, parent[y] \in R, o[2] \notin keyfile[y]
                 PROVE  y \in R
      BY DEF PassedOn
    <3>1. CASE y = c \/ parent[y] \in Descendents(c)
      BY <3>1, <2>3
    <3>2. CASE y # c /\ parent[y] \in S
      BY <3>2, <2>2, <1>1 DEF PassedOn
    <3> QED BY <3>1, <3>2
  <2>5. ToldDirectly(R, o[2])
    <3> SUFFICES ASSUME NEW i \in DOMAIN emissions, emissions[i].param = o[2],
                        NEW y \in emissions[i].todo \cap Contexts, o[2] \notin keyfile[y]
                 PROVE  y \in R
      BY DEF ToldDirectly
    <3>1. CASE y = c
      BY <3>1, <2>3
    <3>2. CASE y # c
      <4>1. y \in emissions'[i].todo /\ emissions'[i].param = o[2] /\ o[2] \notin keyfile'[y]
        BY <3>2
      <4> QED BY <4>1, <1>1 DEF ToldDirectly
    <3> QED BY <3>1, <3>2
  <2>6. o[1] \in R
    BY <1>1, <2>1, <2>2, <2>4, <2>5 DEF Owed
  <2> QED BY <2>1, <2>6
<1> QED BY <1>1 DEF Owed, Idle

LEMMA SetParentStep ==
  ASSUME Inv, NEW c \in Contexts, NEW a \in Contexts \cup {NoContext}, SetParent(c, a)
  PROVE  Inv'
<1>1. /\ TypeOK /\ Listening /\ c \in contexts /\ a \in contexts \cup {NoContext}
      /\ contexts \subseteq Contexts /\ NoContext \notin Contexts
      /\ a \in contexts => ~IsDescendent(a, c)
  BY ConfigAssumption DEF Inv, SetParent, TypeOK
<1>2. /\ UNCHANGED <<contexts, keyfile, changed, altered, untold, absorbed>>
      /\ \A y \in Contexts : parent'[y] = IF y = c THEN a ELSE parent[y]
      /\ \A x \in Contexts : handlers'[x] = IF x = a THEN handlers[x] \cup {c}
                                            ELSE handlers[x] \ {c}
      /\ owed' = {o \in owed : o[1] \notin Descendents(c)}
  BY <1>1 DEF SetParent, TypeOK
<1>3. /\ emissions' \in Seq(Emission) /\ (emissions' = << >> <=> emissions = << >>)
      /\ DOMAIN emissions' = DOMAIN emissions
      /\ \A i \in DOMAIN emissions :
           /\ emissions'[i].context = emissions[i].context
           /\ emissions'[i].param = emissions[i].param
           /\ emissions'[i].restart = emissions[i].restart
           /\ emissions[i].todo \ {c} \subseteq emissions'[i].todo
           /\ emissions'[i].todo \subseteq emissions[i].todo
           /\ parent[c] # NoContext /\ emissions[i].context = parent[c] => c \notin emissions'[i].todo
  <2>1. CASE parent[c] = NoContext
    <3>1. emissions' = emissions
      BY <2>1 DEF SetParent
    <3> QED BY <1>1, <2>1, <3>1 DEF TypeOK
  <2>2. CASE parent[c] # NoContext
    <3>1. emissions' = Disconnected(parent[c], c)
      BY <2>2 DEF SetParent
    <3>2. /\ emissions' \in Seq(Emission) /\ (emissions' = << >> <=> emissions = << >>)
          /\ DOMAIN emissions' = DOMAIN emissions
          /\ \A i \in DOMAIN emissions :
               /\ emissions'[i].context = emissions[i].context
               /\ emissions'[i].param = emissions[i].param
               /\ emissions'[i].restart = emissions[i].restart
               /\ emissions[i].context = parent[c] => emissions'[i].todo = emissions[i].todo \ {c}
               /\ emissions[i].context # parent[c] => emissions'[i].todo = emissions[i].todo
      BY <1>1, <3>1, DisconnectedIs
    <3> QED BY <3>2
  <2> QED BY <2>1, <2>2
<1>4. TypeOK'
  <2>1. parent' \in [Contexts -> contexts \cup {NoContext}]
    BY <1>1 DEF SetParent, TypeOK
  <2>2. handlers' \in [Contexts -> SUBSET (contexts \cup Procs)]
    BY <1>1 DEF SetParent, TypeOK
  <2> QED BY <1>1, <1>2, <1>3, <2>1, <2>2 DEF TypeOK
<1>5. Uncreated'
  BY <1>1, <1>2 DEF Inv, Uncreated
<1>6. NoLoops'
  <2> SUFFICES ASSUME NEW S \in SUBSET contexts, S # {}
               PROVE  \E y \in S : parent'[y] \notin S
    BY <1>2 DEF NoLoops
  <2>1. CASE c \notin S
    BY <1>1, <1>2, <2>1 DEF Inv, NoLoops
  <2>2. CASE c \in S /\ a \notin S
    BY <1>1, <1>2, <2>2
  <2>3. CASE c \in S /\ a \in S
    <3>1. PICK T \in SUBSET Contexts : /\ a \in T /\ c \notin T
                                       /\ \A x \in T : parent[x] \in T \cup {NoContext}
      BY <1>1, <2>3 DEF IsDescendent
    <3>2. S \cap T # {} /\ S \cap T \in SUBSET contexts
      BY <2>3, <3>1
    <3>3. PICK y \in S \cap T : parent[y] \notin S \cap T
      BY <3>2 DEF Inv, NoLoops
    <3> QED BY <1>1, <1>2, <3>1, <3>3
  <2> QED BY <2>1, <2>2, <2>3
<1>7. Listening'
  <2> SUFFICES ASSUME NEW x \in Contexts, NEW y \in Contexts
               PROVE  y \in handlers'[x] <=> parent'[y] = x
    BY DEF Listening
  <2>1. CASE y = c
    BY <2>1, <1>2
  <2>2. CASE y # c
    <3>1. y \in handlers'[x] <=> y \in handlers[x]
      BY <2>2, <1>2
    <3> QED BY <2>2, <3>1, <1>1, <1>2 DEF Listening
  <2> QED BY <2>1, <2>2
<1>8. Calling'
  <2>1. ASSUME NEW i \in DOMAIN emissions
        PROVE  emissions'[i].todo \subseteq handlers'[emissions'[i].context]
    <3> DEFINE x == emissions[i].context
    <3>1. x \in contexts /\ emissions[i].todo \subseteq handlers[x]
      BY DEF Inv, Calling
    <3>2. c \in handlers[x] => parent[c] = x
      BY <1>1, <3>1 DEF Listening
    <3>3. c \notin emissions'[i].todo
      BY <1>1, <1>3, <3>1, <3>2
    <3>4. emissions'[i].context = x /\ emissions'[i].todo \subseteq emissions[i].todo
      BY <1>3
    <3>5. handlers[x] \ {c} \subseteq handlers'[x]
      BY <1>1, <1>2, <3>1
    <3> HIDE DEF x
    <3> QED BY <3>1, <3>3, <3>4, <3>5
  <2> QED BY <1>2, <1>3, <2>1 DEF Inv, Calling
<1>9. \A b : Restarting(b)' <=> Restarting(b)
  BY <1>3 DEF Restarting
<1>10. Marked'
  BY <1>2, <1>9 DEF Inv, Marked
<1>11. ASSUME NEW u \in untold
       PROVE  u[2] \in handlers'[u[1]] /\ WillCall(u[1], u[2])'
  <2>1. u[1] \in Contexts /\ u[2] # c
    BY <1>1, ConfigAssumption DEF TypeOK
  <2>2. u[2] \in handlers[u[1]]
    BY DEF Inv, Seen
  <2>3. PICK i \in DOMAIN emissions :
          emissions[i].context = u[1] /\ (emissions[i].restart \/ u[2] \in emissions[i].todo)
    BY DEF Inv, Seen, WillCall
  <2>4. emissions'[i].restart \/ u[2] \in emissions'[i].todo
    BY <1>3, <2>1, <2>3
  <2> QED BY <1>2, <1>3, <2>1, <2>2, <2>3, <2>4 DEF WillCall
<1>12. Seen'
  BY <1>2, <1>11 DEF Seen
<1>13. Owed'
  <2>1. \A y \in Contexts \ {c} : parent'[y] = parent[y] /\ keyfile'[y] = keyfile[y]
    BY <1>2
  <2>2. Owed
    BY DEF Inv
  <2> QED BY <1>1, <1>2, <1>3, <1>9, <2>1, <2>2, OwedElsewhere
<1> QED BY <1>4, <1>5, <1>6, <1>7, <1>8, <1>10, <1>12, <1>13 DEF Inv

LEMMA AddEventStep ==
  ASSUME Inv, NEW c \in Contexts, NEW h \in Procs, AddEvent(c, h)
  PROVE  Inv'
<1>1. TypeOK /\ c \in contexts /\ h \notin Contexts /\ contexts \subseteq Contexts
  BY ConfigAssumption DEF Inv, AddEvent, TypeOK
<1>2. /\ UNCHANGED <<contexts, keyfile, changed, parent, emissions, altered, untold, owed, absorbed>>
      /\ handlers' \in [Contexts -> SUBSET (contexts \cup Procs)]
      /\ \A x \in Contexts : handlers'[x] = IF x = c THEN handlers[x] \cup {h} ELSE handlers[x]
  BY <1>1 DEF AddEvent, TypeOK
<1>3. TypeOK' /\ Uncreated' /\ NoLoops' /\ Marked'
  BY <1>2 DEF Inv, TypeOK, Uncreated, NoLoops, Marked, Restarting
<1>4. Listening'
  BY <1>1, <1>2 DEF Inv, Listening
<1>5. Calling'
  BY <1>1, <1>2 DEF Inv, Calling
<1>6. Seen'
  BY <1>1, <1>2 DEF Inv, Seen, WillCall, TypeOK
<1>7. Owed'
  BY <1>2 DEF Inv, Owed, Idle, Restarting, ToldDirectly, PassedOn
<1> QED BY <1>3, <1>4, <1>5, <1>6, <1>7 DEF Inv

LEMMA RemoveEventStep ==
  ASSUME Inv, NEW c \in Contexts, NEW h \in Procs, RemoveEvent(c, h)
  PROVE  Inv'
<1>1. TypeOK /\ c \in contexts /\ h \notin Contexts /\ contexts \subseteq Contexts
  BY ConfigAssumption DEF Inv, RemoveEvent, TypeOK
<1>2. /\ UNCHANGED <<contexts, keyfile, changed, parent, altered, owed, absorbed>>
      /\ handlers' \in [Contexts -> SUBSET (contexts \cup Procs)]
      /\ \A x \in Contexts : handlers'[x] = IF x = c THEN handlers[x] \ {h} ELSE handlers[x]
      /\ untold' = untold \ {<<c, h>>}
  BY <1>1 DEF RemoveEvent, TypeOK
<1>3. /\ emissions' \in Seq(Emission) /\ (emissions' = << >> <=> emissions = << >>)
      /\ DOMAIN emissions' = DOMAIN emissions
      /\ \A i \in DOMAIN emissions :
           /\ emissions'[i].context = emissions[i].context
           /\ emissions'[i].param = emissions[i].param
           /\ emissions'[i].restart = emissions[i].restart
           /\ emissions[i].context = c => emissions'[i].todo = emissions[i].todo \ {h}
           /\ emissions[i].context # c => emissions'[i].todo = emissions[i].todo
  <2>1. emissions' = Disconnected(c, h)
    BY DEF RemoveEvent
  <2> QED BY <1>1, <2>1, DisconnectedIs
<1>4. TypeOK'
  BY <1>1, <1>2, <1>3 DEF TypeOK
<1>5. Uncreated' /\ NoLoops'
  BY <1>2 DEF Inv, Uncreated, NoLoops
<1>6. Listening'
  BY <1>1, <1>2 DEF Inv, Listening
<1>7. Calling'
  BY <1>1, <1>2, <1>3 DEF Inv, Calling
<1>8. \A b : Restarting(b)' <=> Restarting(b)
  BY <1>3 DEF Restarting
<1>9. Marked'
  BY <1>2, <1>8 DEF Inv, Marked
<1>10. ASSUME NEW u \in untold'
       PROVE  u[2] \in handlers'[u[1]] /\ WillCall(u[1], u[2])'
  <2>1. u \in untold /\ u[1] \in Contexts /\ (u[1] # c \/ u[2] # h)
    <3>1. u \in untold /\ u \in contexts \X Procs /\ u # <<c, h>>
      BY <1>1, <1>2 DEF TypeOK
    <3> QED BY <3>1, <1>1
  <2>2. u[2] \in handlers[u[1]]
    BY <2>1 DEF Inv, Seen
  <2>3. PICK i \in DOMAIN emissions :
          emissions[i].context = u[1] /\ (emissions[i].restart \/ u[2] \in emissions[i].todo)
    BY <2>1 DEF Inv, Seen, WillCall
  <2>4. emissions'[i].restart \/ u[2] \in emissions'[i].todo
    BY <1>3, <2>1, <2>3
  <2> QED BY <1>2, <1>3, <2>1, <2>2, <2>3, <2>4 DEF WillCall
<1>11. Seen'
  BY <1>10 DEF Seen
<1>12. \A S, p : ToldDirectly(S, p)' => ToldDirectly(S, p)
  BY <1>1, <1>2, <1>3 DEF ToldDirectly
<1>13. \A S, p : PassedOn(S, p)' <=> PassedOn(S, p)
  BY <1>2 DEF PassedOn
<1>14. Owed'
  BY <1>2, <1>3, <1>8, <1>12, <1>13 DEF Inv, Owed, Idle
<1> QED BY <1>4, <1>5, <1>6, <1>7, <1>9, <1>11, <1>14 DEF Inv

LEMMA LoadStep ==
  ASSUME Inv, NEW c \in Contexts, NEW K \in SUBSET Params, Load(c, K)
  PROVE  Inv'
<1>1. TypeOK /\ c \in contexts /\ contexts \subseteq Contexts
  BY DEF Inv, Load, TypeOK
<1>2. /\ UNCHANGED <<contexts, parent, handlers, emissions, untold, absorbed>>
      /\ keyfile' = [keyfile EXCEPT ![c] = K]
      /\ changed' = changed \ {c} /\ altered' = altered \ {c}
      /\ owed' = {o \in owed : o[1] \notin Descendents(c)}
  BY DEF Load
<1>3. TypeOK'
  <2>1. keyfile' \in [Contexts -> SUBSET Params]
    BY <1>1, <1>2 DEF TypeOK
  <2> QED BY <1>1, <1>2, <2>1 DEF TypeOK
<1>4. Uncreated' /\ NoLoops' /\ Listening' /\ Calling' /\ Seen'
  BY <1>2 DEF Inv, Uncreated, NoLoops, Listening, Calling, Seen, WillCall
<1>5. \A b : Restarting(b)' <=> Restarting(b)
  BY <1>2 DEF Restarting
<1>6. Marked'
  BY <1>2, <1>5 DEF Inv, Marked
<1>7. Owed'
  <2>1. \A y \in Contexts \ {c} : parent'[y] = parent[y] /\ keyfile'[y] = keyfile[y]
    BY <1>1, <1>2 DEF TypeOK
  <2>2. Owed
    BY DEF Inv
  <2>3. \A i \in DOMAIN emissions : /\ emissions'[i].param = emissions[i].param
                                    /\ emissions[i].todo \ {c} \subseteq emissions'[i].todo
    BY <1>2
  <2> QED BY <1>1, <1>2, <1>5, <2>1, <2>2, <2>3, OwedElsewhere
<1> QED BY <1>3, <1>4, <1>6, <1>7 DEF Inv

LEMMA SaveStep == ASSUME Inv, NEW c \in Contexts, Save(c) PROVE Inv'
<1>1. /\ UNCHANGED <<contexts, keyfile, parent, handlers, emissions, untold, owed, absorbed>>
      /\ changed' = changed \ {c} /\ altered' = altered \ {c}
  BY DEF Save
<1>2. TypeOK'
  BY <1>1 DEF Inv, TypeOK
<1>3. Uncreated' /\ NoLoops' /\ Listening' /\ Calling' /\ Seen'
  BY <1>1 DEF Inv, Uncreated, NoLoops, Listening, Calling, Seen, WillCall
<1>4. Marked'
  BY <1>1 DEF Inv, Marked, Restarting
<1>5. Owed'
  BY <1>1 DEF Inv, Owed, Idle, Restarting, ToldDirectly, PassedOn
<1> QED BY <1>2, <1>3, <1>4, <1>5 DEF Inv

LEMMA NewContextStep == ASSUME Inv, NEW c \in Contexts, NewContext(c) PROVE Inv'
<1>1. /\ TypeOK /\ Uncreated /\ Listening /\ c \notin contexts /\ contexts \subseteq Contexts
      /\ User \in contexts /\ c # User /\ NoContext \notin Contexts
      /\ c \notin Procs
  BY ConfigAssumption DEF Inv, NewContext, TypeOK, Shared
<1>2. parent[c] = NoContext
  BY <1>1 DEF Uncreated
<1>3. /\ UNCHANGED <<keyfile, changed, emissions, altered, untold, owed, absorbed>>
      /\ contexts' = contexts \cup {c}
      /\ \A y \in Contexts : parent'[y] = IF y = c THEN User ELSE parent[y]
      /\ \A x \in Contexts : handlers'[x] = IF x = User THEN handlers[x] \cup {c} ELSE handlers[x]
  BY <1>1 DEF NewContext, TypeOK
<1>4. TypeOK'
  <2>1. parent' \in [Contexts -> contexts' \cup {NoContext}]
    BY <1>1 DEF NewContext, TypeOK
  <2>2. handlers' \in [Contexts -> SUBSET (contexts' \cup Procs)]
    BY <1>1 DEF NewContext, TypeOK
  <2> QED BY <1>1, <1>3, <2>1, <2>2 DEF TypeOK
<1>5. Uncreated'
  BY <1>1, <1>3 DEF Uncreated
<1>6. Listening'
  <2> SUFFICES ASSUME NEW x \in Contexts, NEW y \in Contexts
               PROVE  y \in handlers'[x] <=> parent'[y] = x
    BY DEF Listening
  <2>1. CASE y = c
    <3>1. parent'[y] = User /\ y \notin handlers[x]
      BY <2>1, <1>1, <1>2, <1>3 DEF Listening
    <3>2. y \in handlers'[x] <=> x = User
      BY <2>1, <3>1, <1>3
    <3> QED BY <3>1, <3>2
  <2>2. CASE y # c
    <3>1. y \in handlers'[x] <=> y \in handlers[x]
      BY <2>2, <1>3
    <3>2. parent'[y] = parent[y]
      BY <2>2, <1>3
    <3> QED BY <3>1, <3>2, <1>1 DEF Listening
  <2> QED BY <2>1, <2>2
<1>7. NoLoops'
  <2> SUFFICES ASSUME NEW S \in SUBSET contexts', S # {}
               PROVE  \E y \in S : parent'[y] \notin S
    BY DEF NoLoops
  <2>1. CASE S \ {c} = {}
    BY <1>1, <1>3, <2>1
  <2>2. CASE S \ {c} # {}
    <3>1. S \ {c} \in SUBSET contexts
      BY <1>3
    <3>2. PICK y \in S \ {c} : parent[y] \notin S \ {c}
      BY <2>2, <3>1 DEF Inv, NoLoops
    <3>3. y \in Contexts /\ parent[y] # c
      BY <1>1, <3>1, <3>2 DEF TypeOK
    <3> QED BY <1>3, <3>2, <3>3
  <2> QED BY <2>1, <2>2
<1>8. Calling'
  BY <1>1, <1>3 DEF Inv, Calling
<1>9. Marked'
  BY <1>3 DEF Inv, Marked, Restarting
<1>10. Seen'
  BY <1>1, <1>3 DEF Inv, Seen, WillCall, TypeOK
<1>11. \A S, p : PassedOn(S, p)' => PassedOn(S, p)
  BY <1>1, <1>3 DEF PassedOn
<1>12. \A S, p : ToldDirectly(S, p)' <=> ToldDirectly(S, p)
  BY <1>3 DEF ToldDirectly
<1>13. \A b : Restarting(b)' <=> Restarting(b)
  BY <1>3 DEF Restarting
<1>14. Owed'
  BY <1>3, <1>11, <1>12, <1>13 DEF Inv, Owed, Idle
<1> QED BY <1>4, <1>5, <1>6, <1>7, <1>8, <1>9, <1>10, <1>14 DEF Inv

-----------------------------------------------------------------------------
(* The invariant holds.                                                    *)

LEMMA InitInv == Init => Inv
<1> SUFFICES ASSUME Init PROVE Inv
  OBVIOUS
<1>1. /\ Default \in Contexts /\ System \in Contexts /\ User \in Contexts /\ NoContext \notin Contexts
      /\ Default # User /\ Default # System /\ System # User
      /\ contexts = {Default, System, User} /\ Contexts \cap Procs = {}
  BY ConfigAssumption DEF Init, Shared, Contexts
<1>2. /\ \A c \in Contexts : parent[c] = IF c = User THEN System
                                       ELSE IF c = System THEN Default ELSE NoContext
      /\ \A c \in Contexts : handlers[c] = IF c = Default THEN {System}
                                         ELSE IF c = System THEN {User} ELSE {}
      /\ emissions = << >> /\ DOMAIN emissions = {}
      /\ altered = {} /\ untold = {} /\ owed = {} /\ absorbed = FALSE
  BY DEF Init
<1>3. TypeOK
  <2>1. parent \in [Contexts -> contexts \cup {NoContext}]
    BY <1>1 DEF Init
  <2>2. handlers \in [Contexts -> SUBSET (contexts \cup Procs)]
    BY <1>1 DEF Init
  <2>3. keyfile \in [Contexts -> SUBSET Params] /\ changed = {}
    BY DEF Init
  <2>4. Shared \subseteq contexts /\ contexts \subseteq Contexts
    BY <1>1 DEF Shared
  <2>5. emissions \in Seq(Emission)
    BY <1>2
  <2> QED BY <1>2, <2>1, <2>2, <2>3, <2>4, <2>5 DEF TypeOK
<1>4. Uncreated /\ Calling /\ Marked /\ Seen
  BY <1>1, <1>2 DEF Uncreated, Calling, Marked, Seen
<1>5. Listening
  BY <1>1, <1>2 DEF Listening
<1>6. NoLoops
  BY <1>1, <1>2 DEF NoLoops
<1>7. Owed
  BY <1>2 DEF Owed, Restarting
<1> QED BY <1>3, <1>4, <1>5, <1>6, <1>7 DEF Inv

LEMMA NextInv == ASSUME Inv, [Next]_vars PROVE Inv'
<1>1. CASE UNCHANGED vars
  BY <1>1 DEF vars, Inv, TypeOK, Uncreated, NoLoops, Listening, Calling, Marked, Seen, Owed,
              Idle, Restarting, WillCall, ToldDirectly, PassedOn
<1>2. CASE Emits
  BY <1>2, RestartStep, CallChildStep, CallProcStep, EmissionEndsStep DEF Emits
<1>3. CASE ProcReturns
  BY <1>3, ProcReturnsStep
<1>4. CASE \E c \in Contexts :
             \/ \E p \in Params : SetValue(c, p)
             \/ \E a \in Contexts \cup {NoContext} : SetParent(c, a)
             \/ \E h \in Procs : AddEvent(c, h) \/ RemoveEvent(c, h)
             \/ \E K \in SUBSET Params : Load(c, K)
             \/ Save(c)
             \/ NewContext(c)
  BY <1>4, SetValueStep, SetParentStep, AddEventStep, RemoveEventStep, LoadStep, SaveStep,
     NewContextStep
<1> QED BY <1>1, <1>2, <1>3, <1>4 DEF Next

(* The invariant holds in every reachable state.                           *)
THEOREM SpecInv == Spec => []Inv
<1>1. Inv /\ [Next]_vars => Inv'
  BY NextInv
<1> QED BY InitInv, <1>1, PTL DEF Spec

-----------------------------------------------------------------------------
(* The properties.                                                         *)

(* Every variable keeps its type.                                          *)
THEOREM TypesCorrect == Spec => []TypeOK
<1>1. Inv => TypeOK
  BY DEF Inv
<1> QED BY SpecInv, <1>1, PTL

(* eda_config_set_parent permits no loop, whatever handlers do and however *)
(* emissions nest, so that every walk up the parents ends.                 *)
THEOREM InheritanceEnds == Spec => []NoLoops
<1>1. Inv => NoLoops
  BY DEF Inv
<1> QED BY SpecInv, <1>1, PTL

(* Once all signals are delivered, eda_config_is_changed is true of every  *)
(* context that was altered since its file was read or written.            *)
THEOREM AlteredContextsAreMarked == Spec => []AlteredIsMarked
<1>1. Inv => AlteredIsMarked
  BY DEF Inv, Marked, Restarting, AlteredIsMarked, Idle
<1> QED BY SpecInv, <1>1, PTL

(* Every connected Scheme procedure is called after the last change of its *)
(* context, whatever handlers set meanwhile.                               *)
THEOREM NoHandlerMissesAChange == Spec => []HandlersSeeTheLast
<1>1. Inv => HandlersSeeTheLast
  BY DEF Inv, Seen, WillCall, HandlersSeeTheLast, Idle
<1> QED BY SpecInv, <1>1, PTL

(* Without an emission that another one absorbed, every context that       *)
(* inherits a parameter from where it was set is told of it.               *)
THEOREM EventsReachInheritors == Spec => []EventsFlowDown
<1>1. Inv => EventsFlowDown
  <2> SUFFICES ASSUME Inv, Delivered, ~absorbed PROVE owed = {}
    BY DEF EventsFlowDown
  <2>1. /\ emissions \in Seq(Emission) /\ Len(emissions) = 1
        /\ emissions[1].todo = {} /\ NoContext \notin Contexts
        /\ parent \in [Contexts -> contexts \cup {NoContext}]
    BY ConfigAssumption DEF Inv, TypeOK, Delivered, Top
  <2>2. DOMAIN emissions = {1}
    BY <2>1
  <2>3. \A p : ToldDirectly({}, p) /\ PassedOn({}, p)
    BY <2>1, <2>2 DEF ToldDirectly, PassedOn
  <2> QED BY <2>3 DEF Inv, Owed
<1> QED BY SpecInv, <1>1, PTL
=============================================================================
