----------------------------- MODULE MCEdaConfig -----------------------------
(* Small instances of EdaConfig for TLC.                                   *)
EXTENDS EdaConfig, TLC

CONSTANTS system, user, h1
MCListens == [h \in Procs |-> IF h = h1 THEN {user} ELSE Contexts]

\* The default context stays above the system context, and nothing is set in it.
DefaultStays ==
  /\ parent[Default] = NoContext /\ parent[System] = Default
  /\ keyfile[Default] = {} /\ Default \notin changed
=============================================================================
