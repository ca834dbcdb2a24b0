---------------------------- MODULE AnalysisLibrary ----------------------------
(***************************************************************************)
(* What the registry of the elaborator promises, without its containers,   *)
(* its mutex and its loops: units are analysed one at a time; a name keeps  *)
(* the unit it was first given, an entity's default architecture is the     *)
(* one analysed last, and a name that was given twice is known to clash.    *)
(***************************************************************************)
CONSTANTS
  Registrable,      \* the units that have a name
  Architectures,    \* those of them that are architectures
  Key,              \* the names of units
  EntityKey,        \* the names of entities architectures are written for
  KeyOf(_),
  EntityKeyOf(_),
  None

VARIABLES
  winner,           \* the unit a name stands for, or None
  latest,           \* the default architecture of an entity name, or None
  clashes           \* the names that two units claimed

libraryVars == <<winner, latest, clashes>>

Init ==
  /\ winner = [k \in Key |-> None]
  /\ latest = [ek \in EntityKey |-> None]
  /\ clashes = {}

Analyse(u) ==
  /\ winner' = [winner EXCEPT ![KeyOf(u)] = IF @ = None THEN u ELSE @]
  /\ clashes' = IF winner[KeyOf(u)] \in {None, u} THEN clashes
                ELSE clashes \cup {KeyOf(u)}
  /\ latest' = IF u \in Architectures
               THEN [latest EXCEPT ![EntityKeyOf(u)] = u] ELSE latest

Next == \E u \in Registrable : Analyse(u)

Spec == Init /\ [][Next]_libraryVars
================================================================================
