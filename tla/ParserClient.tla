------------------------------ MODULE ParserClient ------------------------------
(***************************************************************************)
(* A program that uses the parser as a library: it calls parse_file,       *)
(* parse_str and load_standardized_packages on one parser in any order and *)
(* goes on after an exception.                                             *)
(***************************************************************************)
EXTENDS ParserSession, FiniteSets

CONSTANTS
  Text,      \* the sources that are texts for parse_str
  Library,   \* library names a client passes
  MaxCalls   \* bound: how many calls a client makes

ASSUME ClientAssumption ==
  /\ Text \subseteq Source \ (Resource \cup LooksEmbedded)
  /\ MaxCalls \in Nat

VARIABLE calls

vars == <<parserVars, calls>>

Init == ParserInit /\ calls = 0

Next ==
  /\ calls < MaxCalls
  /\ calls' = calls + 1
  /\ \/ \E s \in Source \ Text, lib \in Library : ParseFile(s, lib)
     \/ \E s \in Text, lib \in Library : ParseStr(s, lib)
     \/ LoadStandardizedPackages

Spec == Init /\ [][Next]_vars

TypeOK ==
  /\ calls \in 0..MaxCalls
  /\ {errors[n] : n \in DOMAIN errors} \subseteq Source
  /\ {thrown[n] : n \in DOMAIN thrown} \subseteq Source
  /\ {files[n].lib_name : n \in DOMAIN files}
       \subseteq Library \cup {PrefixOf[s] : s \in LooksEmbedded} \cup {"STD"}

CopiesOf(s) == Cardinality({n \in DOMAIN files : files[n].source = s})

(* The standardized packages are had all together or not at all: a call     *)
(* that throws part of the way leaves the client with none of them.         *)
StandardizedAllOrNone ==
  \A n \in DOMAIN Standardized :
    /\ CopiesOf("STANDARD") <= CopiesOf(Standardized[n])
    /\ CopiesOf("STANDARD") = CopiesOf("TEXTIO")
================================================================================
