--------------------------- MODULE MCDesignRegistry ---------------------------
(***************************************************************************)
(* Three callers over three files in two libraries: an entity declared     *)
(* twice in one library and once in the other, an architecture name used   *)
(* twice for one entity, a file with clauses between its units, and        *)
(* arguments that overlap, so that files are added twice.                  *)
(***************************************************************************)
EXTENDS DesignRegistry

CONSTANTS c1, c2, c3

U(kind, id, primary) == [kind |-> kind, id |-> id, primary |-> primary]

MCFile == {"f1", "f2", "f3"}
MCFileLib == [f \in MCFile |-> IF f = "f3" THEN "lib" ELSE "work"]
MCFileUnits ==
  [f \in MCFile |->
     CASE f = "f1" -> << U("use_clause", "", <<>>), U("entity", "e", <<>>),
                         U("use_clause", "", <<>>),
                         U("architecture", "a", <<"e">>) >>
       [] f = "f2" -> << U("entity", "e", <<>>), U("package_body", "p", <<>>),
                         U("architecture", "b", <<"e">>),
                         U("architecture", "a", <<"e">>) >>
       [] f = "f3" -> << U("library_clause", "", <<>>), U("entity", "e", <<>>),
                         U("context_reference", "", <<>>) >>]
MCCaller == {c1, c2, c3}
MCFileSets == {<<"f1", "f3">>, <<"f2", None, "f3">>, <<"f2", "f1">>}

================================================================================
