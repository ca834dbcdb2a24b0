----------------------------- MODULE ParserSession -----------------------------
(***************************************************************************)
(* parser::parser: one object that turns sources into design files.  Every *)
(* call feeds the same syntax_error_logger, so what a call does depends on  *)
(* the calls before it.                                                     *)
(*                                                                          *)
(* A source is a path or a text.  Of its contents the model keeps what      *)
(* decides the outcome of a call.                                           *)
(***************************************************************************)
EXTENDS Naturals, Sequences

CONSTANTS
  Source,        \* paths and texts a client may hand over
  Readable,      \* those antlr_file_stream_with_encoding can open and decode
  Resource,      \* names of the embedded resources
  LooksEmbedded, \* sources spelt "ieee/..." or "std/..."
  PrefixOf,      \* the library that prefix names
  SyntaxErrors,  \* how many errors ANTLR reports in a source
  Unsupported,   \* sources for which context::parse throws
  Standardized   \* the resources load_standardized_packages parses, in order

(* The resources are in the directories ieee and std; some are standardized  *)
(* packages; the two that create_std_packages() builds come from no source.  *)
ASSUME SourceAssumption ==
  /\ Readable \cup LooksEmbedded \cup Unsupported \subseteq Source
  /\ Resource \subseteq LooksEmbedded
  /\ LooksEmbedded \subseteq DOMAIN PrefixOf
  /\ SyntaxErrors \in [Source -> Nat]
  /\ Standardized \in Seq(Resource) /\ Standardized # <<>>
  /\ {"STANDARD", "TEXTIO"} \cap Source = {}

VARIABLES
  errors,   \* syntax_error_logger::_errors, the source of each entry
  files,    \* the design files the calls so far returned
  thrown    \* the sources of the calls that threw, in order

parserVars == <<errors, files, thrown>>

ParserInit == errors = <<>> /\ files = <<>> /\ thrown = <<>>

DesignFile(s, lib) == [source |-> s, lib_name |-> lib]

(* The log when design_file() has recognised s: syntaxError() appends. *)
Recognized(log, s) == log \o [n \in 1..SyntaxErrors[s] |-> s]

(* check_errors throws for any error in the log, whichever call logged it. *)
CheckErrors(log) == log = <<>>

\* Mutant: check_errors is not called.
AcceptedUnchecked(log, s) == s \notin Unsupported

\* Mutant: only the errors of this source count.
AcceptedByItself(log, s) == SyntaxErrors[s] = 0 /\ s \notin Unsupported

(* _parse gets to its return statement. *)
Accepted(log, s) ==
  /\ CheckErrors(Recognized(log, s))
  /\ s \notin Unsupported

Parse(s, lib) ==
  /\ errors' = Recognized(errors, s)
  /\ IF Accepted(errors, s)
     THEN files' = Append(files, DesignFile(s, lib)) /\ UNCHANGED thrown
     ELSE thrown' = Append(thrown, s) /\ UNCHANGED files

(* Nothing was recognised: the source could not be had. *)
ThrowUnread(s) ==
  /\ thrown' = Append(thrown, s)
  /\ UNCHANGED <<errors, files>>

\* Mutant: a resource gets the library the caller passed.
ParseFileIntoLibrary(s, lib) ==
  IF s \in LooksEmbedded
  THEN IF s \in Resource THEN Parse(s, lib) ELSE ThrowUnread(s)
  ELSE IF s \in Readable THEN Parse(s, lib) ELSE ThrowUnread(s)

(* An embedded spelling goes to the resources even where such a file exists. *)
ParseFile(s, lib) ==
  IF s \in LooksEmbedded
  THEN IF s \in Resource THEN Parse(s, PrefixOf[s]) ELSE ThrowUnread(s)
  ELSE IF s \in Readable THEN Parse(s, lib) ELSE ThrowUnread(s)

ParseStr(s, lib) == Parse(s, lib)

\* Mutant: lib_name is not set.
StdPackagesUnnamed == <<DesignFile("STANDARD", ""), DesignFile("TEXTIO", "")>>

(* The two packages create_std_packages() builds without parsing. *)
StdPackages == <<DesignFile("STANDARD", "STD"), DesignFile("TEXTIO", "STD")>>

\* Mutant: what was parsed before the exception is kept.
LoadStandardizedPackagesSoFar ==
  LET rejected == {n \in DOMAIN Standardized : ~Accepted(errors, Standardized[n])}
  IN  /\ files' = files \o StdPackages \o
              [n \in 1..(IF rejected = {} THEN Len(Standardized) ELSE 0) |->
                 DesignFile(Standardized[n], PrefixOf[Standardized[n]])]
      /\ UNCHANGED <<errors, thrown>>

(* The vector is local: the first resource that throws loses all of it. *)
LoadStandardizedPackages ==
  LET rejected == {n \in DOMAIN Standardized : ~Accepted(errors, Standardized[n])}
  IN  IF rejected = {}
      THEN /\ files' = files \o StdPackages \o
                [n \in DOMAIN Standardized |->
                   DesignFile(Standardized[n], PrefixOf[Standardized[n]])]
           /\ UNCHANGED <<errors, thrown>>
      ELSE \E first \in rejected :
             /\ \A m \in rejected : first <= m
             /\ errors' = Recognized(errors, Standardized[first])
             /\ thrown' = Append(thrown, Standardized[first])
             /\ UNCHANGED files
--------------------------------------------------------------------------------
(* No design file of a source with syntax errors is ever handed out, in     *)
(* whatever order sources are parsed and whichever call threw before:       *)
(* _parse tests the log before and after it builds the AST.                 *)
ReturnedFilesAreClean ==
  \A n \in DOMAIN files :
    files[n].source \in Source =>
      SyntaxErrors[files[n].source] = 0 /\ files[n].source \notin Unsupported

(* A design file of an embedded resource belongs to the library its path    *)
(* names, not to the library the caller asked for.                          *)
ResourcesKeepTheirLibrary ==
  \A n \in DOMAIN files :
    files[n].source \in Resource =>
      files[n].lib_name = PrefixOf[files[n].source]

(* The log is never emptied: once a source with syntax errors was parsed,   *)
(* no call of this parser returns a design file again.                      *)
NothingReturnsAfterAnError == [][errors # <<>> => files' = files]_parserVars
================================================================================
