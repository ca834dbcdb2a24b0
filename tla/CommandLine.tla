------------------------------ MODULE CommandLine ------------------------------
(***************************************************************************)
(* main.cpp: the arguments are taken one by one, each file is parsed into  *)
(* the library named last, and what was parsed is handed to the elaborator.*)
(***************************************************************************)
EXTENDS ParserSession, Integers, FiniteSets

CONSTANTS
  CommandLines,  \* the argument vectors
  Exists,        \* the arguments that name something in the file system
  StatusValues   \* the exit status keeps the count modulo this: 256

ASSUME StatusAssumption == StatusValues \in Nat \ {0}
ASSUME ArgumentAssumption == CommandLines \subseteq Seq(STRING)

VARIABLES
  pc, argv,
  i,                    \* the argument the loop is at
  actual_libname,
  enable_print_ast,
  syntax_error_count,
  results,
  elaborated,           \* the argument of elab.add_design_files
  printed,              \* the design files print_ast was run on
  status                \* what main returned

driverVars == <<pc, argv, i, actual_libname, enable_print_ast,
                syntax_error_count, results, elaborated, printed, status>>
vars == <<parserVars, driverVars>>

\* Any argument that begins with one of these; "-version" is a -v as well.
Switches == {"-v", "-l"}

Init ==
  /\ ParserInit
  /\ argv \in CommandLines
  /\ pc = "arguments"
  /\ i = 1
  /\ actual_libname = "work"
  /\ enable_print_ast = FALSE
  /\ syntax_error_count = 0
  /\ results = <<>>
  /\ elaborated = <<>>
  /\ printed = <<>>
  /\ status = 0

AtArgument(args) ==
  /\ pc = "arguments"
  /\ i <= Len(argv)
  /\ argv[i] \in args

\* Mutant: the status has no width.
ExitInFull(code) == pc' = "exited" /\ status' = code

\* Mutant: the status is a flag.
ExitFlag(code) == pc' = "exited" /\ status' = IF code > 0 THEN 1 ELSE 0

Exit(code) == pc' = "exited" /\ status' = code % StatusValues

Usage ==
  /\ pc = "arguments"
  /\ argv = <<>>
  /\ Exit(1)
  /\ UNCHANGED <<parserVars, argv, i, actual_libname, enable_print_ast,
                 syntax_error_count, results, elaborated, printed>>

\* Mutant: the loop stays at a -v.
SwitchVForever ==
  /\ AtArgument({"-v"})
  /\ enable_print_ast' = TRUE
  /\ UNCHANGED <<parserVars, pc, argv, i, actual_libname, syntax_error_count,
                 results, elaborated, printed, status>>

SwitchV ==
  /\ AtArgument({"-v"})
  /\ enable_print_ast' = TRUE
  /\ i' = i + 1
  /\ UNCHANGED <<parserVars, pc, argv, actual_libname, syntax_error_count,
                 results, elaborated, printed, status>>

\* Mutant: the name after -l is left on the command line.
SwitchLWithoutName ==
  /\ AtArgument({"-l"})
  /\ IF i + 1 > Len(argv)
     THEN pc' = "aborted" /\ UNCHANGED <<i, actual_libname>>
     ELSE actual_libname' = argv[i + 1] /\ i' = i + 1 /\ UNCHANGED pc
  /\ UNCHANGED <<parserVars, argv, enable_print_ast, syntax_error_count,
                 results, elaborated, printed, status>>

(* The argument after -l names the library, whatever it looks like; none    *)
(* there is an exception nobody catches.                                    *)
SwitchL ==
  /\ AtArgument({"-l"})
  /\ IF i + 1 > Len(argv)
     THEN pc' = "aborted" /\ UNCHANGED <<i, actual_libname>>
     ELSE actual_libname' = argv[i + 1] /\ i' = i + 2 /\ UNCHANGED pc
  /\ UNCHANGED <<parserVars, argv, enable_print_ast, syntax_error_count,
                 results, elaborated, printed, status>>

(* A file that parses joins the results; an exception of any kind is        *)
(* reported and counted.                                                    *)
SourceFile ==
  LET s == argv[i] IN
  /\ pc = "arguments"
  /\ i <= Len(argv)
  /\ s \notin Switches
  /\ IF s \in Exists THEN ParseFile(s, actual_libname) ELSE ThrowUnread(s)
  /\ IF files' # files
     THEN results' = Append(results, files'[Len(files')]) /\ UNCHANGED syntax_error_count
     ELSE syntax_error_count' = syntax_error_count + 1 /\ UNCHANGED results
  /\ i' = i + 1
  /\ UNCHANGED <<pc, argv, actual_libname, enable_print_ast, elaborated,
                 printed, status>>

(* The rest of main: what failed is not looked at until the return. *)
Elaborate ==
  /\ pc = "arguments"
  /\ argv # <<>>
  /\ i > Len(argv)
  /\ elaborated' = results
  /\ printed' = IF enable_print_ast THEN results ELSE <<>>
  /\ Exit(syntax_error_count)
  /\ UNCHANGED <<parserVars, argv, i, actual_libname, enable_print_ast,
                 syntax_error_count, results>>

Next == Usage \/ SwitchV \/ SwitchL \/ SourceFile \/ Elaborate

Spec == Init /\ [][Next]_vars /\ WF_vars(Next)
--------------------------------------------------------------------------------
(* An argument after an odd number of -l's names a library, whatever it     *)
(* looks like; one that does not and is no switch is a file.                *)
FirstOfSwitchesL(m, n) ==
  /\ \A k \in m..(n - 1) : argv[k] = "-l"
  /\ m = 1 \/ argv[m - 1] # "-l"
NamesLibrary(n) == \E m \in 1..(n - 1) : FirstOfSwitchesL(m, n) /\ (n - m) % 2 = 1
IsFileArgument(n) == argv[n] \notin Switches /\ ~NamesLibrary(n)
FileArguments == {n \in 1..Len(argv) : IsFileArgument(n)}

TypeOK ==
  /\ pc \in {"arguments", "exited", "aborted"}
  /\ i \in 1..(Len(argv) + 1)
  /\ syntax_error_count \in Nat
  /\ status \in 0..(StatusValues - 1)
  /\ {results[n].source : n \in DOMAIN results} \subseteq Source

(* What reaches the elaborator is, for each file argument that parsed and in *)
(* the order of the command line, its design file in the library of the     *)
(* nearest -l to its left (or work, or the one an embedded path names); a   *)
(* file given twice is elaborated twice.                                    *)
LibraryAt(n) ==
  LET named == {m \in 1..(n - 1) : NamesLibrary(m)}
  IN  IF named = {} THEN "work"
      ELSE argv[CHOOSE m \in named : \A k \in named : k <= m]

EachResultFollowsItsArgument ==
  pc = "exited" =>
    /\ elaborated = results
    /\ \E at \in [DOMAIN results -> FileArguments] :
         /\ \A m, n \in DOMAIN results : m < n => at[m] < at[n]
         /\ \A n \in DOMAIN results :
              LET s == argv[at[n]] IN
              results[n] = DesignFile(s, IF s \in LooksEmbedded THEN PrefixOf[s]
                                         ELSE LibraryAt(at[n]))

(* The exit status says how many of the files on the command line did not   *)
(* reach the elaborator, in the width an exit status has.                   *)
StatusCountsMissingFiles ==
  (pc = "exited" /\ argv # <<>>) =>
    status = (Cardinality(FileArguments) - Cardinality(DOMAIN results)) % StatusValues

(* main returns, or stops at a -l without a name; it takes no file after    *)
(* that point and none of those before it reaches the elaborator.           *)
RunsToTheEnd ==
  <>(pc = "exited" \/ (pc = "aborted" /\ argv[Len(argv)] = "-l" /\ elaborated = <<>>))

(* "file will be exlecuded from elaboration" (main.cpp) is said of the file *)
(* that could not be parsed: a file without errors of its own is elaborated. *)
OnlyBadFilesAreExcluded ==
  pc = "exited" =>
    \A n \in FileArguments :
      /\ argv[n] \in Exists \cap Readable
      /\ argv[n] \notin LooksEmbedded \cup Unsupported
      /\ SyntaxErrors[argv[n]] = 0
      => \E m \in DOMAIN elaborated : elaborated[m].source = argv[n]
================================================================================
