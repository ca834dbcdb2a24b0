---------------------------- MODULE CommandLineProofs ----------------------------
(***************************************************************************)
(* What main does with any command line.  The invariant says of the        *)
(* arguments before i what the properties say of all of them, and that i   *)
(* is never at the name of a library: the -l's right before it pair up.    *)
(***************************************************************************)
EXTENDS CommandLine, SequenceTheorems, FiniteSetTheorems, TLAPS

NamedLibrary == STRING \cup {"work"}
LibraryName == NamedLibrary \cup {PrefixOf[s] : s \in LooksEmbedded}
AnyFile == [source : Source, lib_name : LibraryName]

LoopTyped ==
  /\ argv \in Seq(STRING)
  /\ pc \in {"arguments", "exited", "aborted"}
  /\ i \in 1..(Len(argv) + 1)
  /\ actual_libname \in NamedLibrary
  /\ syntax_error_count \in Nat
  /\ status \in 0..(StatusValues - 1)
  /\ files \in Seq(AnyFile)
  /\ results \in Seq(AnyFile)
  /\ pc = "arguments" => elaborated = <<>>

(* An even number of -l's ends right before n. *)
Paired(n) == \E m \in 1..n : FirstOfSwitchesL(m, n) /\ (n - m) % 2 = 0

AtSwitchOrFile == pc = "arguments" => Paired(i)

FilesBefore(n) == {k \in FileArguments : k < n}

CountedSoFar ==
  pc = "arguments" =>
    syntax_error_count + Len(results) = Cardinality(FilesBefore(i))

LibrarySoFar == pc = "arguments" => actual_libname = LibraryAt(i)

(* What the n-th argument becomes when it is parsed. *)
ResultOf(n) ==
  DesignFile(argv[n], IF argv[n] \in LooksEmbedded THEN PrefixOf[argv[n]] ELSE LibraryAt(n))
Follows(at, n) ==
  /\ at \in [DOMAIN results -> FilesBefore(n)]
  /\ \A k, l \in DOMAIN results : k < l => at[k] < at[l]
  /\ \A k \in DOMAIN results : results[k] = ResultOf(at[k])
ResultsFollow == \E at : Follows(at, i)

LoopInv == LoopTyped /\ AtSwitchOrFile
--------------------------------------------------------------------------------
(* The pairing of the -l's before n is unique: the name of a library is     *)
(* nothing else, and the other way round.                                   *)
LEMMA PairedIsNoName ==
  ASSUME argv \in Seq(STRING), NEW n \in Nat \ {0}, Paired(n)
  PROVE  ~NamesLibrary(n)
<1> SUFFICES ASSUME NEW m \in 1..n, FirstOfSwitchesL(m, n), (n - m) % 2 = 0,
                    NEW l \in 1..(n - 1), FirstOfSwitchesL(l, n), (n - l) % 2 = 1
             PROVE  FALSE
  BY DEF Paired, NamesLibrary
<1>1. CASE l = m
  BY <1>1
<1>2. CASE l < m
  <2>1. m - 1 \in l..(n - 1) /\ m # 1
    BY <1>2
  <2> QED
    BY <2>1 DEF FirstOfSwitchesL
<1>3. CASE m < l
  <2>1. l - 1 \in m..(n - 1) /\ l # 1
    BY <1>3
  <2> QED
    BY <2>1 DEF FirstOfSwitchesL
<1> QED
  BY <1>1, <1>2, <1>3

LEMMA PairedAfterOther ==
  ASSUME argv \in Seq(STRING), NEW n \in Nat \ {0}, argv[n] # "-l"
  PROVE  Paired(n + 1)
<1>1. FirstOfSwitchesL(n + 1, n + 1) /\ n + 1 \in 1..(n + 1)
  BY DEF FirstOfSwitchesL
<1>2. ((n + 1) - (n + 1)) % 2 = 0
  OBVIOUS
<1> QED
  BY <1>1, <1>2 DEF Paired

LEMMA PairedAfterSwitchL ==
  ASSUME argv \in Seq(STRING), NEW n \in Nat \ {0}, Paired(n), argv[n] = "-l"
  PROVE  Paired(n + 2) /\ NamesLibrary(n + 1)
<1>1. PICK m \in 1..n : FirstOfSwitchesL(m, n) /\ (n - m) % 2 = 0
  BY DEF Paired
<1>2. FirstOfSwitchesL(m, n + 1)
  <2>1. \A k \in m..n : argv[k] = "-l"
    BY <1>1 DEF FirstOfSwitchesL
  <2> QED
    BY <1>1, <2>1 DEF FirstOfSwitchesL
<1>3. NamesLibrary(n + 1)
  <2>1. ((n + 1) - m) % 2 = 1 /\ m \in 1..((n + 1) - 1)
    BY <1>1
  <2> QED
    BY <1>2, <2>1 DEF NamesLibrary
<1>4. CASE argv[n + 1] = "-l"
  <2>1. FirstOfSwitchesL(m, n + 2)
    BY <1>2, <1>4 DEF FirstOfSwitchesL
  <2>2. ((n + 2) - m) % 2 = 0 /\ m \in 1..(n + 2)
    BY <1>1
  <2> QED
    BY <1>3, <2>1, <2>2 DEF Paired
<1>5. CASE argv[n + 1] # "-l"
  BY <1>3, <1>5, PairedAfterOther
<1> QED
  BY <1>4, <1>5
--------------------------------------------------------------------------------
(* A call for one argument returns one design file or none. *)
LEMMA ParseOutcome ==
  ASSUME files \in Seq(AnyFile), NEW s \in STRING, NEW lib \in NamedLibrary,
         IF s \in Exists THEN ParseFile(s, lib) ELSE ThrowUnread(s),
         files' # files
  PROVE  LET f == DesignFile(s, IF s \in LooksEmbedded THEN PrefixOf[s] ELSE lib)
         IN  f \in AnyFile /\ files' = Append(files, f)
<1> DEFINE library == IF s \in LooksEmbedded THEN PrefixOf[s] ELSE lib
<1>1. /\ s \in Source
      /\ Parse(s, library)
  BY SourceAssumption DEF ParseFile, ThrowUnread
<1>2. files' = Append(files, DesignFile(s, library))
  BY <1>1 DEF Parse
<1>3. library \in LibraryName
  BY DEF LibraryName
<1> QED
  BY <1>1, <1>2, <1>3 DEF DesignFile, AnyFile

(* What a file argument does to the results: one more, or one error more.   *)
LEMMA FileOutcome ==
  ASSUME LoopTyped, SourceFile, actual_libname = LibraryAt(i)
  PROVE  \/ /\ ResultOf(i) \in AnyFile
            /\ results' = Append(results, ResultOf(i))
            /\ syntax_error_count' = syntax_error_count
         \/ /\ results' = results
            /\ syntax_error_count' = syntax_error_count + 1
<1>1. CASE files' # files
  <2>1. argv[i] \in STRING /\ actual_libname \in NamedLibrary
    BY DEF LoopTyped, SourceFile
  <2>2. /\ ResultOf(i) \in AnyFile
        /\ files' = Append(files, ResultOf(i))
    BY <1>1, <2>1, ParseOutcome DEF SourceFile, LoopTyped, ResultOf
  <2>3. files'[Len(files')] = ResultOf(i)
    BY <2>2, AppendProperties DEF LoopTyped
  <2> QED
    BY <1>1, <2>2, <2>3 DEF SourceFile
<1>2. CASE files' = files
  BY <1>2 DEF SourceFile
<1> QED
  BY <1>1, <1>2

LEMMA LoopTypedStep ==
  ASSUME LoopTyped, [Next]_vars
  PROVE  LoopTyped'
<1> USE StatusAssumption DEF LoopTyped, parserVars
<1>1. CASE Usage
  BY <1>1 DEF Usage, Exit
<1>2. CASE SwitchV
  BY <1>2 DEF SwitchV, AtArgument
<1>3. CASE SwitchL
  <2>1. i + 1 <= Len(argv) => argv[i + 1] \in NamedLibrary
    BY DEF NamedLibrary
  <2> QED
    BY <1>3, <2>1 DEF SwitchL, AtArgument
<1>4. CASE SourceFile
  <2>1. argv' = argv /\ pc' = pc /\ i' = i + 1 /\ i' \in 1..(Len(argv) + 1)
        /\ actual_libname' = actual_libname /\ status' = status
    BY <1>4 DEF SourceFile
  <2>2. argv[i] \in STRING
    BY <1>4 DEF SourceFile
  <2>3. CASE files' # files
    <3> DEFINE f == DesignFile(argv[i], IF argv[i] \in LooksEmbedded THEN PrefixOf[argv[i]]
                                        ELSE actual_libname)
    <3>1. f \in AnyFile /\ files' = Append(files, f)
      BY <1>4, <2>2, <2>3, ParseOutcome DEF SourceFile
    <3> HIDE DEF f
    <3>2. files' \in Seq(AnyFile) /\ files'[Len(files')] = f
      BY <3>1, AppendProperties
    <3>3. results' = Append(results, f) /\ syntax_error_count' = syntax_error_count
      BY <1>4, <2>3, <3>2 DEF SourceFile
    <3>4. results' \in Seq(AnyFile) /\ elaborated' = elaborated
      BY <1>4, <3>1, <3>3, AppendProperties DEF SourceFile
    <3> QED
      BY <2>1, <3>2, <3>3, <3>4
  <2>4. CASE files' = files
    BY <1>4, <2>1, <2>4 DEF SourceFile
  <2> QED
    BY <2>3, <2>4
<1>5. CASE Elaborate
  BY <1>5 DEF Elaborate, Exit
<1>6. CASE UNCHANGED vars
  BY <1>6 DEF vars, driverVars
<1> QED
  BY <1>1, <1>2, <1>3, <1>4, <1>5, <1>6 DEF Next

(* The command line stays, and so does all that is defined by it. *)
LEMMA ArgvStays ==
  ASSUME [Next]_vars
  PROVE  argv' = argv
BY DEF Next, Usage, SwitchV, SwitchL, SourceFile, Elaborate, vars, driverVars

LEMMA ByArgv ==
  ASSUME argv' = argv
  PROVE  /\ \A n : Paired(n)' <=> Paired(n)
         /\ \A n : NamesLibrary(n)' <=> NamesLibrary(n)
         /\ FileArguments' = FileArguments
         /\ \A n : FilesBefore(n)' = FilesBefore(n)
         /\ \A n : LibraryAt(n)' = LibraryAt(n)
         /\ \A n : ResultOf(n)' = ResultOf(n)
BY DEF Paired, NamesLibrary, FirstOfSwitchesL, FileArguments, IsFileArgument, FilesBefore,
       LibraryAt, ResultOf
--------------------------------------------------------------------------------
(* One turn of the loop: a -v, a -l with its name, or a file. *)
LEMMA LoopTurn ==
  ASSUME LoopTyped, [Next]_vars, pc' = "arguments", i' # i
  PROVE  /\ pc = "arguments" /\ i \in 1..Len(argv)
         /\ \/ /\ SwitchV /\ argv[i] = "-v" /\ i' = i + 1
            \/ /\ SwitchL /\ argv[i] = "-l" /\ i' = i + 2 /\ i + 1 <= Len(argv)
            \/ /\ SourceFile /\ argv[i] \notin Switches /\ i' = i + 1
BY DEF LoopTyped, Next, Usage, SwitchV, SwitchL, SourceFile, Elaborate, Exit, AtArgument, vars,
       driverVars

LEMMA PairedStep ==
  ASSUME LoopInv, [Next]_vars
  PROVE  AtSwitchOrFile'
<1> SUFFICES ASSUME pc' = "arguments" PROVE Paired(i')
  BY ArgvStays, ByArgv DEF AtSwitchOrFile, Paired, FirstOfSwitchesL
<1>1. CASE i' = i
  <2>1. pc = "arguments"
    BY <1>1 DEF Next, Usage, SwitchV, SwitchL, SourceFile, Elaborate, Exit, AtArgument, vars,
                driverVars
  <2> QED
    BY <1>1, <2>1 DEF LoopInv, AtSwitchOrFile
<1>2. CASE i' # i
  <2>1. argv \in Seq(STRING) /\ i \in Nat \ {0} /\ Paired(i)
    BY <1>2, LoopTurn DEF LoopInv, LoopTyped, AtSwitchOrFile
  <2>2. CASE i' = i + 1 /\ argv[i] # "-l"
    BY <2>1, <2>2, PairedAfterOther
  <2>3. CASE i' = i + 2 /\ argv[i] = "-l"
    BY <2>1, <2>3, PairedAfterSwitchL
  <2> QED
    BY <1>2, <2>2, <2>3, LoopTurn DEF LoopInv, Switches
<1> QED
  BY <1>1, <1>2

(* The arguments a turn passes: what is a file among them, and which        *)
(* library holds after them.                                                *)
LEMMA PassedSwitchV ==
  ASSUME LoopInv, pc = "arguments", i \in 1..Len(argv), argv[i] = "-v"
  PROVE  FilesBefore(i + 1) = FilesBefore(i)
BY DEF LoopInv, LoopTyped, FilesBefore, FileArguments, IsFileArgument, Switches

LEMMA PassedSwitchL ==
  ASSUME LoopInv, pc = "arguments", i \in 1..Len(argv), argv[i] = "-l", i + 1 <= Len(argv)
  PROVE  FilesBefore(i + 2) = FilesBefore(i) /\ LibraryAt(i + 2) = argv[i + 1]
<1>1. NamesLibrary(i + 1)
  BY PairedAfterSwitchL DEF LoopInv, LoopTyped, AtSwitchOrFile
<1>2. i \notin FileArguments /\ i + 1 \notin FileArguments
  BY <1>1 DEF FileArguments, IsFileArgument, Switches
<1>3. FilesBefore(i + 2) = FilesBefore(i)
  BY <1>2 DEF FilesBefore, FileArguments
<1>4. LibraryAt(i + 2) = argv[i + 1]
  <2> DEFINE named == {m \in 1..((i + 2) - 1) : NamesLibrary(m)}
  <2>1. i + 1 \in named /\ \A k \in named : k <= i + 1
    BY <1>1
  <2>2. \A m \in named : (\A k \in named : k <= m) => m = i + 1
    BY <2>1
  <2>3. named # {} /\ (CHOOSE m \in named : \A k \in named : k <= m) = i + 1
    BY <2>1, <2>2
  <2> QED
    BY <2>3 DEF LibraryAt
<1> QED
  BY <1>3, <1>4

LEMMA PassedFile ==
  ASSUME LoopInv, pc = "arguments", i \in 1..Len(argv), argv[i] \notin Switches
  PROVE  /\ i \in FileArguments /\ i \notin FilesBefore(i)
         /\ FilesBefore(i + 1) = FilesBefore(i) \cup {i}
<1>1. ~NamesLibrary(i)
  BY PairedIsNoName DEF LoopInv, LoopTyped, AtSwitchOrFile
<1>2. i \in FileArguments
  BY <1>1 DEF FileArguments, IsFileArgument
<1> QED
  BY <1>2 DEF FilesBefore, FileArguments

LEMMA PassedNoName ==
  ASSUME LoopInv, pc = "arguments", i \in 1..Len(argv)
  PROVE  LibraryAt(i + 1) = LibraryAt(i)
<1>1. ~NamesLibrary(i)
  BY PairedIsNoName DEF LoopInv, LoopTyped, AtSwitchOrFile
<1> DEFINE names(n) == {m \in 1..(n - 1) : NamesLibrary(m)}
           last(S) == IF S = {} THEN "work" ELSE argv[CHOOSE m \in S : \A k \in S : k <= m]
<1>2. names(i + 1) = names(i)
  BY <1>1 DEF LoopInv, LoopTyped
<1>3. \A n : LibraryAt(n) = last(names(n))
  BY DEF LibraryAt
<1> HIDE DEF names, last
<1> QED
  BY <1>2, <1>3
--------------------------------------------------------------------------------
LEMMA LibraryStep ==
  ASSUME LoopInv, LibrarySoFar, [Next]_vars
  PROVE  LibrarySoFar'
<1> SUFFICES ASSUME pc' = "arguments" PROVE actual_libname' = LibraryAt(i')
  BY ArgvStays, ByArgv DEF LibrarySoFar, LibraryAt, NamesLibrary, FirstOfSwitchesL
<1>1. CASE i' = i
  <2>1. pc = "arguments" /\ actual_libname' = actual_libname
    BY <1>1 DEF LoopInv, LoopTyped, Next, Usage, SwitchV, SwitchL, SourceFile, Elaborate, Exit,
                AtArgument, vars, driverVars
  <2> QED
    BY <1>1, <2>1 DEF LibrarySoFar
<1>2. CASE i' # i
  <2>1. pc = "arguments" /\ i \in 1..Len(argv) /\ actual_libname = LibraryAt(i)
    BY <1>2, LoopTurn DEF LoopInv, LibrarySoFar
  <2>2. CASE SwitchL /\ argv[i] = "-l" /\ i' = i + 2 /\ i + 1 <= Len(argv)
    <3>1. actual_libname' = argv[i + 1]
      BY <2>2 DEF SwitchL
    <3> QED
      BY <2>1, <2>2, <3>1, PassedSwitchL
  <2>3. CASE (SwitchV \/ SourceFile) /\ i' = i + 1
    <3>1. actual_libname' = actual_libname
      BY <2>3 DEF SwitchV, SourceFile
    <3> QED
      BY <2>1, <2>3, <3>1, PassedNoName
  <2> QED
    BY <1>2, <2>2, <2>3, LoopTurn DEF LoopInv
<1> QED
  BY <1>1, <1>2

LEMMA FileSetsFinite ==
  ASSUME LoopTyped, NEW n
  PROVE  IsFiniteSet(FilesBefore(n)) /\ Cardinality(FilesBefore(n)) \in Nat
<1>1. Len(argv) \in Nat
  BY DEF LoopTyped
<1>2. IsFiniteSet(1..Len(argv)) /\ FilesBefore(n) \subseteq 1..Len(argv)
  BY <1>1, FS_Interval DEF FilesBefore, FileArguments
<1> QED
  BY <1>2, FS_Subset, FS_CardinalityType

LEMMA CountedStep ==
  ASSUME LoopInv, LibrarySoFar, CountedSoFar, [Next]_vars
  PROVE  CountedSoFar'
<1> SUFFICES ASSUME pc' = "arguments"
             PROVE  syntax_error_count' + Len(results') = Cardinality(FilesBefore(i'))
  BY ArgvStays, ByArgv
     DEF CountedSoFar, FilesBefore, FileArguments, IsFileArgument, NamesLibrary, FirstOfSwitchesL
<1>1. CASE i' = i
  <2>1. pc = "arguments" /\ syntax_error_count' = syntax_error_count /\ results' = results
    BY <1>1 DEF LoopInv, LoopTyped, Next, Usage, SwitchV, SwitchL, SourceFile, Elaborate, Exit,
                AtArgument, vars, driverVars
  <2> QED
    BY <1>1, <2>1 DEF CountedSoFar
<1>2. CASE i' # i
  <2>1. /\ pc = "arguments" /\ i \in 1..Len(argv)
        /\ syntax_error_count + Len(results) = Cardinality(FilesBefore(i))
    BY <1>2, LoopTurn DEF LoopInv, CountedSoFar
  <2>2. CASE SwitchV /\ argv[i] = "-v" /\ i' = i + 1
    <3>1. syntax_error_count' = syntax_error_count /\ results' = results
      BY <2>2 DEF SwitchV
    <3> QED
      BY <2>1, <2>2, <3>1, PassedSwitchV
  <2>3. CASE SwitchL /\ argv[i] = "-l" /\ i' = i + 2 /\ i + 1 <= Len(argv)
    <3>1. syntax_error_count' = syntax_error_count /\ results' = results
      BY <2>3 DEF SwitchL
    <3> QED
      BY <2>1, <2>3, <3>1, PassedSwitchL
  <2>4. CASE SourceFile /\ argv[i] \notin Switches /\ i' = i + 1
    <3>1. Cardinality(FilesBefore(i + 1)) = Cardinality(FilesBefore(i)) + 1
      BY <2>1, <2>4, PassedFile, FileSetsFinite, FS_AddElement DEF LoopInv
    <3>2. /\ syntax_error_count \in Nat /\ Len(results) \in Nat
          /\ \/ /\ Len(results') = Len(results) + 1
                /\ syntax_error_count' = syntax_error_count
             \/ /\ results' = results
                /\ syntax_error_count' = syntax_error_count + 1
      BY <2>1, <2>4, FileOutcome, AppendProperties DEF LoopInv, LoopTyped, LibrarySoFar
    <3> QED
      BY <2>1, <2>4, <3>1, <3>2
  <2> QED
    BY <1>2, <2>2, <2>3, <2>4, LoopTurn DEF LoopInv
<1> QED
  BY <1>1, <1>2
--------------------------------------------------------------------------------
(* Each result has its argument, all of them before i, in their order. *)
FollowSoFar == pc = "arguments" => ResultsFollow

\* The argument at i is what a new result comes from.
LEMMA FollowsAppend ==
  ASSUME LoopInv, pc = "arguments", i \in 1..Len(argv), argv[i] \notin Switches,
         argv' = argv, NEW at, Follows(at, i), ResultOf(i) \in AnyFile,
         results' = Append(results, ResultOf(i))
  PROVE  \E new : /\ new \in [DOMAIN results' -> FilesBefore(i + 1)]
                  /\ \A k, l \in DOMAIN results' : k < l => new[k] < new[l]
                  /\ \A k \in DOMAIN results' : results'[k] = ResultOf(new[k])
<1> DEFINE new == [k \in DOMAIN results' |-> IF k \in DOMAIN results THEN at[k] ELSE i]
<1>1. /\ DOMAIN results = 1..Len(results) /\ Len(results) \in Nat
      /\ DOMAIN results' = 1..(Len(results) + 1)
      /\ \A k \in DOMAIN results : results'[k] = results[k]
      /\ results'[Len(results) + 1] = ResultOf(i)
  BY AppendProperties DEF LoopInv, LoopTyped
<1>2. FilesBefore(i + 1) = FilesBefore(i) \cup {i}
  BY PassedFile
<1>3. /\ \A k \in DOMAIN results : at[k] \in FilesBefore(i)
      /\ \A k, l \in DOMAIN results : k < l => at[k] < at[l]
      /\ \A k \in DOMAIN results : results[k] = ResultOf(at[k])
  BY DEF Follows
<1>4. new \in [DOMAIN results' -> FilesBefore(i + 1)]
  BY <1>2, <1>3
<1>5. ASSUME NEW k \in DOMAIN results', NEW l \in DOMAIN results', k < l
      PROVE  new[k] < new[l]
  <2>1. k \in DOMAIN results /\ at[k] < i
    BY <1>1, <1>3, <1>5 DEF FilesBefore
  <2>2. CASE l \in DOMAIN results
    BY <1>3, <1>5, <2>1, <2>2
  <2>3. CASE l \notin DOMAIN results
    BY <1>5, <2>1, <2>3
  <2> QED
    BY <2>2, <2>3
<1>6. ASSUME NEW k \in DOMAIN results'
      PROVE  results'[k] = ResultOf(new[k])
  <2>1. CASE k \in DOMAIN results
    BY <1>1, <1>3, <2>1
  <2>2. CASE k \notin DOMAIN results
    <3>1. k = Len(results) + 1 /\ new[k] = i
      BY <1>1, <2>2
    <3> QED
      BY <1>1, <3>1
  <2> QED
    BY <2>1, <2>2
<1> HIDE DEF new
<1> QED
  BY <1>4, <1>5, <1>6

LEMMA FollowStep ==
  ASSUME LoopInv, LibrarySoFar, FollowSoFar, [Next]_vars
  PROVE  FollowSoFar'
<1>1. argv' = argv
  BY ArgvStays
<1>2. FilesBefore(i)' = FilesBefore(i')
  BY <1>1 DEF FilesBefore, FileArguments, IsFileArgument, NamesLibrary, FirstOfSwitchesL
<1>3. \A n : ResultOf(n)' = ResultOf(n)
  BY <1>1, ByArgv
<1> SUFFICES ASSUME pc' = "arguments"
             PROVE  \E at : /\ at \in [DOMAIN results' -> FilesBefore(i')]
                            /\ \A k, l \in DOMAIN results' : k < l => at[k] < at[l]
                            /\ \A k \in DOMAIN results' : results'[k] = ResultOf(at[k])
  BY <1>2, <1>3 DEF FollowSoFar, ResultsFollow, Follows
<1>4. CASE i' = i
  <2>1. pc = "arguments" /\ results' = results
    BY <1>4 DEF LoopInv, LoopTyped, Next, Usage, SwitchV, SwitchL, SourceFile, Elaborate, Exit,
                AtArgument, vars, driverVars
  <2> QED
    BY <1>4, <2>1 DEF FollowSoFar, ResultsFollow, Follows
<1>5. CASE i' # i
  <2>1. pc = "arguments" /\ i \in 1..Len(argv) /\ i \in Nat
    BY <1>5, LoopTurn DEF LoopInv
  <2>2. PICK at : Follows(at, i)
    BY <2>1 DEF FollowSoFar, ResultsFollow
  <2>3. ASSUME results' = results, FilesBefore(i) \subseteq FilesBefore(i')
        PROVE  \E new : /\ new \in [DOMAIN results' -> FilesBefore(i')]
                        /\ \A k, l \in DOMAIN results' : k < l => new[k] < new[l]
                        /\ \A k \in DOMAIN results' : results'[k] = ResultOf(new[k])
    BY <2>2, <2>3 DEF Follows
  <2>4. CASE SwitchV /\ argv[i] = "-v" /\ i' = i + 1
    BY <2>1, <2>3, <2>4, PassedSwitchV DEF SwitchV
  <2>5. CASE SwitchL /\ argv[i] = "-l" /\ i' = i + 2 /\ i + 1 <= Len(argv)
    BY <2>1, <2>3, <2>5, PassedSwitchL DEF SwitchL
  <2>6. CASE SourceFile /\ argv[i] \notin Switches /\ i' = i + 1
    <3>1. CASE results' = results
      BY <2>1, <2>3, <2>6, <3>1, PassedFile
    <3>2. CASE ResultOf(i) \in AnyFile /\ results' = Append(results, ResultOf(i))
      BY <1>1, <2>1, <2>2, <2>6, <3>2, FollowsAppend
    <3> QED
      BY <2>1, <2>6, <3>1, <3>2, FileOutcome DEF LoopInv, LibrarySoFar
  <2> QED
    BY <1>5, <2>4, <2>5, <2>6, LoopTurn DEF LoopInv
<1> QED
  BY <1>4, <1>5
--------------------------------------------------------------------------------
CommandInv ==
  /\ LoopInv /\ LibrarySoFar /\ CountedSoFar /\ FollowSoFar
  /\ StatusCountsMissingFiles /\ EachResultFollowsItsArgument

LEMMA CommandInit == Init => CommandInv
<1> SUFFICES ASSUME Init PROVE CommandInv
  OBVIOUS
<1> USE StatusAssumption DEF Init, ParserInit
<1>1. LoopTyped
  <2>1. argv \in Seq(STRING) /\ <<>> \in Seq(AnyFile) /\ "work" \in NamedLibrary
    <3>1. argv \in CommandLines
      OBVIOUS
    <3>2. argv \in Seq(STRING)
      BY <3>1, ArgumentAssumption
    <3>3. <<>> \in Seq(AnyFile)
      BY EmptySeq
    <3>4. "work" \in NamedLibrary
      BY DEF NamedLibrary
    <3> HIDE DEF Init, ParserInit
    <3> QED
      BY <3>2, <3>3, <3>4
  <2>2. 1 \in 1..(Len(argv) + 1) /\ 0 \in 0..(StatusValues - 1)
    BY <2>1
  <2> QED
    BY <2>1, <2>2 DEF LoopTyped
<1>2. AtSwitchOrFile
  BY DEF AtSwitchOrFile, Paired, FirstOfSwitchesL
<1>3. LibrarySoFar
  BY DEF LibrarySoFar, LibraryAt
<1>4. FilesBefore(1) = {}
  BY DEF FilesBefore, FileArguments
<1>5. CountedSoFar
  <2>1. i = 1 /\ syntax_error_count = 0 /\ results = <<>>
    OBVIOUS
  <2>2. Cardinality(FilesBefore(i)) = 0
    BY <1>4, <2>1, FS_EmptySet
  <2>3. Len(results) = 0
    BY <2>1
  <2> QED
    BY <2>1, <2>2, <2>3 DEF CountedSoFar
<1>6. FollowSoFar
  <2>1. Follows(<<>>, 1)
    BY <1>4 DEF Follows
  <2> QED
    BY <2>1 DEF FollowSoFar, ResultsFollow
<1> QED
  BY <1>1, <1>2, <1>3, <1>5, <1>6
     DEF CommandInv, LoopInv, StatusCountsMissingFiles, EachResultFollowsItsArgument

(* The loop ends after the last argument; what it says of those before i is *)
(* then said of all.                                                        *)
LEMMA AllPassed ==
  ASSUME LoopTyped, i > Len(argv)
  PROVE  FilesBefore(i) = FileArguments
BY DEF LoopTyped, FilesBefore, FileArguments

LEMMA ElaborateStep ==
  ASSUME CommandInv, Elaborate
  PROVE  StatusCountsMissingFiles' /\ EachResultFollowsItsArgument'
<1>1. /\ argv' = argv /\ results' = results /\ elaborated' = results /\ pc = "arguments"
      /\ status' = syntax_error_count % StatusValues /\ FilesBefore(i) = FileArguments
  BY AllPassed DEF CommandInv, LoopInv, Elaborate, Exit
<1>2. FileArguments' = FileArguments /\ (\A n : ResultOf(n)' = ResultOf(n))
  BY <1>1, ByArgv
<1>3. StatusCountsMissingFiles'
  <2>1. DOMAIN results = 1..Len(results) /\ Len(results) \in Nat /\ syntax_error_count \in Nat
    BY DEF CommandInv, LoopInv, LoopTyped
  <2>2. Cardinality(DOMAIN results) = Len(results)
    <3>1. Cardinality(1..Len(results)) = IF 1 > Len(results) THEN 0 ELSE Len(results) - 1 + 1
      BY <2>1, FS_Interval
    <3> QED
      BY <2>1, <3>1
  <2>3. syntax_error_count + Len(results) = Cardinality(FileArguments)
    BY <1>1 DEF CommandInv, CountedSoFar
  <2>4. syntax_error_count = Cardinality(FileArguments) - Cardinality(DOMAIN results)
    BY <1>1, <2>1, <2>2, <2>3, FileSetsFinite DEF CommandInv, LoopInv
  <2> QED
    BY <1>1, <1>2, <2>4 DEF StatusCountsMissingFiles
<1>4. EachResultFollowsItsArgument'
  <2>1. PICK at : Follows(at, i)
    BY <1>1 DEF CommandInv, FollowSoFar, ResultsFollow
  <2>2. /\ at \in [DOMAIN results -> FileArguments]
        /\ \A m, n \in DOMAIN results : m < n => at[m] < at[n]
        /\ \A n \in DOMAIN results : results[n] = ResultOf(at[n])
    BY <1>1, <2>1 DEF Follows
  <2>3. /\ at \in [DOMAIN results' -> FileArguments']
        /\ \A m, n \in DOMAIN results' : m < n => at[m] < at[n]
        /\ \A n \in DOMAIN results' : results'[n] = ResultOf(at[n])'
    BY <1>1, <1>2, <2>2
  <2> QED
    BY <1>1, <2>3 DEF EachResultFollowsItsArgument, ResultOf
<1> QED
  BY <1>3, <1>4

LEMMA CommandStep == CommandInv /\ [Next]_vars => CommandInv'
<1> SUFFICES ASSUME CommandInv, [Next]_vars PROVE CommandInv'
  OBVIOUS
<1>1. LoopInv' /\ LibrarySoFar' /\ CountedSoFar' /\ FollowSoFar'
  BY LoopTypedStep, PairedStep, LibraryStep, CountedStep, FollowStep DEF CommandInv, LoopInv
<1>2. StatusCountsMissingFiles' /\ EachResultFollowsItsArgument'
  <2>1. CASE Elaborate
    BY <2>1, ElaborateStep
  <2>2. CASE Usage
    <3>1. /\ pc = "arguments" /\ argv = <<>> /\ argv' = <<>> /\ elaborated' = elaborated
          /\ results' = results
      BY <2>2 DEF Usage
    <3>2. results = <<>> /\ elaborated = <<>>
      <4>1. FilesBefore(i) = {}
        BY <3>1 DEF FilesBefore, FileArguments
      <4>2. PICK at : at \in [DOMAIN results -> {}]
        BY <3>1, <4>1 DEF CommandInv, FollowSoFar, ResultsFollow, Follows
      <4>3. DOMAIN results = {}
        BY <4>2
      <4> QED
        BY <3>1, <4>3 DEF CommandInv, LoopInv, LoopTyped
    <3>3. StatusCountsMissingFiles'
      BY <3>1 DEF StatusCountsMissingFiles
    <3>4. results' = <<>> /\ elaborated' = results' /\ DOMAIN results' = {}
      BY <3>1, <3>2
    <3>5. <<>> \in [DOMAIN results' -> FileArguments']
      BY <3>4
    <3>6. EachResultFollowsItsArgument'
      BY <3>4, <3>5 DEF EachResultFollowsItsArgument
    <3> QED
      BY <3>3, <3>6
  <2>3. CASE SwitchV \/ SwitchL \/ SourceFile
    <3>1. pc' # "exited"
      BY <2>3 DEF SwitchV, SwitchL, SourceFile, AtArgument
    <3> QED
      BY <3>1 DEF StatusCountsMissingFiles, EachResultFollowsItsArgument
  <2>4. CASE UNCHANGED vars
    <3>1. /\ pc' = pc /\ argv' = argv /\ elaborated' = elaborated /\ results' = results
          /\ status' = status
      BY <2>4 DEF vars, driverVars
    <3>2. FileArguments' = FileArguments /\ (\A n : ResultOf(n)' = ResultOf(n))
      BY <3>1, ByArgv
    <3>3. StatusCountsMissingFiles'
      BY <3>1, <3>2 DEF CommandInv, StatusCountsMissingFiles
    <3>4. EachResultFollowsItsArgument'
      <4> SUFFICES ASSUME pc = "exited" PROVE EachResultFollowsItsArgument'
        BY <3>1 DEF EachResultFollowsItsArgument
      <4>1. PICK at \in [DOMAIN results -> FileArguments] :
               /\ \A m, n \in DOMAIN results : m < n => at[m] < at[n]
               /\ \A n \in DOMAIN results : results[n] = ResultOf(at[n])
        BY DEF CommandInv, EachResultFollowsItsArgument, ResultOf
      <4>2. elaborated' = results'
        BY <3>1 DEF CommandInv, EachResultFollowsItsArgument
      <4>3. /\ at \in [DOMAIN results' -> FileArguments']
            /\ \A m, n \in DOMAIN results' : m < n => at[m] < at[n]
            /\ \A n \in DOMAIN results' : results'[n] = ResultOf(at[n])'
        BY <3>1, <3>2, <4>1
      <4> QED
        BY <4>2, <4>3 DEF EachResultFollowsItsArgument, ResultOf
    <3> QED
      BY <3>3, <3>4
  <2> QED
    BY <2>1, <2>2, <2>3, <2>4 DEF Next
<1> QED
  BY <1>1, <1>2 DEF CommandInv

LEMMA CommandInvariant == Spec => []CommandInv
BY CommandInit, CommandStep, PTL DEF Spec

(* The loop stays inside the command line, and no result names a source     *)
(* there is none of, for any arguments (main.cpp:26).                       *)
THEOREM TypeCorrect == Spec => []TypeOK
<1>1. CommandInv => TypeOK
  <2> SUFFICES ASSUME CommandInv PROVE TypeOK
    OBVIOUS
  <2>1. LoopTyped /\ \A n \in DOMAIN results : results[n] \in AnyFile
    BY DEF CommandInv, LoopInv, LoopTyped
  <2> QED
    BY <2>1 DEF LoopTyped, TypeOK, AnyFile
<1> QED
  BY <1>1, CommandInvariant, PTL

(* What is elaborated is, in the order of the command line, the file        *)
(* arguments that parsed, each in the library named last before it, however *)
(* many -l's stand in a row (main.cpp:29).                                  *)
THEOREM ResultsFollowArguments == Spec => []EachResultFollowsItsArgument
<1>1. CommandInv => EachResultFollowsItsArgument
  BY DEF CommandInv
<1> QED
  BY <1>1, CommandInvariant, PTL

(* The exit status is the number of file arguments that did not become      *)
(* results, in the width of a status (main.cpp:61).                         *)
THEOREM StatusIsTheCount == Spec => []StatusCountsMissingFiles
<1>1. CommandInv => StatusCountsMissingFiles
  BY DEF CommandInv
<1> QED
  BY <1>1, CommandInvariant, PTL
================================================================================
