--------------------------- MODULE ParserClientProofs ---------------------------
(***************************************************************************)
(* What a client may rely on whatever it calls, for all sources and any    *)
(* number of calls.  The invariant says of each design file on its own     *)
(* that it is good; a call appends files or nothing.                       *)
(***************************************************************************)
EXTENDS ParserClient, SequenceTheorems, FiniteSetTheorems, TLAPS

Libraries == Library \cup {PrefixOf[s] : s \in LooksEmbedded} \cup {"STD"}
GoodFile ==
  {f \in [source : Source \cup {"STANDARD", "TEXTIO"}, lib_name : Libraries] :
     /\ f.source \in Source =>
          SyntaxErrors[f.source] = 0 /\ f.source \notin Unsupported
     /\ f.source \in Resource => f.lib_name = PrefixOf[f.source]}

SessionInv ==
  /\ calls \in 0..MaxCalls
  /\ errors \in Seq(Source)
  /\ thrown \in Seq(Source)
  /\ files \in Seq(GoodFile)

(* What design_file() recognises in a source adds its errors to the log. *)
LEMMA RecognizedLog ==
  ASSUME NEW log \in Seq(Source), NEW s \in Source
  PROVE  /\ Recognized(log, s) \in Seq(Source)
         /\ Len(Recognized(log, s)) = Len(log) + SyntaxErrors[s]
<1>1. SyntaxErrors[s] \in Nat
  BY SourceAssumption
<1> DEFINE logged == [n \in 1..SyntaxErrors[s] |-> s]
<1>2. logged \in Seq(Source) /\ Len(logged) = SyntaxErrors[s]
  BY <1>1
<1>3. Recognized(log, s) = log \o logged
  BY DEF Recognized
<1> HIDE DEF logged
<1> QED
  BY <1>2, <1>3, ConcatProperties

(* _parse returns only with an empty log and for a source without errors. *)
LEMMA AcceptedSource ==
  ASSUME NEW log \in Seq(Source), NEW s \in Source, Accepted(log, s)
  PROVE  log = <<>> /\ SyntaxErrors[s] = 0 /\ s \notin Unsupported
<1>1. Len(Recognized(log, s)) = 0 /\ s \notin Unsupported
  BY DEF Accepted, CheckErrors
<1>2. Len(log) \in Nat /\ SyntaxErrors[s] \in Nat
  BY SourceAssumption
<1>3. Len(log) = 0 /\ SyntaxErrors[s] = 0
  BY <1>1, <1>2, RecognizedLog
<1> QED
  BY <1>1, <1>3

(* One call of _parse, with the library a call may pass to it. *)
LEMMA ParseStep ==
  ASSUME SessionInv, NEW s \in Source, NEW lib \in Libraries,
         s \in Resource => lib = PrefixOf[s], Parse(s, lib)
  PROVE  /\ errors' \in Seq(Source) /\ thrown' \in Seq(Source)
         /\ files' \in Seq(GoodFile)
         /\ errors # <<>> => files' = files
<1>1. errors' \in Seq(Source)
  BY RecognizedLog DEF SessionInv, Parse
<1>2. CASE Accepted(errors, s)
  <2>1. errors = <<>> /\ SyntaxErrors[s] = 0 /\ s \notin Unsupported
    BY <1>2, AcceptedSource DEF SessionInv
  <2>2. DesignFile(s, lib) \in GoodFile
    BY <2>1 DEF DesignFile, GoodFile
  <2> QED
    BY <1>1, <1>2, <2>1, <2>2 DEF SessionInv, Parse
<1>3. CASE ~Accepted(errors, s)
  <2>1. thrown' = Append(thrown, s) /\ files' = files
    BY <1>3 DEF Parse
  <2> QED
    BY <1>1, <2>1, AppendProperties DEF SessionInv
<1> QED
  BY <1>2, <1>3

LEMMA ThrowUnreadStep ==
  ASSUME SessionInv, NEW s \in Source, ThrowUnread(s)
  PROVE  /\ errors' \in Seq(Source) /\ thrown' \in Seq(Source)
         /\ files' \in Seq(GoodFile)
         /\ files' = files
BY DEF SessionInv, ThrowUnread

(* The whole vector, or nothing but what the first resource that throws     *)
(* leaves in the log.                                                       *)
LEMMA LoadStep ==
  ASSUME SessionInv, LoadStandardizedPackages
  PROVE  /\ errors' \in Seq(Source) /\ thrown' \in Seq(Source)
         /\ files' \in Seq(GoodFile)
         /\ errors # <<>> => files' = files
<1> DEFINE rejected == {n \in DOMAIN Standardized : ~Accepted(errors, Standardized[n])}
           parsed == [n \in DOMAIN Standardized |->
                        DesignFile(Standardized[n], PrefixOf[Standardized[n]])]
<1>1. \A n \in DOMAIN Standardized :
        /\ Standardized[n] \in Resource /\ Standardized[n] \in Source
        /\ PrefixOf[Standardized[n]] \in Libraries
  BY SourceAssumption DEF Libraries
<1>2. CASE rejected = {}
  <2>1. \A n \in DOMAIN Standardized :
          /\ errors = <<>> /\ SyntaxErrors[Standardized[n]] = 0
          /\ Standardized[n] \notin Unsupported
    BY <1>1, <1>2, AcceptedSource DEF SessionInv
  <2>2. errors = <<>>
    <3>1. 1 \in DOMAIN Standardized
      <4>1. Len(Standardized) \in Nat /\ Len(Standardized) # 0
        BY SourceAssumption, EmptySeq
      <4> QED
        BY <4>1, SourceAssumption
    <3> QED
      BY <2>1, <3>1
  <2>3. \A n \in DOMAIN Standardized :
          DesignFile(Standardized[n], PrefixOf[Standardized[n]]) \in GoodFile
    BY <1>1, <2>1 DEF DesignFile, GoodFile
  <2>4. parsed \in Seq(GoodFile)
    <3>1. DOMAIN Standardized = 1..Len(Standardized) /\ Len(Standardized) \in Nat
      BY SourceAssumption
    <3>2. parsed \in [1..Len(Standardized) -> GoodFile]
      BY <2>3, <3>1
    <3> QED
      BY <3>1, <3>2, SeqDef
  <2>5. StdPackages \in Seq(GoodFile)
    BY SourceAssumption DEF StdPackages, DesignFile, GoodFile, Libraries
  <2>6. files' = files \o StdPackages \o parsed /\ UNCHANGED <<errors, thrown>>
    BY <1>2 DEF LoadStandardizedPackages
  <2>7. files' \in Seq(GoodFile)
    BY <2>4, <2>5, <2>6, ConcatProperties DEF SessionInv
  <2> QED
    BY <2>2, <2>6, <2>7 DEF SessionInv
<1>3. CASE rejected # {}
  <2>1. PICK first \in rejected :
          /\ errors' = Recognized(errors, Standardized[first])
          /\ thrown' = Append(thrown, Standardized[first])
          /\ UNCHANGED files
    BY <1>3 DEF LoadStandardizedPackages
  <2>2. Standardized[first] \in Source
    BY <1>1
  <2>3. errors' \in Seq(Source) /\ thrown' \in Seq(Source)
    BY <2>1, <2>2, RecognizedLog, AppendProperties DEF SessionInv
  <2> QED
    BY <2>1, <2>3 DEF SessionInv
<1> QED
  BY <1>2, <1>3

(* Each of the three calls is one of the steps above.                       *)
LEMMA SessionStep ==
  ASSUME SessionInv, [Next]_vars
  PROVE  SessionInv' /\ (errors # <<>> => files' = files)
<1>1. CASE UNCHANGED vars
  BY <1>1 DEF SessionInv, vars, parserVars
<1>2. CASE Next
  <2>1. calls' \in 0..MaxCalls
    BY <1>2, ClientAssumption DEF Next, SessionInv
  <2>2. ASSUME NEW s \in Source \ Text, NEW lib \in Library, ParseFile(s, lib)
        PROVE  SessionInv' /\ (errors # <<>> => files' = files)
    <3>1. CASE s \in LooksEmbedded /\ s \in Resource
      <4>1. Parse(s, PrefixOf[s]) /\ PrefixOf[s] \in Libraries
        BY <2>2, <3>1 DEF ParseFile, Libraries
      <4> QED
        BY <2>1, <4>1, ParseStep DEF SessionInv
    <3>2. CASE s \notin LooksEmbedded /\ s \in Readable
      <4>1. Parse(s, lib) /\ lib \in Libraries /\ s \notin Resource
        BY <2>2, <3>2, SourceAssumption DEF ParseFile, Libraries
      <4> QED
        BY <2>1, <4>1, ParseStep DEF SessionInv
    <3>3. CASE ThrowUnread(s)
      BY <2>1, <3>3, ThrowUnreadStep DEF SessionInv
    <3> QED
      BY <2>2, <3>1, <3>2, <3>3 DEF ParseFile
  <2>3. ASSUME NEW s \in Text, NEW lib \in Library, ParseStr(s, lib)
        PROVE  SessionInv' /\ (errors # <<>> => files' = files)
    <3>1. Parse(s, lib) /\ lib \in Libraries /\ s \in Source /\ s \notin Resource
      BY <2>3, ClientAssumption DEF ParseStr, Libraries
    <3> QED
      BY <2>1, <3>1, ParseStep DEF SessionInv
  <2>4. CASE LoadStandardizedPackages
    BY <2>1, <2>4, LoadStep DEF SessionInv
  <2> QED
    BY <1>2, <2>2, <2>3, <2>4 DEF Next
<1> QED
  BY <1>1, <1>2

LEMMA SessionInvariant == Spec => []SessionInv
<1>1. Init => SessionInv
  BY ClientAssumption DEF Init, ParserInit, SessionInv
<1>2. SessionInv /\ [Next]_vars => SessionInv'
  BY SessionStep
<1> QED
  BY <1>1, <1>2, PTL DEF Spec

(* The log and the list of throwing calls name sources, and every design    *)
(* file handed out is in a library a client asked for, STD, or one a        *)
(* resource's path names.                                                   *)
THEOREM TypeCorrect == Spec => []TypeOK
<1>1. SessionInv => TypeOK
  <2> SUFFICES ASSUME SessionInv PROVE TypeOK
    OBVIOUS
  <2>1. /\ \A n \in DOMAIN errors : errors[n] \in Source
        /\ \A n \in DOMAIN thrown : thrown[n] \in Source
        /\ \A n \in DOMAIN files : files[n] \in GoodFile
    BY DEF SessionInv
  <2> QED
    BY <2>1 DEF SessionInv, TypeOK, GoodFile, Libraries
<1> QED
  BY <1>1, SessionInvariant, PTL

(* Whatever the order of the calls and whichever of them threw, no design   *)
(* file of a source with syntax errors is handed out (parser.h:188).        *)
THEOREM FilesAreClean == Spec => []ReturnedFilesAreClean
<1>1. SessionInv => ReturnedFilesAreClean
  <2> SUFFICES ASSUME SessionInv PROVE ReturnedFilesAreClean
    OBVIOUS
  <2>1. \A n \in DOMAIN files : files[n] \in GoodFile
    BY DEF SessionInv
  <2> QED
    BY <2>1 DEF ReturnedFilesAreClean, GoodFile
<1> QED
  BY <1>1, SessionInvariant, PTL

(* A resource is in the library of its path, however it was asked for       *)
(* (parser.h:62).                                                           *)
THEOREM ResourceLibraries == Spec => []ResourcesKeepTheirLibrary
<1>1. SessionInv => ResourcesKeepTheirLibrary
  <2> SUFFICES ASSUME SessionInv PROVE ResourcesKeepTheirLibrary
    OBVIOUS
  <2>1. \A n \in DOMAIN files : files[n] \in GoodFile
    BY DEF SessionInv
  <2> QED
    BY <2>1 DEF ResourcesKeepTheirLibrary, GoodFile
<1> QED
  BY <1>1, SessionInvariant, PTL

(* One syntax error ends what a parser can return (syntax_error_logger.cpp  *)
(* line 29: nothing empties the log).                                       *)
THEOREM ErrorsAreForGood == Spec => NothingReturnsAfterAnError
<1>1. SessionInv /\ [Next]_vars => [errors # <<>> => files' = files]_parserVars
  BY SessionStep
<1> QED
  BY <1>1, SessionInvariant, PTL DEF Spec, NothingReturnsAfterAnError
--------------------------------------------------------------------------------
(* How often a source occurs among design files: what is appended counts    *)
(* only for the sources it has.                                             *)
At(f, s) == {n \in DOMAIN f : f[n].source = s}

LEMMA AtFinite ==
  ASSUME NEW S, NEW f \in Seq(S), NEW s
  PROVE  /\ IsFiniteSet(At(f, s)) /\ Cardinality(At(f, s)) \in Nat
         /\ \A n \in At(f, s) : n \in 1..Len(f)
<1>1. DOMAIN f = 1..Len(f) /\ Len(f) \in Nat
  OBVIOUS
<1>2. IsFiniteSet(1..Len(f)) /\ At(f, s) \subseteq 1..Len(f)
  BY <1>1, FS_Interval DEF At
<1>3. IsFiniteSet(At(f, s))
  BY <1>2, FS_Subset
<1> QED
  BY <1>2, <1>3, FS_CardinalityType

LEMMA ConcatWithout ==
  ASSUME NEW S, NEW f \in Seq(S), NEW g \in Seq(S), NEW s,
         \A n \in DOMAIN g : g[n].source # s
  PROVE  At(f \o g, s) = At(f, s)
<1>1. /\ DOMAIN f = 1..Len(f) /\ Len(f) \in Nat /\ DOMAIN g = 1..Len(g) /\ Len(g) \in Nat
      /\ DOMAIN (f \o g) = 1..(Len(f) + Len(g))
      /\ \A n \in DOMAIN f : (f \o g)[n] = f[n]
      /\ \A n \in 1..(Len(f) + Len(g)) : n > Len(f) => (f \o g)[n] = g[n - Len(f)]
  BY ConcatProperties
<1>2. \A n \in 1..(Len(f) + Len(g)) : n > Len(f) => n - Len(f) \in DOMAIN g
  BY <1>1
<1>3. ASSUME NEW n \in DOMAIN (f \o g), (f \o g)[n].source = s
      PROVE  n \in DOMAIN f
  BY <1>1, <1>2, <1>3
<1>4. DOMAIN f \subseteq DOMAIN (f \o g)
  BY <1>1
<1> QED
  BY <1>1, <1>3, <1>4 DEF At

LEMMA ConcatWith ==
  ASSUME NEW S, NEW f \in Seq(S), NEW g \in Seq(S), NEW s,
         NEW n \in DOMAIN g, g[n].source = s
  PROVE  /\ Cardinality(At(f \o g, s)) >= Cardinality(At(f, s)) + 1
         /\ (\A k \in DOMAIN g : g[k].source = s => k = n) =>
              Cardinality(At(f \o g, s)) = Cardinality(At(f, s)) + 1
<1>1. /\ DOMAIN f = 1..Len(f) /\ Len(f) \in Nat /\ DOMAIN g = 1..Len(g) /\ Len(g) \in Nat
      /\ DOMAIN (f \o g) = 1..(Len(f) + Len(g))
      /\ \A k \in DOMAIN f : (f \o g)[k] = f[k]
      /\ \A k \in 1..(Len(f) + Len(g)) : k > Len(f) => (f \o g)[k] = g[k - Len(f)]
  BY ConcatProperties
<1> DEFINE last == Len(f) + n
<1>2. last \in 1..(Len(f) + Len(g)) /\ last > Len(f) /\ last - Len(f) = n
  BY <1>1
<1>3. last \in At(f \o g, s) /\ last \notin At(f, s)
  BY <1>1, <1>2, AtFinite DEF At
<1>4. DOMAIN f \subseteq DOMAIN (f \o g)
  BY <1>1
<1>5. At(f, s) \cup {last} \subseteq At(f \o g, s)
  BY <1>1, <1>3, <1>4 DEF At
<1> HIDE DEF last
<1>6. f \o g \in Seq(S)
  BY ConcatProperties
<1>7. Cardinality(At(f, s) \cup {last}) = Cardinality(At(f, s)) + 1
  BY <1>3, AtFinite, FS_AddElement
<1>8. Cardinality(At(f, s) \cup {last}) <= Cardinality(At(f \o g, s))
  BY <1>5, <1>6, AtFinite, FS_Subset
<1>9. Cardinality(At(f, s)) \in Nat /\ Cardinality(At(f \o g, s)) \in Nat
  BY <1>6, AtFinite
<1>10. ASSUME \A k \in DOMAIN g : g[k].source = s => k = n
       PROVE  At(f \o g, s) = At(f, s) \cup {last}
  <2>1. ASSUME NEW k \in At(f \o g, s), k \notin At(f, s) PROVE k = last
    <3>1. k \in 1..(Len(f) + Len(g)) /\ (f \o g)[k].source = s /\ k > Len(f)
      BY <1>1, <2>1 DEF At
    <3>2. k - Len(f) \in DOMAIN g /\ g[k - Len(f)].source = s
      BY <1>1, <3>1
    <3>3. k - Len(f) = n
      BY <1>10, <3>2
    <3> QED
      BY <1>1, <3>1, <3>3 DEF last
  <2> QED
    BY <1>5, <2>1
<1> QED
  BY <1>7, <1>8, <1>9, <1>10

(* What a call appends: nothing, the file of one source, or the whole       *)
(* vector.                                                                  *)
ParsedFiles ==
  [n \in DOMAIN Standardized |-> DesignFile(Standardized[n], PrefixOf[Standardized[n]])]

LEMMA Appended ==
  ASSUME SessionInv, [Next]_vars
  PROVE  \/ files' = files
         \/ \E f \in GoodFile : f.source \in Source /\ files' = Append(files, f)
         \/ files' = files \o StdPackages \o ParsedFiles
<1>1. ASSUME NEW s \in Source, NEW lib, Parse(s, lib), files' # files
      PROVE  \E f \in GoodFile : f.source \in Source /\ files' = Append(files, f)
  <2>1. files' = Append(files, DesignFile(s, lib))
    BY <1>1 DEF Parse
  <2>2. files' \in Seq(GoodFile)
    BY SessionStep DEF SessionInv
  <2>3. DesignFile(s, lib) \in GoodFile
    BY <2>1, <2>2, AppendProperties DEF SessionInv
  <2> QED
    BY <2>1, <2>3 DEF DesignFile
<1>2. \A s \in Source, lib \in Library :
        (ParseFile(s, lib) \/ ParseStr(s, lib)) =>
           files' = files \/ (\E l : Parse(s, l))
  BY DEF ParseFile, ParseStr, ThrowUnread
<1>3. LoadStandardizedPackages =>
        files' = files \/ files' = files \o StdPackages \o ParsedFiles
  BY DEF LoadStandardizedPackages, ParsedFiles
<1> QED
  BY <1>1, <1>2, <1>3, ClientAssumption DEF Next, vars, parserVars

AllOrNone ==
  LET copies(s) == Cardinality(At(files, s))
  IN  /\ copies("STANDARD") = copies("TEXTIO")
      /\ \A n \in DOMAIN Standardized : copies("STANDARD") <= copies(Standardized[n])

LEMMA LoadKeepsAllOrNone ==
  ASSUME SessionInv, SessionInv', AllOrNone,
         files' = files \o StdPackages \o ParsedFiles
  PROVE  AllOrNone'
<1> DEFINE D1 == DesignFile("STANDARD", "STD")
           D2 == DesignFile("TEXTIO", "STD")
           S == [source : Source \cup {"STANDARD", "TEXTIO"}, lib_name : Libraries]
<1>1. /\ \A n \in DOMAIN Standardized : Standardized[n] \in Source
      /\ "STANDARD" \notin Source /\ "TEXTIO" \notin Source
  BY SourceAssumption
<1>2. files \in Seq(S) /\ StdPackages \in Seq(S) /\ ParsedFiles \in Seq(S)
  <2>1. files \in Seq(S)
    <3>1. Len(files) \in Nat /\ files \in [1..Len(files) -> GoodFile]
      BY DEF SessionInv
    <3>2. GoodFile \subseteq S
      BY DEF GoodFile
    <3>3. files \in [1..Len(files) -> S]
      BY <3>1, <3>2
    <3> HIDE DEF S
    <3> QED
      BY <3>1, <3>3, SeqDef
  <2>2. StdPackages \in Seq(S)
    BY DEF StdPackages, DesignFile, Libraries
  <2>3. Len(Standardized) \in Nat /\ DOMAIN Standardized = 1..Len(Standardized)
    BY SourceAssumption
  <2>4. \A n \in DOMAIN Standardized : ParsedFiles[n] \in S
    BY SourceAssumption DEF ParsedFiles, DesignFile, Libraries
  <2>5. ParsedFiles \in [1..Len(Standardized) -> S]
    BY <2>3, <2>4 DEF ParsedFiles
  <2> HIDE DEF S
  <2>6. ParsedFiles \in Seq(S)
    BY <2>3, <2>5, SeqDef
  <2> QED
    BY <2>1, <2>2, <2>6
<1> HIDE DEF S
<1>3. /\ DOMAIN StdPackages = {1, 2}
      /\ StdPackages[1].source = "STANDARD" /\ StdPackages[2].source = "TEXTIO"
  BY DEF StdPackages, DesignFile
<1>4. /\ DOMAIN ParsedFiles = DOMAIN Standardized
      /\ \A n \in DOMAIN Standardized : ParsedFiles[n].source = Standardized[n]
  BY DEF ParsedFiles, DesignFile
<1>5. files \o StdPackages \in Seq(S)
  BY <1>2, ConcatProperties
<1>6. ASSUME NEW p \in {"STANDARD", "TEXTIO"}
      PROVE  Cardinality(At(files', p)) = Cardinality(At(files, p)) + 1
  <2>1. \A n \in DOMAIN ParsedFiles : ParsedFiles[n].source # p
    BY <1>1, <1>4, <1>6
  <2>2. At(files', p) = At(files \o StdPackages, p)
    BY <1>2, <1>5, <2>1, ConcatWithout
  <2>3. PICK k \in DOMAIN StdPackages :
          /\ StdPackages[k].source = p
          /\ \A l \in DOMAIN StdPackages : StdPackages[l].source = p => l = k
    BY <1>3, <1>6
  <2> QED
    BY <1>2, <2>2, <2>3, ConcatWith
<1>7. ASSUME NEW n \in DOMAIN Standardized
      PROVE  Cardinality(At(files', Standardized[n])) >= Cardinality(At(files, Standardized[n])) + 1
  <2>1. \A k \in DOMAIN StdPackages : StdPackages[k].source # Standardized[n]
    BY <1>1, <1>3
  <2>2. At(files \o StdPackages, Standardized[n]) = At(files, Standardized[n])
    BY <1>2, <2>1, ConcatWithout
  <2>3. n \in DOMAIN ParsedFiles /\ ParsedFiles[n].source = Standardized[n]
    BY <1>4
  <2> QED
    BY <1>2, <1>5, <2>2, <2>3, ConcatWith
<1>8. files' \in Seq(S)
  BY <1>2, <1>5, ConcatProperties
<1>9. \A s : Cardinality(At(files, s)) \in Nat /\ Cardinality(At(files', s)) \in Nat
  BY <1>2, <1>8, AtFinite
<1> QED
  BY <1>6, <1>7, <1>9 DEF AllOrNone

LEMMA AllOrNoneStep ==
  ASSUME SessionInv, SessionInv', AllOrNone, [Next]_vars
  PROVE  AllOrNone'
<1>1. CASE files' = files
  BY <1>1 DEF AllOrNone
<1>2. ASSUME NEW f \in GoodFile, f.source \in Source, files' = Append(files, f)
      PROVE  AllOrNone'
  <2>1. files \in Seq(GoodFile) /\ <<f>> \in Seq(GoodFile) /\ files' = files \o <<f>>
    BY <1>2, AppendIsConcat DEF SessionInv
  <2>2. \A s : Cardinality(At(files, s)) \in Nat /\ Cardinality(At(files', s)) \in Nat
    BY AtFinite DEF SessionInv
  <2>3. ASSUME NEW s
        PROVE  /\ s # f.source => Cardinality(At(files', s)) = Cardinality(At(files, s))
               /\ s = f.source => Cardinality(At(files', s)) >= Cardinality(At(files, s)) + 1
    <3>1. DOMAIN <<f>> = {1} /\ <<f>>[1] = f
      OBVIOUS
    <3>2. CASE s # f.source
      BY <2>1, <3>1, <3>2, ConcatWithout
    <3>3. CASE s = f.source
      BY <2>1, <3>1, <3>3, ConcatWith
    <3> QED
      BY <3>2, <3>3
  <2>4. f.source # "STANDARD" /\ f.source # "TEXTIO"
    BY <1>2, SourceAssumption
  <2> HIDE DEF AllOrNone
  <2>5. \A s : Cardinality(At(files, s)) <= Cardinality(At(files', s))
    BY <2>2, <2>3
  <2>6. /\ Cardinality(At(files', "STANDARD")) = Cardinality(At(files, "STANDARD"))
        /\ Cardinality(At(files', "TEXTIO")) = Cardinality(At(files, "TEXTIO"))
    BY <2>3, <2>4
  <2> QED
    BY <2>2, <2>5, <2>6 DEF AllOrNone
<1> QED
  BY <1>1, <1>2, Appended, LoadKeepsAllOrNone

(* The two packages that are built and each resource that is parsed come    *)
(* together, whichever call failed before (parser.h:41: the vector is       *)
(* local).                                                                  *)
THEOREM StandardizedTogether == Spec => []StandardizedAllOrNone
<1>1. Init => AllOrNone
  <2> SUFFICES ASSUME Init PROVE AllOrNone
    OBVIOUS
  <2>1. \A s : At(files, s) = {}
    BY DEF Init, ParserInit, At
  <2>2. Cardinality({}) = 0
    BY FS_EmptySet
  <2> QED
    BY <2>1, <2>2 DEF AllOrNone
<1>2. SessionInv /\ SessionInv' /\ AllOrNone /\ [Next]_vars => AllOrNone'
  BY AllOrNoneStep
<1>3. AllOrNone => StandardizedAllOrNone
  BY DEF AllOrNone, StandardizedAllOrNone, CopiesOf, At
<1> QED
  BY <1>1, <1>2, <1>3, SessionInvariant, PTL DEF Spec
================================================================================
