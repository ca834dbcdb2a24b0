----------------------------- MODULE DesignRegistry -----------------------------
(***************************************************************************)
(* elaborator::add_design_files: callers hand over the files they parsed;  *)
(* each call registers the units of its files one by one while it holds    *)
(* files_mtx.                                                              *)
(***************************************************************************)
EXTENDS DesignUnits, FiniteSets, Lists

CONSTANTS
  Caller,      \* threads that call add_design_files, one call each
  FileSets     \* the arguments a call may have

ASSUME CallerAssumption ==
  /\ None \notin Caller
  /\ FileSets \subseteq Seq(File \cup {None})

VARIABLES
  files_mtx,                   \* the caller that holds the mutex, or None
  pc,                          \* per caller: where its call stands,
  file_set,                    \* its argument,
  df,                          \* the file the loop over it is at,
  unit,                        \* the unit the loop over df->units is at,
  use_clauses,                 \* and the clauses of the file seen so far
  files_by_lib,
  by_key,                      \* the six *_by_key maps: KeyOf(u) names the map
  architectures_by_entity_key,
  primary_units,
  secondary_units,
  packages_in_scope,           \* per unit: the use clauses it was given
  diagnostics

callVars == <<files_mtx, pc, file_set, df, unit, use_clauses>>
mapVars == <<by_key, architectures_by_entity_key>>
unitVars == <<primary_units, secondary_units, packages_in_scope>>
registryVars == <<files_by_lib, mapVars, unitVars, diagnostics>>
vars == <<callVars, registryVars>>

Init ==
  /\ files_mtx = None
  /\ pc = [c \in Caller |-> "idle"]
  /\ file_set = [c \in Caller |-> <<>>]
  /\ df = [c \in Caller |-> 1]
  /\ unit = [c \in Caller |-> 0]
  /\ use_clauses = [c \in Caller |-> <<>>]
  /\ files_by_lib = [l \in {FileLib[f] : f \in File} |-> <<>>]
  /\ by_key = [k \in Key |-> None]
  /\ architectures_by_entity_key = [ek \in EntityKey |-> <<>>]
  /\ primary_units = <<>>
  /\ secondary_units = <<>>
  /\ packages_in_scope = [u \in Registrable |-> <<>>]
  /\ diagnostics = <<>>

--------------------------------------------------------------------------------
(* Where a call stands: the file under the loop, the unit within it.  Unit 0 *)
(* is the head of the outer loop's body.                                     *)
CurrentFile(c) == file_set[c][df[c]]
CurrentUnit(c) == <<CurrentFile(c), unit[c]>>

AtFile(c) == pc[c] = "adding" /\ unit[c] = 0 /\ df[c] <= Len(file_set[c])
AtUnit(c, kinds) ==
  pc[c] = "adding" /\ unit[c] > 0 /\ IsKind(CurrentUnit(c), kinds)

(* On to the next unit of the file, or to the next file after the last one. *)
AdvanceLoops(c) ==
  /\ IF unit[c] < Len(FileUnits[CurrentFile(c)])
     THEN unit' = [unit EXCEPT ![c] = @ + 1] /\ df' = df
     ELSE unit' = [unit EXCEPT ![c] = 0] /\ df' = [df EXCEPT ![c] = @ + 1]
  /\ UNCHANGED <<files_mtx, pc, file_set>>

NextUnit(c) == AdvanceLoops(c) /\ UNCHANGED use_clauses

(* register_design_unit: emplace keeps the node that is there already; only *)
(* another node under the same key is worth a diagnostic.                   *)
Duplicate(k) == [what |-> "duplicate", key |-> k]

\* Mutant: insert_or_assign instead of emplace.
RegisterOver(u) ==
  LET k == KeyOf(u) IN
  /\ by_key' = [by_key EXCEPT ![k] = u]
  /\ diagnostics' = IF by_key[k] \in {None, u} THEN diagnostics
                    ELSE Append(diagnostics, Duplicate(k))

\* Mutant: a unit clashes with itself when its file is added again.
RegisterTwice(u) ==
  LET k == KeyOf(u) IN
  /\ by_key' = IF by_key[k] = None THEN [by_key EXCEPT ![k] = u] ELSE by_key
  /\ diagnostics' = IF by_key[k] = None THEN diagnostics
                    ELSE Append(diagnostics, Duplicate(k))

Register(u) ==
  LET k == KeyOf(u) IN
  /\ by_key' = IF by_key[k] = None THEN [by_key EXCEPT ![k] = u] ELSE by_key
  /\ diagnostics' = IF by_key[k] \in {None, u} THEN diagnostics
                    ELSE Append(diagnostics, Duplicate(k))

BringIntoScope(c, u) ==
  packages_in_scope' =
    [packages_in_scope EXCEPT ![u] = @ \o use_clauses[c]]

--------------------------------------------------------------------------------
Call(c, arg) ==
  /\ pc[c] = "idle"
  /\ pc' = [pc EXCEPT ![c] = "waiting"]
  /\ file_set' = [file_set EXCEPT ![c] = arg]
  /\ UNCHANGED <<files_mtx, df, unit, use_clauses, registryVars>>

\* Mutant: the lock is not waited for.
LockAnyway(c) ==
  /\ pc[c] = "waiting"
  /\ files_mtx' = c
  /\ pc' = [pc EXCEPT ![c] = "adding"]
  /\ UNCHANGED <<file_set, df, unit, use_clauses, registryVars>>

Lock(c) ==
  /\ pc[c] = "waiting"
  /\ files_mtx = None
  /\ files_mtx' = c
  /\ pc' = [pc EXCEPT ![c] = "adding"]
  /\ UNCHANGED <<file_set, df, unit, use_clauses, registryVars>>

\* Mutant: the loop does not step over a null file.
SkipNullFileForever(c) ==
  /\ AtFile(c)
  /\ CurrentFile(c) = None
  /\ UNCHANGED vars

SkipNullFile(c) ==
  /\ AtFile(c)
  /\ CurrentFile(c) = None
  /\ df' = [df EXCEPT ![c] = @ + 1]
  /\ UNCHANGED <<files_mtx, pc, file_set, unit, use_clauses, registryVars>>

\* Mutant: the vector of use clauses outlives its file.
OpenFileInScope(c) ==
  /\ AtFile(c)
  /\ CurrentFile(c) # None
  /\ files_by_lib' =
       [files_by_lib EXCEPT ![FileLib[CurrentFile(c)]] = Append(@, CurrentFile(c))]
  /\ NextUnit(c)
  /\ UNCHANGED <<mapVars, unitVars, diagnostics>>

(* A file's vectors of clauses start empty. *)
OpenFile(c) ==
  /\ AtFile(c)
  /\ CurrentFile(c) # None
  /\ files_by_lib' =
       [files_by_lib EXCEPT ![FileLib[CurrentFile(c)]] = Append(@, CurrentFile(c))]
  /\ use_clauses' = [use_clauses EXCEPT ![c] = <<>>]
  /\ AdvanceLoops(c)
  /\ UNCHANGED <<mapVars, unitVars, diagnostics>>

AddLibraryClause(c) ==
  /\ AtUnit(c, {"library_clause"})
  /\ NextUnit(c)
  /\ UNCHANGED registryVars

AddUseClause(c) ==
  /\ AtUnit(c, {"use_clause"})
  /\ use_clauses' = [use_clauses EXCEPT ![c] = Append(@, CurrentUnit(c))]
  /\ AdvanceLoops(c)
  /\ UNCHANGED registryVars

AddContextReference(c) ==
  /\ AtUnit(c, {"context_reference"})
  /\ primary_units' = Append(primary_units, CurrentUnit(c))
  /\ NextUnit(c)
  /\ UNCHANGED <<files_by_lib, mapVars, secondary_units,
                 packages_in_scope, diagnostics>>

AddPrimaryUnit(c) ==
  LET u == CurrentUnit(c) IN
  /\ AtUnit(c, PrimaryKinds)
  /\ BringIntoScope(c, u)
  /\ Register(u)
  /\ primary_units' = Append(primary_units, u)
  /\ NextUnit(c)
  /\ UNCHANGED <<files_by_lib, architectures_by_entity_key,
                 secondary_units>>

\* Mutant: only the first architecture of a name is filed under its entity.
AddNewArchitecture(c) ==
  LET u == CurrentUnit(c) IN
  /\ AtUnit(c, {"architecture"})
  /\ BringIntoScope(c, u)
  /\ architectures_by_entity_key' =
       IF by_key[KeyOf(u)] # None THEN architectures_by_entity_key
       ELSE [architectures_by_entity_key EXCEPT ![EntityKeyOf(u)] = Append(@, u)]
  /\ Register(u)
  /\ secondary_units' = Append(secondary_units, u)
  /\ NextUnit(c)
  /\ UNCHANGED <<files_by_lib, primary_units>>

AddArchitecture(c) ==
  LET u == CurrentUnit(c) IN
  /\ AtUnit(c, {"architecture"})
  /\ BringIntoScope(c, u)
  /\ architectures_by_entity_key' =
       [architectures_by_entity_key EXCEPT ![EntityKeyOf(u)] = Append(@, u)]
  /\ Register(u)
  /\ secondary_units' = Append(secondary_units, u)
  /\ NextUnit(c)
  /\ UNCHANGED <<files_by_lib, primary_units>>

AddPackageBody(c) ==
  LET u == CurrentUnit(c) IN
  /\ AtUnit(c, {"package_body"})
  /\ BringIntoScope(c, u)
  /\ Register(u)
  /\ secondary_units' = Append(secondary_units, u)
  /\ NextUnit(c)
  /\ UNCHANGED <<files_by_lib, architectures_by_entity_key,
                 primary_units>>

Return(c) ==
  /\ pc[c] = "adding"
  /\ df[c] > Len(file_set[c])
  /\ files_mtx' = None
  /\ pc' = [pc EXCEPT ![c] = "returned"]
  /\ UNCHANGED <<file_set, df, unit, use_clauses, registryVars>>

Add(c) ==
  \/ Lock(c)
  \/ SkipNullFile(c)
  \/ OpenFile(c)
  \/ AddLibraryClause(c)
  \/ AddUseClause(c)
  \/ AddContextReference(c)
  \/ AddPrimaryUnit(c)
  \/ AddArchitecture(c)
  \/ AddPackageBody(c)
  \/ Return(c)

Next == \E c \in Caller : Add(c) \/ \E arg \in FileSets : Call(c, arg)

Spec == Init /\ [][Next]_vars

(* A thread that has entered the call is scheduled until it returns. *)
FairSpec == Spec /\ \A c \in Caller : WF_vars(Add(c))

--------------------------------------------------------------------------------
(* All but the diagnostics, to which the passes after it will add theirs.   *)
RegistryTypeOK ==
  /\ files_mtx \in Caller \cup {None}
  /\ pc \in [Caller -> {"idle", "waiting", "adding", "returned"}]
  /\ file_set \in [Caller -> Seq(File \cup {None})]
  /\ df \in [Caller -> Nat \ {0}]
  /\ unit \in [Caller -> Nat]
  /\ use_clauses \in [Caller -> Seq(Unit)]
  /\ \A c \in Caller : pc[c] = "adding" <=> files_mtx = c
  /\ files_by_lib \in [{FileLib[f] : f \in File} -> Seq(File)]
  /\ by_key \in [Key -> Registrable \cup {None}]
  /\ architectures_by_entity_key \in [EntityKey -> Seq(Architectures)]
  /\ primary_units \in Seq(Unit)
  /\ secondary_units \in Seq(Registrable)
  /\ packages_in_scope \in [Registrable -> Seq(Unit)]

(* The state of the registry has the shape its containers give it, and only *)
(* the holder of files_mtx is inside the loops of add_design_files.         *)
TypeOK ==
  /\ RegistryTypeOK
  /\ diagnostics \in Seq([what : {"duplicate"}, key : Key])

(* The vector the units registered under key k are kept in. *)
UnitsOf(k) == IF k[1] \in PrimaryKinds THEN primary_units ELSE secondary_units

Claims(k) ==
  {i \in DOMAIN UnitsOf(k) :
     IsKind(UnitsOf(k)[i], RegisteredKinds) /\ KeyOf(UnitsOf(k)[i]) = k}

(* A name stands for the unit that was registered first under it, and for   *)
(* none only while no unit was: emplace in register_design_unit never       *)
(* replaces, whatever the order in which the calls got the mutex.           *)
FirstRegisteredWins ==
  \A k \in Key :
    IF Claims(k) = {} THEN by_key[k] = None
    ELSE \E i \in Claims(k) : /\ by_key[k] = UnitsOf(k)[i]
                              /\ \A j \in Claims(k) : i <= j

(* Each time a unit is registered under a name another unit has, there is   *)
(* one diagnostic, and there is none for a unit that is added again.        *)
EachClashReportedOnce ==
  \A k \in Key :
    Cardinality({d \in DOMAIN diagnostics : diagnostics[d].key = k})
      = Cardinality({i \in Claims(k) : UnitsOf(k)[i] # by_key[k]})

(* The architecture an entity gets by default (find_architecture without a  *)
(* name takes the back of the vector) is the one analysed last, even where  *)
(* its own name stands for an earlier unit.                                 *)
DefaultArchitectureIsLatest ==
  \A ek \in EntityKey :
    LET of == {i \in DOMAIN secondary_units :
                 /\ IsKind(secondary_units[i], {"architecture"})
                 /\ EntityKeyOf(secondary_units[i]) = ek}
        archs == architectures_by_entity_key[ek]
    IN  IF of = {} THEN archs = <<>>
        ELSE /\ archs # <<>>
             /\ \E i \in of : /\ archs[Len(archs)] = secondary_units[i]
                              /\ \A j \in of : j <= i

(* What the calls leave behind: the files of calls, the units of files (a    *)
(* null pointer has none).                                                   *)
NodesOf(f) ==
  IF f = None THEN <<>> ELSE [i \in 1..Len(FileUnits[f]) |-> <<f, i>>]
FilesOf(order) == FlattenSeq([n \in 1..Len(order) |-> file_set[order[n]]])
UnitsIn(files) == FlattenSeq([n \in 1..Len(files) |-> NodesOf(files[n])])

(* What one registration of u adds to its scope: the use clauses above it. *)
ClausesAbove(u) ==
  Among(SubSeq(NodesOf(u[1]), 1, u[2] - 1), UnitsOfKind({"use_clause"}))

(* What is registered when exactly these units have been, of these files. *)
Registered(files, units) ==
  /\ \A l \in DOMAIN files_by_lib :
       files_by_lib[l] = Among(files, {f \in File : FileLib[f] = l})
  /\ primary_units =
       Among(units, UnitsOfKind(PrimaryKinds \cup {"context_reference"}))
  /\ secondary_units = Among(units, UnitsOfKind(SecondaryKinds))
  /\ \A u \in Registrable :
       packages_in_scope[u] = FlattenSeq([n \in 1..Times(u, units) |-> ClausesAbove(u)])

(* Calls do not mix: whenever the mutex is free, the vectors of files and of *)
(* units and the scopes are those of the returned calls run one after the    *)
(* other, in some order; a unit's scope holds the use clauses above it in    *)
(* its own file, once for every time its file was added.                     *)
Returned == {c \in Caller : pc[c] = "returned"}
CallsAreSerialized ==
  files_mtx = None =>
    \E order \in [1..Cardinality(Returned) -> Returned] :
      /\ \A c \in Returned : \E n \in DOMAIN order : order[n] = c
      /\ Registered(FilesOf(order), UnitsIn(FilesOf(order)))

(* The registry promises no more and no less than the abstract library. *)
Latest(ek) ==
  LET archs == architectures_by_entity_key[ek]
  IN  IF archs = <<>> THEN None ELSE archs[Len(archs)]

Library == INSTANCE AnalysisLibrary WITH
  winner <- by_key,
  latest <- [ek \in EntityKey |-> Latest(ek)],
  clashes <- {diagnostics[d].key : d \in DOMAIN diagnostics}

(* Every step of a call, under the mutex or not, analyses one unit in the   *)
(* abstract library or leaves it as it is.                                  *)
RefinesLibrary == Library!Spec

(* A call of add_design_files returns: the mutex is held by one call at a   *)
(* time, each over finitely many units.                                     *)
EveryCallReturns ==
  \A c \in Caller : pc[c] = "waiting" ~> pc[c] = "returned"
================================================================================
