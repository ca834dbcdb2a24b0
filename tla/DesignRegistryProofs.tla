-------------------------- MODULE DesignRegistryProofs --------------------------
(***************************************************************************)
(* What holds of the registry for any files, callers and arguments.        *)
(***************************************************************************)
EXTENDS DesignRegistry, ListProofs

(* The loop counters of a call point into its argument. *)
CursorOK ==
  \A c \in Caller :
    /\ pc[c] # "adding" => unit[c] = 0
    /\ unit[c] > 0 =>
         /\ df[c] \in DOMAIN file_set[c]
         /\ CurrentFile(c) \in File
         /\ unit[c] \in 1..Len(FileUnits[CurrentFile(c)])

RegistryInv == RegistryTypeOK /\ CursorOK

DiagnosticsTyped == diagnostics \in Seq([what : {"duplicate"}, key : Key])
Inv == RegistryInv /\ DiagnosticsTyped

--------------------------------------------------------------------------------
LEMMA CurrentFileIsFile ==
  ASSUME RegistryInv, NEW c \in Caller, AtFile(c)
  PROVE  df[c] \in DOMAIN file_set[c] /\ CurrentFile(c) \in File \cup {None}
BY DEF RegistryInv, RegistryTypeOK, AtFile, CurrentFile

LEMMA CurrentUnitIsUnit ==
  ASSUME RegistryInv, NEW c \in Caller, unit[c] > 0
  PROVE  /\ CurrentFile(c) \in File
         /\ CurrentUnit(c) \in Unit
         /\ \A kinds \in SUBSET RegisteredKinds :
              IsKind(CurrentUnit(c), kinds) => CurrentUnit(c) \in Registrable
         /\ IsKind(CurrentUnit(c), {"architecture"}) =>
              CurrentUnit(c) \in Architectures
<1>1. /\ CurrentFile(c) \in File
      /\ unit[c] \in 1..Len(FileUnits[CurrentFile(c)])
  BY DEF RegistryInv, CursorOK
<1>2. CurrentUnit(c) \in Unit
  BY <1>1 DEF CurrentUnit, Unit
<1>3. QED
  BY <1>1, <1>2 DEF Registrable, Architectures, IsKind

(* Advancing the loops leaves their counters inside the argument. *)
LEMMA AdvanceStaysInside ==
  ASSUME RegistryInv, NEW c \in Caller, CurrentFile(c) \in File,
         df[c] \in DOMAIN file_set[c], pc[c] = "adding", AdvanceLoops(c)
  PROVE  /\ unit' \in [Caller -> Nat]
         /\ df' \in [Caller -> Nat \ {0}]
         /\ CursorOK'
<1> DEFINE n == Len(FileUnits[CurrentFile(c)])
<1>1. n \in Nat
  BY FilesAssumption
<1>2. CASE unit[c] < n
  <2>1. unit' = [unit EXCEPT ![c] = @ + 1] /\ UNCHANGED <<df, pc, file_set>>
    BY <1>2 DEF AdvanceLoops
  <2>2. unit' \in [Caller -> Nat] /\ unit'[c] \in 1..n
    BY <1>1, <1>2, <2>1 DEF RegistryInv, RegistryTypeOK
  <2>3. QED
    BY <2>1, <2>2 DEF RegistryInv, RegistryTypeOK, CursorOK, CurrentFile
<1>3. CASE ~(unit[c] < n)
  <2>1. /\ unit' = [unit EXCEPT ![c] = 0] /\ df' = [df EXCEPT ![c] = @ + 1]
        /\ UNCHANGED <<pc, file_set>>
    BY <1>3 DEF AdvanceLoops
  <2>2. QED
    BY <2>1 DEF RegistryInv, RegistryTypeOK, CursorOK, CurrentFile
<1>4. QED
  BY <1>2, <1>3

LEMMA RegisterTyped ==
  ASSUME RegistryInv, NEW u \in Registrable, Register(u)
  PROVE  by_key' \in [Key -> Registrable \cup {None}]
<1>1. KeyOf(u) \in Key
  BY DEF Key
<1> QED
  BY <1>1 DEF RegistryInv, RegistryTypeOK, Register

LEMMA ScopeTyped ==
  ASSUME RegistryInv, NEW c \in Caller, NEW u \in Registrable, BringIntoScope(c, u)
  PROVE  packages_in_scope' \in [Registrable -> Seq(Unit)]
<1>1. packages_in_scope[u] \o use_clauses[c] \in Seq(Unit)
  BY DEF RegistryInv, RegistryTypeOK
<1>2. QED
  BY <1>1 DEF RegistryInv, RegistryTypeOK, BringIntoScope

--------------------------------------------------------------------------------
(* Every clause, unit and file a step adds is one of its own argument. *)
LEMMA RegistryStep == RegistryInv /\ [Next]_vars => RegistryInv'
<1> SUFFICES ASSUME RegistryInv, [Next]_vars PROVE RegistryInv'
  OBVIOUS
<1> USE DEF RegistryInv, registryVars, callVars, mapVars, unitVars
<1>1. ASSUME NEW c \in Caller, NEW arg \in FileSets, Call(c, arg) PROVE RegistryInv'
  <2>1. arg \in Seq(File \cup {None})
    BY CallerAssumption
  <2>2. RegistryTypeOK'
    BY <1>1, <2>1 DEF RegistryTypeOK, Call
  <2>3. CursorOK'
    BY <1>1 DEF RegistryTypeOK, CursorOK, CurrentFile, Call
  <2>4. QED BY <2>2, <2>3
<1>2. ASSUME NEW c \in Caller, Lock(c) PROVE RegistryInv'
  <2>1. RegistryTypeOK'
    BY <1>2, CallerAssumption DEF RegistryTypeOK, Lock
  <2>2. CursorOK'
    BY <1>2 DEF RegistryTypeOK, CursorOK, CurrentFile, Lock
  <2>3. QED BY <2>1, <2>2
<1>3. ASSUME NEW c \in Caller, SkipNullFile(c) PROVE RegistryInv'
  <2>1. RegistryTypeOK'
    BY <1>3 DEF RegistryTypeOK, SkipNullFile
  <2>2. CursorOK'
    BY <1>3 DEF RegistryTypeOK, CursorOK, CurrentFile, SkipNullFile, AtFile
  <2>3. QED BY <2>1, <2>2
<1>4. ASSUME NEW c \in Caller, OpenFile(c) PROVE RegistryInv'
  <2>1. /\ CurrentFile(c) \in File /\ pc[c] = "adding"
        /\ df[c] \in DOMAIN file_set[c]
    BY <1>4, CurrentFileIsFile DEF OpenFile, AtFile
  <2>2. /\ unit' \in [Caller -> Nat] /\ df' \in [Caller -> Nat \ {0}]
        /\ CursorOK'
    BY <1>4, <2>1, AdvanceStaysInside DEF OpenFile
  <2>3. files_by_lib' \in [{FileLib[f] : f \in File} -> Seq(File)]
    BY <1>4, <2>1 DEF RegistryTypeOK, OpenFile
  <2>4. use_clauses' \in [Caller -> Seq(Unit)]
    BY <1>4 DEF RegistryTypeOK, OpenFile
  <2>5. RegistryTypeOK'
    BY <1>4, <2>2, <2>3, <2>4 DEF RegistryTypeOK, OpenFile, AdvanceLoops
  <2>6. QED BY <2>2, <2>5
<1>5. ASSUME NEW c \in Caller, pc[c] = "adding", unit[c] > 0, AdvanceLoops(c)
      PROVE  /\ unit' \in [Caller -> Nat] /\ df' \in [Caller -> Nat \ {0}]
             /\ CursorOK'
  <2>1. CurrentFile(c) \in File /\ df[c] \in DOMAIN file_set[c]
    BY <1>5 DEF CursorOK
  <2>2. QED BY <1>5, <2>1, AdvanceStaysInside
<1>6. ASSUME NEW c \in Caller, AddLibraryClause(c) PROVE RegistryInv'
  BY <1>5, <1>6 DEF RegistryTypeOK, AddLibraryClause, AtUnit, NextUnit, AdvanceLoops
<1>7. ASSUME NEW c \in Caller, AddUseClause(c) PROVE RegistryInv'
  <2>1. CurrentUnit(c) \in Unit
    BY <1>7, CurrentUnitIsUnit DEF AddUseClause, AtUnit
  <2>2. use_clauses' \in [Caller -> Seq(Unit)]
    BY <1>7, <2>1 DEF RegistryTypeOK, AddUseClause
  <2>3. /\ unit' \in [Caller -> Nat] /\ df' \in [Caller -> Nat \ {0}]
        /\ CursorOK'
    BY <1>5, <1>7 DEF AddUseClause, AtUnit, NextUnit
  <2>4. UNCHANGED <<files_mtx, pc, file_set>>
    BY <1>7 DEF AddUseClause, NextUnit, AdvanceLoops
  <2>5. RegistryTypeOK'
    BY <1>7, <2>2, <2>3, <2>4 DEF RegistryTypeOK, AddUseClause, NextUnit
  <2>6. QED BY <2>3, <2>5
<1>8. ASSUME NEW c \in Caller, AddContextReference(c) PROVE RegistryInv'
  <2>1. CurrentUnit(c) \in Unit
    BY <1>8, CurrentUnitIsUnit DEF AddContextReference, AtUnit
  <2>2. primary_units' \in Seq(Unit)
    BY <1>8, <2>1 DEF RegistryTypeOK, AddContextReference
  <2>3. /\ unit' \in [Caller -> Nat] /\ df' \in [Caller -> Nat \ {0}]
        /\ CursorOK'
    BY <1>5, <1>8 DEF AddContextReference, AtUnit, NextUnit
  <2>4. UNCHANGED <<files_mtx, pc, file_set>>
    BY <1>8 DEF AddContextReference, NextUnit, AdvanceLoops
  <2>5. RegistryTypeOK'
    BY <1>8, <2>2, <2>3, <2>4 DEF RegistryTypeOK, AddContextReference, NextUnit
  <2>6. QED BY <2>3, <2>5
<1>9. ASSUME NEW c \in Caller, AddPrimaryUnit(c) PROVE RegistryInv'
  <2>1. CurrentUnit(c) \in Registrable /\ CurrentUnit(c) \in Unit
    BY <1>9, CurrentUnitIsUnit DEF AddPrimaryUnit, AtUnit, RegisteredKinds
  <2>2. primary_units' \in Seq(Unit)
    BY <1>9, <2>1 DEF RegistryTypeOK, AddPrimaryUnit
  <2>3. by_key' \in [Key -> Registrable \cup {None}]
    BY <1>9, <2>1, RegisterTyped DEF AddPrimaryUnit
  <2>4. packages_in_scope' \in [Registrable -> Seq(Unit)]
    BY <1>9, <2>1, ScopeTyped DEF AddPrimaryUnit
  <2>5. /\ unit' \in [Caller -> Nat] /\ df' \in [Caller -> Nat \ {0}]
        /\ CursorOK'
    BY <1>5, <1>9 DEF AddPrimaryUnit, AtUnit, NextUnit
  <2>6. UNCHANGED <<files_mtx, pc, file_set>>
    BY <1>9 DEF AddPrimaryUnit, NextUnit, AdvanceLoops
  <2>7. RegistryTypeOK'
    BY <1>9, <2>2, <2>3, <2>4, <2>5, <2>6 DEF RegistryTypeOK, AddPrimaryUnit, NextUnit
  <2>8. QED BY <2>5, <2>7
<1>10. ASSUME NEW c \in Caller, AddArchitecture(c) PROVE RegistryInv'
  <2> DEFINE u == CurrentUnit(c)
  <2>1. u \in Registrable /\ u \in Architectures
    BY <1>10, CurrentUnitIsUnit
      DEF AddArchitecture, AtUnit, RegisteredKinds, SecondaryKinds
  <2>2. secondary_units' \in Seq(Registrable)
    BY <1>10, <2>1 DEF RegistryTypeOK, AddArchitecture
  <2>3. by_key' \in [Key -> Registrable \cup {None}]
    BY <1>10, <2>1, RegisterTyped DEF AddArchitecture
  <2>4. packages_in_scope' \in [Registrable -> Seq(Unit)]
    BY <1>10, <2>1, ScopeTyped DEF AddArchitecture
  <2>5. EntityKeyOf(u) \in EntityKey
    BY <2>1 DEF EntityKey
  <2>6. architectures_by_entity_key' \in [EntityKey -> Seq(Architectures)]
    BY <1>10, <2>1, <2>5 DEF RegistryTypeOK, AddArchitecture
  <2>7. /\ unit' \in [Caller -> Nat] /\ df' \in [Caller -> Nat \ {0}]
        /\ CursorOK'
    BY <1>5, <1>10 DEF AddArchitecture, AtUnit, NextUnit
  <2>8. UNCHANGED <<files_mtx, pc, file_set>>
    BY <1>10 DEF AddArchitecture, NextUnit, AdvanceLoops
  <2>9. RegistryTypeOK'
    BY <1>10, <2>2, <2>3, <2>4, <2>6, <2>7, <2>8 DEF RegistryTypeOK, AddArchitecture, NextUnit
  <2>10. QED BY <2>7, <2>9
<1>11. ASSUME NEW c \in Caller, AddPackageBody(c) PROVE RegistryInv'
  <2>1. CurrentUnit(c) \in Registrable
    BY <1>11, CurrentUnitIsUnit
      DEF AddPackageBody, AtUnit, RegisteredKinds, SecondaryKinds
  <2>2. secondary_units' \in Seq(Registrable)
    BY <1>11, <2>1 DEF RegistryTypeOK, AddPackageBody
  <2>3. by_key' \in [Key -> Registrable \cup {None}]
    BY <1>11, <2>1, RegisterTyped DEF AddPackageBody
  <2>4. packages_in_scope' \in [Registrable -> Seq(Unit)]
    BY <1>11, <2>1, ScopeTyped DEF AddPackageBody
  <2>5. /\ unit' \in [Caller -> Nat] /\ df' \in [Caller -> Nat \ {0}]
        /\ CursorOK'
    BY <1>5, <1>11 DEF AddPackageBody, AtUnit, NextUnit
  <2>6. UNCHANGED <<files_mtx, pc, file_set>>
    BY <1>11 DEF AddPackageBody, NextUnit, AdvanceLoops
  <2>7. RegistryTypeOK'
    BY <1>11, <2>2, <2>3, <2>4, <2>5, <2>6 DEF RegistryTypeOK, AddPackageBody, NextUnit
  <2>8. QED BY <2>5, <2>7
<1>12. ASSUME NEW c \in Caller, Return(c) PROVE RegistryInv'
  <2>1. df[c] \notin DOMAIN file_set[c]
    BY <1>12 DEF RegistryTypeOK, Return
  <2> unit[c] \in Nat
    BY DEF RegistryTypeOK
  <2> unit[c] = 0
    BY <2>1 DEF CursorOK
  <2>2. RegistryTypeOK'
    BY <1>12, CallerAssumption DEF RegistryTypeOK, Return
  <2>3. CursorOK'
    BY <1>12, <2>1 DEF RegistryTypeOK, CursorOK, CurrentFile, Return
  <2>4. QED BY <2>2, <2>3
<1>13. CASE UNCHANGED vars
  BY <1>13 DEF vars, RegistryTypeOK, CursorOK, CurrentFile
<1>14. QED
  BY <1>1, <1>2, <1>3, <1>4, <1>6, <1>7, <1>8, <1>9, <1>10, <1>11, <1>12, <1>13
    DEF Next, Add

--------------------------------------------------------------------------------
(* What a step does to the registry: nothing a name depends on, or the      *)
(* registration of one unit.                                                *)
Quiet ==
  /\ UNCHANGED <<mapVars, diagnostics, secondary_units>>
  /\ \/ UNCHANGED primary_units
     \/ \E u \in Unit : /\ IsKind(u, {"context_reference"})
                        /\ primary_units' = Append(primary_units, u)

RegistersPrimary(u) ==
  /\ Register(u)
  /\ IsKind(u, PrimaryKinds)
  /\ primary_units' = Append(primary_units, u)
  /\ UNCHANGED <<secondary_units, architectures_by_entity_key>>

RegistersSecondary(u) ==
  /\ Register(u)
  /\ IsKind(u, SecondaryKinds)
  /\ secondary_units' = Append(secondary_units, u)
  /\ UNCHANGED primary_units
  /\ architectures_by_entity_key' =
       IF u \in Architectures
       THEN [architectures_by_entity_key EXCEPT ![EntityKeyOf(u)] = Append(@, u)]
       ELSE architectures_by_entity_key

LEMMA StepCases ==
  ASSUME RegistryInv, [Next]_vars
  PROVE  \/ Quiet
         \/ \E u \in Registrable : RegistersPrimary(u) \/ RegistersSecondary(u)
<1> USE DEF registryVars, callVars, mapVars, unitVars
<1>1. CASE UNCHANGED vars
  BY <1>1 DEF vars, Quiet
<1>2. ASSUME NEW c \in Caller, NEW arg \in FileSets, Call(c, arg) PROVE Quiet
  BY <1>2 DEF Call, Quiet
<1>3. ASSUME NEW c \in Caller,
             \/ Lock(c) \/ SkipNullFile(c) \/ OpenFile(c)
             \/ AddLibraryClause(c) \/ AddUseClause(c) \/ Return(c)
      PROVE  Quiet
  BY <1>3 DEF Lock, SkipNullFile, OpenFile, AddLibraryClause, AddUseClause,
              Return, Quiet
<1>4. ASSUME NEW c \in Caller, AddContextReference(c) PROVE Quiet
  <2>1. CurrentUnit(c) \in Unit
    BY <1>4, CurrentUnitIsUnit DEF AddContextReference, AtUnit
  <2>2. QED
    BY <1>4, <2>1 DEF AddContextReference, AtUnit, Quiet
<1>5. ASSUME NEW c \in Caller, AddPrimaryUnit(c)
      PROVE  \E u \in Registrable : RegistersPrimary(u)
  <2>1. CurrentUnit(c) \in Registrable
    BY <1>5, CurrentUnitIsUnit DEF AddPrimaryUnit, AtUnit, RegisteredKinds
  <2>2. RegistersPrimary(CurrentUnit(c))
    BY <1>5 DEF AddPrimaryUnit, AtUnit, RegistersPrimary
  <2>3. QED BY <2>1, <2>2
<1>6. ASSUME NEW c \in Caller, AddArchitecture(c)
      PROVE  \E u \in Registrable : RegistersSecondary(u)
  <2>1. CurrentUnit(c) \in Registrable /\ CurrentUnit(c) \in Architectures
    BY <1>6, CurrentUnitIsUnit
      DEF AddArchitecture, AtUnit, RegisteredKinds, SecondaryKinds
  <2>2. IsKind(CurrentUnit(c), SecondaryKinds)
    BY <1>6 DEF AddArchitecture, AtUnit, IsKind, SecondaryKinds
  <2>3. RegistersSecondary(CurrentUnit(c))
    BY <1>6, <2>1, <2>2 DEF AddArchitecture, RegistersSecondary
  <2>4. QED BY <2>1, <2>3
<1>7. ASSUME NEW c \in Caller, AddPackageBody(c)
      PROVE  \E u \in Registrable : RegistersSecondary(u)
  <2>1. CurrentUnit(c) \in Registrable
    BY <1>7, CurrentUnitIsUnit
      DEF AddPackageBody, AtUnit, RegisteredKinds, SecondaryKinds
  <2>2. IsKind(CurrentUnit(c), SecondaryKinds)
    BY <1>7 DEF AddPackageBody, AtUnit, IsKind, SecondaryKinds
  <2>3. CurrentUnit(c) \notin Architectures
    BY <1>7 DEF AddPackageBody, AtUnit, IsKind, Architectures
  <2>4. RegistersSecondary(CurrentUnit(c))
    BY <1>7, <2>2, <2>3 DEF AddPackageBody, RegistersSecondary
  <2>5. QED BY <2>1, <2>4
<1>8. QED
  BY <1>1, <1>2, <1>3, <1>4, <1>5, <1>6, <1>7 DEF Next, Add

(* The only diagnostics are those of clashes. *)
LEMMA DiagnosticsStep ==
  ASSUME RegistryInv, DiagnosticsTyped, [Next]_vars
  PROVE  DiagnosticsTyped'
<1> DEFINE D == [what : {"duplicate"}, key : Key]
<1>1. CASE diagnostics' = diagnostics
  BY <1>1 DEF DiagnosticsTyped
<1>2. ASSUME NEW u \in Registrable, Register(u)
      PROVE  diagnostics' \in Seq(D)
  <2>1. KeyOf(u) \in Key
    BY DEF Key
  <2>2. Duplicate(KeyOf(u)) \in D
    BY <2>1 DEF Duplicate
  <2>3. diagnostics' \in {diagnostics, Append(diagnostics, Duplicate(KeyOf(u)))}
    BY <1>2 DEF Register
  <2>4. diagnostics \in Seq(D)
    BY DEF DiagnosticsTyped
  <2> HIDE DEF D
  <2> QED
    BY <2>2, <2>3, <2>4
<1> QED
  BY <1>1, <1>2, StepCases DEF Quiet, RegistersPrimary, RegistersSecondary, DiagnosticsTyped

LEMMA InitInv == Init => Inv
BY CallerAssumption DEF Init, Inv, RegistryInv, RegistryTypeOK, DiagnosticsTyped, CursorOK

LEMMA TypeStep == Inv /\ [Next]_vars => Inv'
BY RegistryStep, DiagnosticsStep DEF Inv

(* The registry is well typed, and only the holder of files_mtx is inside   *)
(* the loops of add_design_files, whatever the files and the callers.       *)
THEOREM TypeCorrect == Spec => []TypeOK
<1>1. Inv => TypeOK
  BY DEF Inv, RegistryInv, DiagnosticsTyped, TypeOK
<1> QED
  BY <1>1, InitInv, TypeStep, PTL DEF Spec

(* The kind of a key tells the vector its units are kept in. *)
LEMMA KeyNamesVector ==
  ASSUME NEW u \in Registrable
  PROVE  /\ KeyOf(u) \in Key
         /\ KeyOf(u)[1] \in PrimaryKinds <=> IsKind(u, PrimaryKinds)
         /\ IsKind(u, RegisteredKinds)
         /\ ~(IsKind(u, PrimaryKinds) /\ IsKind(u, SecondaryKinds))
BY DEF Key, KeyOf, Registrable, IsKind, RegisteredKinds, PrimaryKinds,
       SecondaryKinds

(* A registration adds one claim, the last, to the key of its unit. *)
LEMMA RegistrationAddsClaim ==
  ASSUME RegistryInv, NEW u \in Registrable,
         RegistersPrimary(u) \/ RegistersSecondary(u)
  PROVE  LET k == KeyOf(u)
             n == Len(UnitsOf(k)) + 1
         IN  /\ n \in Nat /\ \A i \in Claims(k) : i \in Nat /\ i < n
             /\ Claims(k)' = Claims(k) \cup {n}
             /\ UnitsOf(k)'[n] = u
             /\ \A i \in Claims(k) : UnitsOf(k)'[i] = UnitsOf(k)[i]
<1> DEFINE k == KeyOf(u)
           s == UnitsOf(k)
<1>1. UnitsOf(k)' = Append(s, u)
  BY KeyNamesVector DEF RegistersPrimary, RegistersSecondary, UnitsOf
<1>2. s \in Seq(Unit)
  <2>1. Registrable \subseteq Unit
    BY DEF Registrable
  <2>2. QED BY <2>1 DEF RegistryInv, RegistryTypeOK, UnitsOf
<1>3. u \in Unit
  BY DEF Registrable
<1>4. /\ Len(s) \in Nat /\ DOMAIN s = 1..Len(s)
      /\ DOMAIN UnitsOf(k)' = 1..(Len(s) + 1)
      /\ \A i \in 1..Len(s) : UnitsOf(k)'[i] = s[i]
      /\ UnitsOf(k)'[Len(s) + 1] = u
  BY <1>1, <1>2, <1>3
<1>5. IsKind(u, RegisteredKinds) /\ KeyOf(u) = k
  BY KeyNamesVector
<1>6. Claims(k)' = Claims(k) \cup {Len(s) + 1}
  <2> HIDE DEF k, s
  <2> QED BY <1>4, <1>5 DEF Claims, s
<1>7. QED
  BY <1>4, <1>6 DEF Claims

(* No step disturbs the claims on any other key. *)
LEMMA ClaimsUndisturbed ==
  ASSUME RegistryInv, NEW k \in Key,
         \/ Quiet
         \/ \E u \in Registrable : /\ RegistersPrimary(u) \/ RegistersSecondary(u)
                                   /\ KeyOf(u) # k
  PROVE  /\ Claims(k)' = Claims(k)
         /\ \A i \in Claims(k) : UnitsOf(k)'[i] = UnitsOf(k)[i]
<1> DEFINE s == UnitsOf(k)
<1>1. CASE s' = s
  BY <1>1 DEF Claims
<1>2. ASSUME NEW u \in Unit, s' = Append(s, u),
             ~(IsKind(u, RegisteredKinds) /\ KeyOf(u) = k)
      PROVE  /\ Claims(k)' = Claims(k)
             /\ \A i \in Claims(k) : UnitsOf(k)'[i] = UnitsOf(k)[i]
  <2>1. s \in Seq(Unit)
    <3>1. Registrable \subseteq Unit
      BY DEF Registrable
    <3>2. QED BY <3>1 DEF RegistryInv, RegistryTypeOK, UnitsOf
  <2>2. /\ Len(s) \in Nat /\ DOMAIN s = 1..Len(s)
        /\ DOMAIN s' = 1..(Len(s) + 1)
        /\ \A i \in 1..Len(s) : s'[i] = s[i]
        /\ s'[Len(s) + 1] = u
    BY <1>2, <2>1
  <2>3. Claims(k)' = Claims(k)
    <3> HIDE DEF s
    <3> QED BY <1>2, <2>2 DEF Claims, s
  <2>4. QED BY <2>2, <2>3 DEF Claims
<1>3. CASE Quiet
  <2>1. ASSUME NEW u \in Unit, IsKind(u, {"context_reference"})
        PROVE  ~IsKind(u, RegisteredKinds)
    BY <2>1 DEF IsKind, RegisteredKinds, PrimaryKinds, SecondaryKinds
  <2>2. s' = s \/ \E u \in Unit : /\ ~IsKind(u, RegisteredKinds)
                                  /\ s' = Append(s, u)
    BY <1>3, <2>1 DEF Quiet, UnitsOf
  <2>3. QED BY <1>1, <1>2, <2>2
<1>4. ASSUME NEW u \in Registrable, KeyOf(u) # k,
             RegistersPrimary(u) \/ RegistersSecondary(u)
      PROVE  s' = s \/ s' = Append(s, u)
  BY <1>4 DEF RegistersPrimary, RegistersSecondary, UnitsOf
<1>5. QED
  BY <1>1, <1>2, <1>3, <1>4 DEF Registrable

--------------------------------------------------------------------------------
(* The unit under a key is the first of its claims.  A registration under   *)
(* the key adds a later claim, and by_key changes only if there was none.   *)
LEMMA FirstRegisteredWinsStep ==
  ASSUME RegistryInv, FirstRegisteredWins, [Next]_vars
  PROVE  FirstRegisteredWins'
<1> SUFFICES ASSUME NEW k \in Key
             PROVE  IF Claims(k)' = {} THEN by_key'[k] = None
                    ELSE \E i \in Claims(k)' :
                           /\ by_key'[k] = UnitsOf(k)'[i]
                           /\ \A j \in Claims(k)' : i <= j
  BY DEF FirstRegisteredWins
<1>1. IF Claims(k) = {} THEN by_key[k] = None
      ELSE \E i \in Claims(k) : /\ by_key[k] = UnitsOf(k)[i]
                                /\ \A j \in Claims(k) : i <= j
  BY DEF FirstRegisteredWins
<1>2. CASE Quiet
  <2>1. by_key' = by_key
    BY <1>2 DEF Quiet, mapVars
  <2>2. QED BY <1>1, <1>2, <2>1, ClaimsUndisturbed
<1>3. ASSUME NEW u \in Registrable, KeyOf(u) # k,
             RegistersPrimary(u) \/ RegistersSecondary(u)
      PROVE  IF Claims(k)' = {} THEN by_key'[k] = None
             ELSE \E i \in Claims(k)' : /\ by_key'[k] = UnitsOf(k)'[i]
                                        /\ \A j \in Claims(k)' : i <= j
  <2>1. by_key'[k] = by_key[k]
    BY <1>3 DEF RegistryInv, RegistryTypeOK, RegistersPrimary, RegistersSecondary, Register
  <2>2. QED BY <1>1, <1>3, <2>1, ClaimsUndisturbed
<1>4. ASSUME NEW u \in Registrable, KeyOf(u) = k,
             RegistersPrimary(u) \/ RegistersSecondary(u)
      PROVE  IF Claims(k)' = {} THEN by_key'[k] = None
             ELSE \E i \in Claims(k)' : /\ by_key'[k] = UnitsOf(k)'[i]
                                        /\ \A j \in Claims(k)' : i <= j
  <2> DEFINE n == Len(UnitsOf(k)) + 1
  <2>1. /\ n \in Nat /\ \A i \in Claims(k) : i \in Nat /\ i < n
        /\ Claims(k)' = Claims(k) \cup {n}
        /\ UnitsOf(k)'[n] = u
        /\ \A i \in Claims(k) : UnitsOf(k)'[i] = UnitsOf(k)[i]
    BY <1>4, RegistrationAddsClaim
  <2>2. by_key'[k] = IF by_key[k] = None THEN u ELSE by_key[k]
    BY <1>4 DEF RegistryInv, RegistryTypeOK, RegistersPrimary, RegistersSecondary, Register
  <2>3. ASSUME NEW i \in Claims(k) PROVE UnitsOf(k)[i] # None
    <3>1. UnitsOf(k)[i] \in Unit
      BY DEF Claims, UnitsOf, RegistryInv, RegistryTypeOK, Registrable
    <3>2. QED BY <3>1, NullAssumption DEF NoUnitIsNull
  <2> HIDE DEF n
  <2>4. CASE Claims(k) = {}
    BY <1>1, <2>1, <2>2, <2>4
  <2>5. CASE Claims(k) # {}
    <3>1. PICK i \in Claims(k) : /\ by_key[k] = UnitsOf(k)[i]
                                 /\ \A j \in Claims(k) : i <= j
      BY <1>1, <2>5
    <3>2. by_key'[k] = UnitsOf(k)'[i]
      BY <2>1, <2>2, <2>3, <3>1
    <3>3. \A j \in Claims(k)' : i <= j
      BY <2>1, <3>1
    <3>4. QED BY <2>1, <3>2, <3>3
  <2>6. QED BY <2>4, <2>5
<1>5. QED
  BY <1>2, <1>3, <1>4, StepCases

(* A name stands for the unit registered first under it, whatever the order *)
(* in which the callers get the mutex and however often files are added.    *)
THEOREM FirstWins == Spec => []FirstRegisteredWins
<1>1. Init => Inv /\ FirstRegisteredWins
  <2>1. Init => Inv
    BY InitInv
  <2>2. Init => FirstRegisteredWins
    BY DEF Init, FirstRegisteredWins, Claims, UnitsOf
  <2>3. QED BY <2>1, <2>2
<1>2. Inv /\ FirstRegisteredWins /\ [Next]_vars => (Inv /\ FirstRegisteredWins)'
  BY TypeStep, FirstRegisteredWinsStep DEF Inv
<1>3. QED
  BY <1>1, <1>2, PTL DEF Spec

--------------------------------------------------------------------------------
(* The architectures of an entity, as places in secondary_units. *)
ArchitecturePlaces(ek) ==
  {i \in DOMAIN secondary_units : /\ IsKind(secondary_units[i], {"architecture"})
                                  /\ EntityKeyOf(secondary_units[i]) = ek}

DefaultIsLatest(ek) ==
  LET archs == architectures_by_entity_key[ek]
  IN  IF ArchitecturePlaces(ek) = {} THEN archs = <<>>
      ELSE /\ archs # <<>>
           /\ \E i \in ArchitecturePlaces(ek) :
                /\ archs[Len(archs)] = secondary_units[i]
                /\ \A j \in ArchitecturePlaces(ek) : j <= i

(* The last element of a sequence is the one just appended. *)
LEMMA LastOfAppend ==
  ASSUME NEW S, NEW q \in Seq(S), NEW e \in S
  PROVE  /\ Append(q, e) # <<>>
         /\ Append(q, e)[Len(Append(q, e))] = e
  OBVIOUS

LEMMA DefaultArchitectureStep ==
  ASSUME RegistryInv, DefaultArchitectureIsLatest, [Next]_vars
  PROVE  DefaultArchitectureIsLatest'
<1> SUFFICES ASSUME NEW ek \in EntityKey, DefaultIsLatest(ek)
             PROVE  DefaultIsLatest(ek)'
  BY DEF DefaultArchitectureIsLatest, DefaultIsLatest, ArchitecturePlaces
<1> DEFINE s == secondary_units
           a == architectures_by_entity_key[ek]
<1>1. /\ s \in Seq(Registrable) /\ Len(s) \in Nat /\ DOMAIN s = 1..Len(s)
      /\ a \in Seq(Architectures)
  BY DEF RegistryInv, RegistryTypeOK
<1>2. CASE UNCHANGED <<secondary_units, architectures_by_entity_key>>
  BY <1>2 DEF DefaultIsLatest, ArchitecturePlaces
<1>3. ASSUME NEW u \in Registrable, RegistersSecondary(u) PROVE DefaultIsLatest(ek)'
  <2>1. /\ s' = Append(s, u) /\ DOMAIN s' = 1..(Len(s) + 1)
        /\ \A i \in 1..Len(s) : s'[i] = s[i]
        /\ s'[Len(s) + 1] = u
    BY <1>1, <1>3 DEF RegistersSecondary
  <2>2. CASE u \in Architectures /\ EntityKeyOf(u) = ek
    <3>1. a' = Append(a, u)
      BY <1>3, <2>2 DEF RegistersSecondary, RegistryInv, RegistryTypeOK
    <3>2. a' # <<>> /\ a'[Len(a')] = u
      <4> HIDE DEF a, s
      <4> QED BY <1>1, <2>2, <3>1, LastOfAppend
    <3>3. /\ Len(s) + 1 \in ArchitecturePlaces(ek)'
          /\ \A j \in ArchitecturePlaces(ek)' : j <= Len(s) + 1
      BY <1>1, <2>1, <2>2 DEF ArchitecturePlaces, Architectures
    <3>4. QED
      BY <2>1, <3>2, <3>3 DEF DefaultIsLatest
  <2>3. CASE ~(u \in Architectures /\ EntityKeyOf(u) = ek)
    <3>1. a' = a
      BY <1>3, <2>3 DEF RegistersSecondary, RegistryInv, RegistryTypeOK
    <3>2. ~(IsKind(u, {"architecture"}) /\ EntityKeyOf(u) = ek)
      BY <2>3 DEF Architectures, Registrable
    <3>3. ArchitecturePlaces(ek)' = ArchitecturePlaces(ek)
      <4> HIDE DEF s
      <4> QED BY <1>1, <2>1, <3>2 DEF ArchitecturePlaces, s
    <3>4. \A i \in ArchitecturePlaces(ek) : s'[i] = s[i]
      BY <1>1, <2>1 DEF ArchitecturePlaces
    <3>5. QED
      BY <3>1, <3>3, <3>4 DEF DefaultIsLatest
  <2>4. QED BY <2>2, <2>3
<1>4. QED
  BY <1>2, <1>3, StepCases DEF Quiet, RegistersPrimary, mapVars

(* The default architecture of an entity is the one analysed last. *)
THEOREM DefaultIsLast == Spec => []DefaultArchitectureIsLatest
<1>1. Init => Inv /\ DefaultArchitectureIsLatest
  <2>1. Init => Inv
    BY InitInv
  <2>2. Init => DefaultArchitectureIsLatest
    BY DEF Init, DefaultArchitectureIsLatest
  <2>3. QED BY <2>1, <2>2
<1>2. Inv /\ DefaultArchitectureIsLatest /\ [Next]_vars
        => (Inv /\ DefaultArchitectureIsLatest)'
  BY TypeStep, DefaultArchitectureStep DEF Inv
<1>3. QED
  BY <1>1, <1>2, PTL DEF Spec

--------------------------------------------------------------------------------
ClashesOf(k) == {d \in DOMAIN diagnostics : diagnostics[d].key = k}
LateClaims(k) == {i \in Claims(k) : UnitsOf(k)[i] # by_key[k]}

LEMMA ClashSetsFinite ==
  ASSUME Inv, NEW k \in Key
  PROVE  IsFiniteSet(ClashesOf(k)) /\ IsFiniteSet(LateClaims(k))
<1>1. /\ DOMAIN diagnostics = 1..Len(diagnostics) /\ Len(diagnostics) \in Nat
      /\ DOMAIN UnitsOf(k) = 1..Len(UnitsOf(k)) /\ Len(UnitsOf(k)) \in Nat
  BY DEF Inv, DiagnosticsTyped, RegistryInv, RegistryTypeOK, UnitsOf
<1>2. IsFiniteSet(DOMAIN diagnostics) /\ IsFiniteSet(DOMAIN UnitsOf(k))
  BY <1>1, FS_Interval
<1>3. /\ ClashesOf(k) \subseteq DOMAIN diagnostics
      /\ LateClaims(k) \subseteq DOMAIN UnitsOf(k)
  BY DEF ClashesOf, LateClaims, Claims
<1>4. QED
  BY <1>2, <1>3, FS_Subset

LEMMA UnclaimedUntilRegistered ==
  ASSUME RegistryInv, FirstRegisteredWins, NEW k \in Key, by_key[k] = None
  PROVE  Claims(k) = {}
<1> SUFFICES ASSUME Claims(k) # {} PROVE FALSE
  OBVIOUS
<1>1. PICK i \in Claims(k) : by_key[k] = UnitsOf(k)[i]
  BY DEF FirstRegisteredWins
<1>2. UnitsOf(k)[i] \in Unit
  BY DEF Claims, UnitsOf, RegistryInv, RegistryTypeOK, Registrable
<1>3. QED
  BY <1>1, <1>2, NullAssumption DEF NoUnitIsNull

(* A registration under k that finds another unit there makes one more      *)
(* diagnostic and one more late claim; every other step makes neither.      *)
LEMMA ClashStep ==
  ASSUME Inv, FirstRegisteredWins, EachClashReportedOnce, [Next]_vars
  PROVE  EachClashReportedOnce'
<1> SUFFICES ASSUME NEW k \in Key,
                    Cardinality(ClashesOf(k)) = Cardinality(LateClaims(k))
             PROVE  Cardinality(ClashesOf(k)') = Cardinality(LateClaims(k)')
  BY DEF EachClashReportedOnce, ClashesOf, LateClaims
<1> DEFINE dg == diagnostics
<1>1. /\ dg \in Seq([what : {"duplicate"}, key : Key])
      /\ DOMAIN dg = 1..Len(dg) /\ Len(dg) \in Nat
  BY DEF Inv, DiagnosticsTyped
<1> RegistryInv
  BY DEF Inv
<1>2. ASSUME diagnostics' = diagnostics, Claims(k)' = Claims(k),
             by_key'[k] = by_key[k],
             \A i \in Claims(k) : UnitsOf(k)'[i] = UnitsOf(k)[i]
      PROVE  ClashesOf(k)' = ClashesOf(k) /\ LateClaims(k)' = LateClaims(k)
  BY <1>2 DEF ClashesOf, LateClaims
<1>3. CASE Quiet
  BY <1>2, <1>3, ClaimsUndisturbed DEF Quiet, mapVars
<1>4. ASSUME NEW u \in Registrable, KeyOf(u) # k,
             RegistersPrimary(u) \/ RegistersSecondary(u)
      PROVE  Cardinality(ClashesOf(k)') = Cardinality(LateClaims(k)')
  <2>1. by_key'[k] = by_key[k]
    BY <1>4 DEF RegistryInv, RegistryTypeOK, RegistersPrimary, RegistersSecondary, Register
  <2>2. LateClaims(k)' = LateClaims(k)
    BY <1>4, <2>1, ClaimsUndisturbed DEF LateClaims
  <2>3. dg' = dg \/ dg' = Append(dg, Duplicate(KeyOf(u)))
    BY <1>4 DEF RegistersPrimary, RegistersSecondary, Register
  <2>4. ASSUME dg' = Append(dg, Duplicate(KeyOf(u)))
        PROVE  ClashesOf(k)' = ClashesOf(k)
    <3>1. /\ DOMAIN dg' = 1..(Len(dg) + 1)
          /\ \A d \in 1..Len(dg) : dg'[d] = dg[d]
          /\ dg'[Len(dg) + 1].key # k
      BY <1>1, <1>4, <2>4 DEF Duplicate
    <3>2. QED BY <1>1, <3>1 DEF ClashesOf
  <2>5. ClashesOf(k)' = ClashesOf(k)
    BY <2>3, <2>4 DEF ClashesOf
  <2>6. QED BY <2>2, <2>5
<1>5. ASSUME NEW u \in Registrable, KeyOf(u) = k,
             RegistersPrimary(u) \/ RegistersSecondary(u)
      PROVE  Cardinality(ClashesOf(k)') = Cardinality(LateClaims(k)')
  <2> DEFINE n == Len(UnitsOf(k)) + 1
  <2>1. /\ n \in Nat /\ \A i \in Claims(k) : i \in Nat /\ i < n
        /\ Claims(k)' = Claims(k) \cup {n}
        /\ UnitsOf(k)'[n] = u
        /\ \A i \in Claims(k) : UnitsOf(k)'[i] = UnitsOf(k)[i]
    BY <1>5, RegistrationAddsClaim
  <2>2. /\ by_key'[k] = IF by_key[k] = None THEN u ELSE by_key[k]
        /\ dg' = IF by_key[k] \in {None, u} THEN dg ELSE Append(dg, Duplicate(k))
    BY <1>5 DEF RegistryInv, RegistryTypeOK, RegistersPrimary, RegistersSecondary, Register
  <2> HIDE DEF n
  <2>3. CASE by_key[k] = None
    <3>1. Claims(k) = {}
      BY <2>3, UnclaimedUntilRegistered
    <3>2. LateClaims(k)' = LateClaims(k)
      BY <2>1, <2>2, <2>3, <3>1 DEF LateClaims
    <3>3. ClashesOf(k)' = ClashesOf(k)
      BY <2>2, <2>3 DEF ClashesOf
    <3>4. QED BY <3>2, <3>3
  <2>4. CASE by_key[k] = u
    <3>1. LateClaims(k)' = LateClaims(k)
      BY <2>1, <2>2, <2>4 DEF LateClaims
    <3>2. ClashesOf(k)' = ClashesOf(k)
      BY <2>2, <2>4 DEF ClashesOf
    <3>3. QED BY <3>1, <3>2
  <2>5. CASE by_key[k] \notin {None, u}
    <3>1. LateClaims(k)' = LateClaims(k) \cup {n} /\ n \notin LateClaims(k)
      BY <2>1, <2>2, <2>5 DEF LateClaims
    <3>2. /\ DOMAIN dg' = 1..(Len(dg) + 1)
          /\ \A d \in 1..Len(dg) : dg'[d] = dg[d]
          /\ dg'[Len(dg) + 1].key = k
      BY <1>1, <2>2, <2>5 DEF Duplicate
    <3>3. /\ ClashesOf(k)' = ClashesOf(k) \cup {Len(dg) + 1}
          /\ Len(dg) + 1 \notin ClashesOf(k)
      BY <1>1, <3>2 DEF ClashesOf
    <3>4. IsFiniteSet(ClashesOf(k)) /\ IsFiniteSet(LateClaims(k))
      BY ClashSetsFinite
    <3>5. Cardinality(ClashesOf(k)') = Cardinality(ClashesOf(k)) + 1
      BY <3>3, <3>4, FS_AddElement
    <3>6. Cardinality(LateClaims(k)') = Cardinality(LateClaims(k)) + 1
      BY <3>1, <3>4, FS_AddElement
    <3>7. QED
      BY <3>5, <3>6
  <2>6. QED BY <2>3, <2>4, <2>5
<1>6. QED
  BY <1>3, <1>4, <1>5, StepCases

(* Every late claim of a name has exactly one diagnostic, and no diagnostic *)
(* is without one, however many callers there are.                          *)
THEOREM ClashesReported == Spec => []EachClashReportedOnce
<1>1. Init => Inv /\ FirstRegisteredWins /\ EachClashReportedOnce
  <2>1. Init => Inv
    BY InitInv
  <2>2. Init => FirstRegisteredWins
    BY DEF Init, FirstRegisteredWins, Claims, UnitsOf
  <2>3. Init => EachClashReportedOnce
    <3> SUFFICES ASSUME Init, NEW k \in Key
                 PROVE  ClashesOf(k) = {} /\ LateClaims(k) = {}
      BY DEF EachClashReportedOnce, ClashesOf, LateClaims
    <3>1. DOMAIN diagnostics = {} /\ DOMAIN UnitsOf(k) = {}
      BY DEF Init, UnitsOf
    <3>2. QED BY <3>1 DEF ClashesOf, LateClaims, Claims
  <2>4. QED BY <2>1, <2>2, <2>3
<1>2. Inv /\ FirstRegisteredWins /\ EachClashReportedOnce /\ [Next]_vars
        => (Inv /\ FirstRegisteredWins /\ EachClashReportedOnce)'
  BY TypeStep, FirstRegisteredWinsStep, ClashStep DEF Inv
<1>3. QED
  BY <1>1, <1>2, PTL DEF Spec

--------------------------------------------------------------------------------
(* A step that registers a unit analyses it in the library; the others      *)
(* leave the library as it is.                                              *)
LEMMA QuietIsStutter ==
  ASSUME Quiet
  PROVE  UNCHANGED Library!libraryVars
BY DEF Quiet, mapVars, Library!libraryVars, Latest

LEMMA RegistrationAnalyses ==
  ASSUME Inv, NEW u \in Registrable,
         RegistersPrimary(u) \/ RegistersSecondary(u)
  PROVE  Library!Analyse(u)
<1> DEFINE dg == diagnostics
           k == KeyOf(u)
           latest == [ek \in EntityKey |-> Latest(ek)]
           clashes == {dg[d].key : d \in DOMAIN dg}
<1> RegistryInv
  BY DEF Inv
<1>1. by_key' = [by_key EXCEPT ![k] = IF @ = None THEN u ELSE @]
  BY KeyNamesVector
    DEF RegistryInv, RegistryTypeOK, RegistersPrimary, RegistersSecondary, Register
<1>2. clashes' = IF by_key[k] \in {None, u} THEN clashes ELSE clashes \cup {k}
  <2>1. /\ dg \in Seq([what : {"duplicate"}, key : Key])
        /\ DOMAIN dg = 1..Len(dg) /\ Len(dg) \in Nat
    BY DEF Inv, DiagnosticsTyped
  <2>2. CASE by_key[k] \in {None, u}
    BY <2>2 DEF RegistersPrimary, RegistersSecondary, Register
  <2>3. CASE by_key[k] \notin {None, u}
    <3>1. dg' = Append(dg, Duplicate(k))
      BY <2>3 DEF RegistersPrimary, RegistersSecondary, Register
    <3>2. /\ DOMAIN dg' = (DOMAIN dg) \cup {Len(dg) + 1}
          /\ \A d \in DOMAIN dg : dg'[d] = dg[d]
          /\ dg'[Len(dg) + 1].key = k
      BY <2>1, <3>1 DEF Duplicate
    <3> HIDE DEF k, dg
    <3>3. QED BY <2>3, <3>2
  <2>4. QED BY <2>2, <2>3
<1>3. latest' = IF u \in Architectures
                THEN [latest EXCEPT ![EntityKeyOf(u)] = u] ELSE latest
  <2>1. CASE RegistersPrimary(u)
    <3>1. u \notin Architectures
      BY <2>1 DEF RegistersPrimary, Architectures, IsKind, PrimaryKinds
    <3>2. QED BY <2>1, <3>1 DEF RegistersPrimary, Latest
  <2>2. CASE RegistersSecondary(u) /\ u \in Architectures
    <3> DEFINE a == architectures_by_entity_key
               e == EntityKeyOf(u)
    <3>1. e \in EntityKey /\ a \in [EntityKey -> Seq(Architectures)]
      BY <2>2 DEF EntityKey, RegistryInv, RegistryTypeOK
    <3>2. a' = [a EXCEPT ![e] = Append(@, u)]
      BY <2>2 DEF RegistersSecondary
    <3>3. a'[e] # <<>> /\ a'[e][Len(a'[e])] = u
      BY <2>2, <3>1, <3>2
    <3>4. Latest(e)' = u
      BY <3>3 DEF Latest
    <3>5. \A ek \in EntityKey \ {e} : Latest(ek)' = Latest(ek)
      BY <3>1, <3>2 DEF Latest
    <3>6. latest' = [ek \in EntityKey |-> Latest(ek)']
      OBVIOUS
    <3> HIDE DEF e, a
    <3>7. latest' = [latest EXCEPT ![e] = u]
      BY <3>1, <3>4, <3>5, <3>6
    <3>8. QED BY <2>2, <3>7 DEF e
  <2>3. CASE RegistersSecondary(u) /\ u \notin Architectures
    BY <2>3 DEF RegistersSecondary, Latest
  <2>4. QED BY <2>1, <2>2, <2>3
<1>4. QED
  BY <1>1, <1>2, <1>3 DEF Library!Analyse

(* The registry, with its mutex, loops and containers, implements the       *)
(* library that analyses one unit at a time.                                *)
THEOREM ImplementsLibrary == Spec => RefinesLibrary
<1>1. Init => Library!Init
  BY DEF Init, Library!Init, Latest
<1>2. Inv /\ [Next]_vars => [Library!Next]_(Library!libraryVars)
  BY StepCases, QuietIsStutter, RegistrationAnalyses DEF Library!Next, Inv
<1>3. Init => Inv
  BY InitInv
<1>4. QED
  BY <1>1, <1>2, <1>3, TypeStep, PTL DEF Spec, RefinesLibrary, Library!Spec

--------------------------------------------------------------------------------
(* The units of files, one file more; of calls, one call more. *)
LEMMA NodesAre ==
  /\ NodesOf(None) = <<>>
  /\ \A f \in File \cup {None} : NodesOf(f) \in Seq(Unit)
  /\ \A f \in File : /\ Len(NodesOf(f)) = Len(FileUnits[f]) /\ Len(FileUnits[f]) \in Nat
                     /\ \A i \in 1..Len(FileUnits[f]) : NodesOf(f)[i] = <<f, i>>
<1>1. NodesOf(None) = <<>> /\ <<>> \in Seq(Unit)
  BY DEF NodesOf
<1>2. ASSUME NEW f \in File
      PROVE  /\ NodesOf(f) \in Seq(Unit)
             /\ Len(NodesOf(f)) = Len(FileUnits[f]) /\ Len(FileUnits[f]) \in Nat
             /\ \A i \in 1..Len(FileUnits[f]) : NodesOf(f)[i] = <<f, i>>
  <2> DEFINE m == Len(FileUnits[f])
             q == [i \in 1..m |-> <<f, i>>]
  <2>1. m \in Nat /\ f # None
    BY FilesAssumption
  <2>2. NodesOf(f) = q
    BY <2>1 DEF NodesOf
  <2>3. \A i \in 1..m : <<f, i>> \in Unit
    BY DEF Unit
  <2> HIDE DEF m
  <2>4. q \in Seq(Unit) /\ Len(q) = m /\ \A i \in 1..m : q[i] = <<f, i>>
    BY <2>1, <2>3
  <2> QED
    BY <2>1, <2>2, <2>4 DEF m
<1> QED
  BY <1>1, <1>2

LEMMA UnitsOfAppend ==
  ASSUME NEW files \in Seq(File \cup {None}), NEW f \in File \cup {None}
  PROVE  /\ UnitsIn(files) \in Seq(Unit)
         /\ UnitsIn(Append(files, f)) = UnitsIn(files) \o NodesOf(f)
<1> DEFINE T == File \cup {None}
           W == Seq(Unit)
           h == [g \in T |-> NodesOf(g)]
           more == Append(files, f)
           parts == [n \in 1..Len(files) |-> h[files[n]]]
<1>1. \A g \in T : h[g] \in W /\ h[g] = NodesOf(g)
  BY NodesAre
<1>2. more \in Seq(T) /\ \A s \in Seq(T) : \A n \in 1..Len(s) : s[n] \in T
  OBVIOUS
<1> HIDE DEF W, h
<1>3. parts \in Seq(W)
      /\ [n \in 1..Len(more) |-> h[more[n]]] = Append(parts, h[f])
  BY <1>1, ImageOfAppend
<1>4. UnitsIn(files) = FlattenSeq(parts)
  <2>1. parts = [n \in 1..Len(files) |-> NodesOf(files[n])]
    BY <1>1, <1>2
  <2> QED
    BY <2>1 DEF UnitsIn
<1>5. UnitsIn(more) = FlattenSeq(Append(parts, h[f]))
  <2>1. [n \in 1..Len(more) |-> h[more[n]]] = [n \in 1..Len(more) |-> NodesOf(more[n])]
    <3> HIDE DEF more
    <3> QED
      BY <1>1, <1>2
  <2> QED
    BY <1>3, <2>1 DEF UnitsIn
<1> HIDE DEF parts
<1>6. FlattenSeq(parts) \in Seq(Unit)
  BY <1>3, FlattenedIsSeq DEF W
<1>7. h[f] \in Seq(Unit)
  BY <1>1 DEF W
<1>8. FlattenSeq(Append(parts, h[f])) = FlattenSeq(parts) \o h[f]
  BY <1>3, <1>7, FlattenAppend DEF W
<1> QED
  BY <1>1, <1>4, <1>5, <1>6, <1>8

LEMMA FilesOfAppend ==
  ASSUME RegistryTypeOK, NEW order \in Seq(Caller), NEW c \in Caller
  PROVE  /\ FilesOf(order) \in Seq(File \cup {None})
         /\ FilesOf(Append(order, c)) = FilesOf(order) \o file_set[c]
<1> DEFINE W == Seq(File \cup {None})
           more == Append(order, c)
           parts == [n \in 1..Len(order) |-> file_set[order[n]]]
<1>1. \A d \in Caller : file_set[d] \in W
  BY DEF RegistryTypeOK
<1>2. FilesOf(order) = FlattenSeq(parts)
      /\ FilesOf(more) = FlattenSeq([n \in 1..Len(more) |-> file_set[more[n]]])
  BY DEF FilesOf
<1> HIDE DEF W
<1>3. parts \in Seq(W)
      /\ [n \in 1..Len(more) |-> file_set[more[n]]] = Append(parts, file_set[c])
  BY <1>1, ImageOfAppend
<1> HIDE DEF parts
<1> QED
  BY <1>1, <1>2, <1>3, FlattenedIsSeq, FlattenAppend DEF W

--------------------------------------------------------------------------------
(* The calls that have returned, each once, in an order. *)
InOrder(order) ==
  /\ order \in Seq(Caller)
  /\ \A c \in Returned : \E n \in 1..Len(order) : order[n] = c
  /\ \A n \in 1..Len(order) : order[n] \in Returned
  /\ \A m, n \in 1..Len(order) : order[m] = order[n] => m = n

(* The files the loop is through with, those it has opened, and the units   *)
(* it has passed: those of the returned calls, then those of the call that  *)
(* holds the mutex.                                                         *)
Inside == files_mtx # None /\ unit[files_mtx] > 0
Above(c) == SubSeq(NodesOf(CurrentFile(c)), 1, unit[c] - 1)
FilesClosed(order) ==
  IF files_mtx = None THEN FilesOf(order)
  ELSE FilesOf(order) \o SubSeq(file_set[files_mtx], 1, df[files_mtx] - 1)
FilesOpened(order) ==
  IF Inside THEN Append(FilesClosed(order), CurrentFile(files_mtx)) ELSE FilesClosed(order)
UnitsGone(order) ==
  IF Inside THEN UnitsIn(FilesClosed(order)) \o Above(files_mtx)
  ELSE UnitsIn(FilesClosed(order))

(* A call starts with its first file, and its loop ends after the last; the *)
(* clauses a file's units are given so far are those above the current one. *)
CallsOK ==
  \A c \in Caller :
    /\ df[c] <= Len(file_set[c]) + 1
    /\ pc[c] \in {"idle", "waiting"} => df[c] = 1
    /\ unit[c] > 0 => use_clauses[c] = Among(Above(c), UnitsOfKind({"use_clause"}))

Serial(order) ==
  InOrder(order) /\ Registered(FilesOpened(order), UnitsGone(order))
SerialInv == RegistryInv /\ CallsOK /\ \E order : Serial(order)

--------------------------------------------------------------------------------
(* What one file more, or one unit more, does to what is registered. *)
FilesGrow(f) ==
  /\ files_by_lib' = IF f = None THEN files_by_lib
                     ELSE [files_by_lib EXCEPT ![FileLib[f]] = Append(@, f)]
  /\ UNCHANGED <<primary_units, secondary_units, packages_in_scope>>

LEMMA FileIsRegistered ==
  ASSUME RegistryTypeOK, NEW files \in Seq(File \cup {None}), NEW units,
         Registered(files, units), NEW f \in File \cup {None}, FilesGrow(f)
  PROVE  Registered(Append(files, f), units)'
<1>1. \A u : ClausesAbove(u)' = ClausesAbove(u)
  BY DEF ClausesAbove, NodesOf, UnitsOfKind, Unit, IsKind, KindOf, Decl
<1>2. ASSUME NEW l \in DOMAIN files_by_lib'
      PROVE  files_by_lib'[l] = Among(Append(files, f), {g \in File : FileLib[g] = l})
  <2> DEFINE S == {g \in File : FileLib[g] = l}
  <2>1. files_by_lib \in [{FileLib[g] : g \in File} -> Seq(File)]
    BY DEF RegistryTypeOK
  <2>2. l \in DOMAIN files_by_lib /\ files_by_lib[l] = Among(files, S)
    BY <1>2 DEF FilesGrow, Registered
  <2>3. Among(Append(files, f), S) =
          IF f \in S THEN Append(Among(files, S), f) ELSE Among(files, S)
    BY AmongAppend
  <2>4. f \in S <=> f # None /\ FileLib[f] = l
    BY FilesAssumption
  <2>5. files_by_lib'[l] = IF f \in S THEN Append(files_by_lib[l], f) ELSE files_by_lib[l]
    <3> HIDE DEF S
    <3> QED
      BY <2>1, <2>2, <2>4 DEF FilesGrow
  <2> HIDE DEF S
  <2>6. files_by_lib'[l] = Among(Append(files, f), S)
    BY <2>2, <2>3, <2>5
  <2> QED
    BY <2>6 DEF S
<1> QED
  BY <1>1, <1>2 DEF Registered, FilesGrow

(* The vectors a unit is put into by its kind. *)
UnitsGrow(c, u) ==
  /\ primary_units' = IF IsKind(u, PrimaryKinds \cup {"context_reference"})
                      THEN Append(primary_units, u) ELSE primary_units
  /\ secondary_units' = IF IsKind(u, SecondaryKinds)
                        THEN Append(secondary_units, u) ELSE secondary_units
  /\ packages_in_scope' = IF IsKind(u, RegisteredKinds)
                          THEN [packages_in_scope EXCEPT ![u] = @ \o use_clauses[c]]
                          ELSE packages_in_scope
  /\ UNCHANGED files_by_lib

LEMMA ClausesAreUnits ==
  \A u \in Unit : ClausesAbove(u) \in Seq(Unit)
<1> TAKE u \in Unit
<1>1. PICK f \in File : \E i \in 1..Len(FileUnits[f]) : u = <<f, i>>
  BY DEF Unit
<1>0. PICK i \in 1..Len(FileUnits[f]) : u = <<f, i>>
  BY <1>1
<1>2. NodesOf(f) \in Seq(Unit) /\ i \in 1..Len(NodesOf(f)) /\ u[1] = f /\ u[2] = i
  BY <1>0, NodesAre
<1>3. SubSeq(NodesOf(f), 1, i - 1) \in Seq(Unit)
  BY <1>2, PrefixGrows
<1> QED
  BY <1>2, <1>3, AmongKeeps DEF ClausesAbove

LEMMA UnitIsRegistered ==
  ASSUME RegistryTypeOK, NEW files, NEW units \in Seq(Unit), Registered(files, units),
         NEW c \in Caller, NEW u \in Unit, UnitsGrow(c, u), use_clauses[c] = ClausesAbove(u)
  PROVE  Registered(files, Append(units, u))'
<1> DEFINE more == Append(units, u)
<1>1. \A v : ClausesAbove(v)' = ClausesAbove(v)
  BY DEF ClausesAbove, NodesOf, UnitsOfKind, Unit, IsKind, KindOf, Decl
<1>2. \A kinds : Among(more, UnitsOfKind(kinds)) =
        IF IsKind(u, kinds) THEN Append(Among(units, UnitsOfKind(kinds)), u)
        ELSE Among(units, UnitsOfKind(kinds))
  BY AmongAppend DEF UnitsOfKind
<1>3. ASSUME NEW v \in Registrable
      PROVE  packages_in_scope'[v] = FlattenSeq([n \in 1..Times(v, more) |-> ClausesAbove(v)])
  <2> DEFINE k == Times(v, units)
             x == ClausesAbove(v)
             W == Seq(Unit)
             parts == [n \in 1..k |-> x]
  <2>1. v \in Unit /\ packages_in_scope[v] = FlattenSeq(parts)
    BY DEF Registered, Registrable
  <2>2. k \in Nat /\ Times(v, more) = k + (IF u = v THEN 1 ELSE 0)
    BY TimesAppend
  <2>3. x \in W
    BY <2>1, ClausesAreUnits
  <2>4. packages_in_scope \in [Registrable -> W]
    BY DEF RegistryTypeOK
  <2> HIDE DEF k, x, W, parts, more
  <2>5. CASE u = v
    <3>1. IsKind(u, RegisteredKinds)
      BY <2>5 DEF Registrable
    <3>2. packages_in_scope'[v] = packages_in_scope[v] \o use_clauses[c]
      BY <2>4, <2>5, <3>1 DEF UnitsGrow
    <3>3. parts \in Seq(W) /\ [n \in 1..(k + 1) |-> x] = Append(parts, x)
      BY <2>2, <2>3, Repetitions DEF parts
    <3>4. FlattenSeq(Append(parts, x)) = FlattenSeq(parts) \o x
      BY <2>3, <3>3, FlattenAppend DEF W
    <3>5. Times(v, more) = k + 1 /\ use_clauses[c] = x
      BY <2>2, <2>5 DEF x
    <3> QED
      BY <2>1, <3>2, <3>3, <3>4, <3>5 DEF x
  <2>6. CASE u # v
    <3>1. packages_in_scope'[v] = packages_in_scope[v]
      BY <2>4, <2>6 DEF UnitsGrow
    <3>2. Times(v, more) = k
      BY <2>2, <2>6
    <3> QED
      BY <2>1, <3>1, <3>2 DEF parts, x
  <2> QED
    BY <2>5, <2>6
<1>4. /\ primary_units' = Among(more, UnitsOfKind(PrimaryKinds \cup {"context_reference"}))
      /\ secondary_units' = Among(more, UnitsOfKind(SecondaryKinds))
  <2> HIDE DEF more
  <2> QED
    BY <1>2 DEF UnitsGrow, Registered
<1> HIDE DEF more
<1> QED
  BY <1>1, <1>3, <1>4 DEF Registered, UnitsGrow, more, UnitsOfKind, IsKind, KindOf, Decl

--------------------------------------------------------------------------------
(* The call that holds the mutex is the only one inside the loops. *)
LEMMA HolderIsAlone ==
  ASSUME RegistryInv, NEW c \in Caller, pc[c] = "adding"
  PROVE  /\ files_mtx = c /\ c # None
         /\ \A d \in Caller : d # c => pc[d] # "adding" /\ unit[d] = 0
  BY CallerAssumption DEF RegistryInv, RegistryTypeOK, CursorOK

LEMMA AboveGrows ==
  ASSUME RegistryInv, NEW c \in Caller, unit[c] > 0
  PROVE  LET nodes == NodesOf(CurrentFile(c))
         IN  /\ nodes \in Seq(Unit) /\ Len(nodes) = Len(FileUnits[CurrentFile(c)])
             /\ unit[c] \in 1..Len(nodes)
             /\ Above(c) \in Seq(Unit) /\ CurrentUnit(c) \in Unit
             /\ SubSeq(nodes, 1, unit[c]) = Append(Above(c), CurrentUnit(c))
             /\ SubSeq(nodes, 1, Len(nodes)) = nodes
<1> DEFINE f == CurrentFile(c)
           nodes == NodesOf(f)
<1>1. f \in File /\ unit[c] \in 1..Len(FileUnits[f])
  BY DEF RegistryInv, CursorOK
<1> HIDE DEF f
<1>2. nodes \in Seq(Unit) /\ Len(nodes) = Len(FileUnits[f]) /\ nodes[unit[c]] = <<f, unit[c]>>
  BY <1>1, NodesAre
<1>3. CurrentUnit(c) = nodes[unit[c]] /\ Above(c) = SubSeq(nodes, 1, unit[c] - 1)
  BY <1>2 DEF CurrentUnit, Above, f
<1>4. CurrentUnit(c) \in Unit
  BY CurrentUnitIsUnit
<1> HIDE DEF nodes
<1>5. unit[c] \in 1..Len(nodes) /\ Len(nodes) = Len(FileUnits[f])
  BY <1>1, <1>2
<1>6. /\ SubSeq(nodes, 1, unit[c] - 1) \in Seq(Unit)
      /\ SubSeq(nodes, 1, unit[c]) = Append(SubSeq(nodes, 1, unit[c] - 1), nodes[unit[c]])
      /\ SubSeq(nodes, 1, Len(nodes)) = nodes
  BY <1>2, <1>5, PrefixGrows
<1> QED
  BY <1>2, <1>3, <1>4, <1>5, <1>6 DEF f, nodes

LEMMA ClosedGrows ==
  ASSUME RegistryInv, NEW c \in Caller, df[c] <= Len(file_set[c])
  PROVE  /\ SubSeq(file_set[c], 1, df[c] - 1) \in Seq(File \cup {None})
         /\ CurrentFile(c) \in File \cup {None}
         /\ SubSeq(file_set[c], 1, df[c]) =
              Append(SubSeq(file_set[c], 1, df[c] - 1), CurrentFile(c))
<1> DEFINE s == file_set[c]
<1>1. s \in Seq(File \cup {None}) /\ df[c] \in 1..Len(s) /\ CurrentFile(c) = s[df[c]]
  BY DEF RegistryInv, RegistryTypeOK, CurrentFile
<1> HIDE DEF s
<1>2. s[df[c]] \in File \cup {None}
  BY <1>1
<1> QED
  BY <1>1, <1>2, PrefixGrows DEF s

(* A step within the loops. *)
WithinLoops(c) == pc[c] = "adding" /\ UNCHANGED <<files_mtx, pc, file_set>>

(* The loop over the files goes on: one file more is closed. *)
LEMMA FileClosed ==
  ASSUME RegistryInv, NEW order \in Seq(Caller), NEW c \in Caller, WithinLoops(c),
         df[c] <= Len(file_set[c]), df' = [df EXCEPT ![c] = @ + 1]
  PROVE  /\ FilesClosed(order) \in Seq(File \cup {None})
         /\ FilesClosed(order)' = Append(FilesClosed(order), CurrentFile(c))
<1> DEFINE T == File \cup {None}
           from == FilesOf(order)
           done == SubSeq(file_set[c], 1, df[c] - 1)
<1>1. files_mtx = c /\ files_mtx' = c /\ c # None /\ file_set' = file_set
  BY HolderIsAlone DEF WithinLoops
<1>2. df \in [Caller -> Nat \ {0}]
  BY DEF RegistryInv, RegistryTypeOK
<1>3. df'[c] - 1 = df[c]
  BY <1>2
<1>4. from' = from
  BY <1>1 DEF FilesOf
<1>5. from \in Seq(T)
  BY FilesOfAppend DEF RegistryInv
<1>6. /\ FilesClosed(order) = from \o done
      /\ FilesClosed(order)' = from \o SubSeq(file_set[c], 1, df[c])
  BY <1>1, <1>3, <1>4 DEF FilesClosed
<1>7. done \in Seq(T) /\ CurrentFile(c) \in T
      /\ SubSeq(file_set[c], 1, df[c]) = Append(done, CurrentFile(c))
  BY ClosedGrows
<1> HIDE DEF T, from, done
<1>8. from \o done \in Seq(T)
      /\ from \o Append(done, CurrentFile(c)) = Append(from \o done, CurrentFile(c))
  BY <1>5, <1>7, Concatenations
<1> QED
  BY <1>6, <1>7, <1>8 DEF T

LEMMA StillClosed ==
  ASSUME RegistryInv, NEW order \in Seq(Caller), NEW c \in Caller, WithinLoops(c),
         df[c] <= Len(file_set[c])
  PROVE  /\ FilesClosed(order) \in Seq(File \cup {None})
         /\ df' = df => FilesClosed(order)' = FilesClosed(order)
<1> DEFINE T == File \cup {None}
           from == FilesOf(order)
           done == SubSeq(file_set[c], 1, df[c] - 1)
<1>1. files_mtx = c /\ files_mtx' = c /\ c # None /\ file_set' = file_set
  BY HolderIsAlone DEF WithinLoops
<1>2. from' = from
  BY <1>1 DEF FilesOf
<1>3. from \in Seq(T)
  BY FilesOfAppend DEF RegistryInv
<1>4. FilesClosed(order) = from \o done
      /\ (df' = df => FilesClosed(order)' = FilesClosed(order))
  BY <1>1, <1>2 DEF FilesClosed
<1>5. done \in Seq(T)
  BY ClosedGrows
<1> HIDE DEF T, from, done
<1>6. from \o done \in Seq(T)
  BY <1>3, <1>5, Concatenations
<1> QED
  BY <1>4, <1>6 DEF T

(* The loop steps over a null pointer: one file more, and no unit. *)
LEMMA NullPassed ==
  ASSUME RegistryInv, NEW order \in Seq(Caller), NEW c \in Caller, SkipNullFile(c)
  PROVE  /\ FilesOpened(order) \in Seq(File \cup {None}) /\ UnitsGone(order) \in Seq(Unit)
         /\ FilesOpened(order)' = Append(FilesOpened(order), None)
         /\ UnitsGone(order)' = UnitsGone(order)
<1>1. WithinLoops(c) /\ df[c] <= Len(file_set[c]) /\ df' = [df EXCEPT ![c] = @ + 1]
      /\ CurrentFile(c) = None /\ unit[c] = 0 /\ unit' = unit
  BY DEF SkipNullFile, AtFile, WithinLoops
<1>2. ~Inside /\ ~Inside'
  BY <1>1, HolderIsAlone DEF Inside, WithinLoops
<1>3. /\ FilesClosed(order) \in Seq(File \cup {None})
      /\ FilesClosed(order)' = Append(FilesClosed(order), None)
  BY <1>1, FileClosed
<1>4. UnitsIn(FilesClosed(order)) \in Seq(Unit)
      /\ UnitsIn(Append(FilesClosed(order), None)) = UnitsIn(FilesClosed(order)) \o <<>>
  BY <1>3, UnitsOfAppend, NodesAre
<1>5. UnitsIn(FilesClosed(order)) \o <<>> = UnitsIn(FilesClosed(order))
  BY <1>4, Concatenations
<1>6. UnitsIn(FilesClosed(order))' = UnitsIn(FilesClosed(order)')
  BY DEF UnitsIn, NodesOf
<1> QED
  BY <1>2, <1>3, <1>4, <1>5, <1>6 DEF FilesOpened, UnitsGone

(* A file is opened: one file more, and no unit yet. *)
LEMMA FileOpened ==
  ASSUME RegistryInv, NEW order \in Seq(Caller), NEW c \in Caller, OpenFile(c)
  PROVE  /\ FilesOpened(order) \in Seq(File \cup {None}) /\ UnitsGone(order) \in Seq(Unit)
         /\ FilesOpened(order)' = Append(FilesOpened(order), CurrentFile(c))
         /\ UnitsGone(order)' = UnitsGone(order)
<1> DEFINE f == CurrentFile(c)
           files == FilesClosed(order)
           units == UnitsIn(files)
<1>1. /\ WithinLoops(c) /\ df[c] <= Len(file_set[c]) /\ unit[c] = 0 /\ c # None
      /\ files_mtx = c /\ files_mtx' = c /\ f # None
  BY HolderIsAlone DEF OpenFile, AtFile, WithinLoops, AdvanceLoops
<1>2. f \in File /\ Len(FileUnits[f]) \in Nat
  BY <1>1, CurrentFileIsFile, FilesAssumption DEF OpenFile
<1>3. files \in Seq(File \cup {None}) /\ (df' = df => files' = files)
  BY <1>1, StillClosed
<1>4. units \in Seq(Unit) /\ UnitsIn(Append(files, f)) = units \o NodesOf(f)
  BY <1>2, <1>3, UnitsOfAppend
<1>5. units \o <<>> = units
  BY <1>4, Concatenations
<1>6. UnitsIn(files)' = UnitsIn(files') /\ UnitsIn(files) = units
  BY DEF UnitsIn, NodesOf
<1>7. ~Inside /\ unit \in [Caller -> Nat] /\ df \in [Caller -> Nat \ {0}]
  BY <1>1 DEF Inside, RegistryInv, RegistryTypeOK
<1>8. FilesOpened(order) = files /\ UnitsGone(order) = units
  BY <1>7 DEF FilesOpened, UnitsGone
<1>9. CASE Len(FileUnits[f]) > 0
  <2>1. df' = df /\ unit'[c] = 1 /\ file_set' = file_set
    BY <1>1, <1>7, <1>9 DEF OpenFile, AdvanceLoops
  <2>2. Inside' /\ CurrentFile(c)' = f /\ CurrentFile(files_mtx)' = f
    BY <1>1, <2>1 DEF Inside, CurrentFile
  <2>3. Above(c)' = SubSeq(NodesOf(f), 1, 0)
    BY <2>1, <2>2 DEF Above, NodesOf
  <2>4. NodesOf(f) \in Seq(Unit)
    BY <1>2, NodesAre
  <2>5. Above(c)' = <<>>
    BY <2>3, <2>4, PrefixGrows
  <2> HIDE DEF f, files, units
  <2>6. FilesOpened(order)' = Append(files, f)
    BY <1>3, <2>1, <2>2 DEF FilesOpened, files
  <2>7. UnitsGone(order)' = units \o <<>>
    BY <1>1, <1>3, <1>6, <2>1, <2>2, <2>5 DEF UnitsGone, files
  <2> QED
    BY <1>3, <1>4, <1>5, <1>8, <2>6, <2>7 DEF f, files
<1>10. CASE ~(Len(FileUnits[f]) > 0)
  <2>1. df' = [df EXCEPT ![c] = @ + 1] /\ unit'[c] = 0 /\ Len(FileUnits[f]) = 0
    BY <1>1, <1>2, <1>7, <1>10 DEF OpenFile, AdvanceLoops
  <2>2. ~Inside'
    BY <1>1, <2>1 DEF Inside
  <2>3. files' = Append(files, f)
    BY <1>1, <2>1, FileClosed
  <2>4. NodesOf(f) = <<>>
    BY <1>2, <2>1, NodesAre
  <2> QED
    BY <1>3, <1>4, <1>5, <1>6, <1>8, <2>2, <2>3, <2>4 DEF FilesOpened, UnitsGone
<1> QED
  BY <1>9, <1>10

(* A unit is dealt with: one unit more, of the files already opened. *)
LEMMA UnitPassed ==
  ASSUME RegistryInv, NEW order \in Seq(Caller), NEW c \in Caller,
         pc[c] = "adding", unit[c] > 0, AdvanceLoops(c)
  PROVE  /\ FilesOpened(order) \in Seq(File \cup {None}) /\ UnitsGone(order) \in Seq(Unit)
         /\ FilesOpened(order)' = FilesOpened(order)
         /\ UnitsGone(order)' = Append(UnitsGone(order), CurrentUnit(c))
<1> DEFINE f == CurrentFile(c)
           u == CurrentUnit(c)
           nodes == NodesOf(f)
           files == FilesClosed(order)
           units == UnitsIn(files)
<1>1. WithinLoops(c) /\ c # None /\ files_mtx = c /\ files_mtx' = c /\ Inside
  BY HolderIsAlone DEF AdvanceLoops, WithinLoops, Inside
<1>2. f \in File /\ df[c] \in 1..Len(file_set[c]) /\ df[c] <= Len(file_set[c])
  BY DEF RegistryInv, RegistryTypeOK, CursorOK
<1>3. unit \in [Caller -> Nat] /\ df \in [Caller -> Nat \ {0}]
  BY DEF RegistryInv, RegistryTypeOK
<1>4. files \in Seq(File \cup {None}) /\ (df' = df => files' = files)
  BY <1>1, <1>2, StillClosed
<1>5. units \in Seq(Unit) /\ UnitsIn(Append(files, f)) = units \o nodes
  BY <1>2, <1>4, UnitsOfAppend
<1>6. /\ nodes \in Seq(Unit) /\ Len(nodes) = Len(FileUnits[f]) /\ unit[c] \in 1..Len(nodes)
      /\ Above(c) \in Seq(Unit) /\ u \in Unit
      /\ SubSeq(nodes, 1, unit[c]) = Append(Above(c), u) /\ SubSeq(nodes, 1, Len(nodes)) = nodes
  BY AboveGrows
<1>7. /\ FilesOpened(order) = Append(files, f) /\ UnitsGone(order) = units \o Above(c)
  BY <1>1 DEF FilesOpened, UnitsGone
<1>8. UnitsIn(files)' = UnitsIn(files')
  BY DEF UnitsIn, NodesOf
<1>9. units \o Above(c) \in Seq(Unit) /\ units \o Append(Above(c), u) = Append(units \o Above(c), u)
  <2> HIDE DEF units, u, nodes, files, f
  <2>1. units \in Seq(Unit) /\ Above(c) \in Seq(Unit) /\ u \in Unit
    BY <1>5, <1>6
  <2> QED
    BY <2>1, Concatenations
<1>10. Append(files, f) \in Seq(File \cup {None})
  BY <1>2, <1>4
<1>11. CASE unit[c] < Len(FileUnits[f])
  <2>1. df' = df /\ unit'[c] = unit[c] + 1 /\ file_set' = file_set
    BY <1>3, <1>11 DEF AdvanceLoops
  <2>2. Inside' /\ CurrentFile(c)' = f /\ CurrentFile(files_mtx)' = f
    BY <1>1, <1>3, <2>1 DEF Inside, CurrentFile
  <2>3. Above(c)' = SubSeq(nodes, 1, unit[c])
    <3>1. unit'[c] - 1 = unit[c]
      BY <1>3, <2>1
    <3> QED
      BY <2>2, <3>1 DEF Above, NodesOf
  <2> HIDE DEF f, u, nodes, files, units
  <2>4. FilesOpened(order)' = Append(files, f)
    BY <1>4, <2>1, <2>2 DEF FilesOpened, files
  <2>5. UnitsGone(order)' = units \o Append(Above(c), u)
    <3>1. UnitsGone(order)' = UnitsIn(files)' \o Above(c)'
      BY <1>1, <2>2 DEF UnitsGone, files
    <3> QED
      BY <1>4, <1>6, <1>8, <2>1, <2>3, <3>1 DEF units
  <2> QED
    BY <1>7, <1>9, <1>10, <2>4, <2>5 DEF u
<1>12. CASE ~(unit[c] < Len(FileUnits[f]))
  <2>1. df' = [df EXCEPT ![c] = @ + 1] /\ unit'[c] = 0 /\ unit[c] = Len(nodes)
    <3>1. unit[c] = Len(nodes)
      <4> HIDE DEF nodes, f
      <4> QED
        BY <1>3, <1>6, <1>12
    <3> QED
      BY <1>3, <1>12, <3>1 DEF AdvanceLoops
  <2>2. ~Inside'
    BY <1>1, <2>1 DEF Inside
  <2>3. files' = Append(files, f)
    BY <1>1, <1>2, <2>1, FileClosed
  <2> HIDE DEF f, u, nodes, files, units
  <2>4. FilesOpened(order)' = Append(files, f)
    BY <2>2, <2>3 DEF FilesOpened, files
  <2>5. UnitsGone(order)' = UnitsIn(files)'
    BY <2>2 DEF UnitsGone, files
  <2>6. nodes = Append(Above(c), u)
    BY <1>6, <2>1
  <2> QED
    BY <1>5, <1>7, <1>8, <1>9, <1>10, <2>3, <2>4, <2>5, <2>6 DEF u
<1> QED
  BY <1>11, <1>12

--------------------------------------------------------------------------------
(* The loops of a call stay as CallsOK says. *)
LEMMA StartedCalls ==
  ASSUME RegistryInv, CallsOK, NEW c \in Caller, NEW arg \in FileSets, Call(c, arg)
  PROVE  CallsOK'
<1>1. arg \in Seq(File \cup {None})
  BY CallerAssumption
<1>2. Len(arg) \in Nat
  BY <1>1
<1>3. unit' = unit /\ df' = df /\ use_clauses' = use_clauses /\ unit[c] = 0 /\ df[c] = 1
      /\ file_set' = [file_set EXCEPT ![c] = arg] /\ pc' = [pc EXCEPT ![c] = "waiting"]
  BY DEF Call, CallsOK, RegistryInv, RegistryTypeOK, CursorOK
<1>4. ASSUME NEW d \in Caller
      PROVE  /\ df'[d] <= Len(file_set'[d]) + 1
             /\ pc'[d] \in {"idle", "waiting"} => df'[d] = 1
             /\ unit'[d] > 0 => use_clauses'[d] = Among(Above(d), UnitsOfKind({"use_clause"}))'
  <2>1. CASE d = c
    BY <1>2, <1>3, <2>1 DEF RegistryInv, RegistryTypeOK
  <2>2. CASE d # c
    <3>1. file_set'[d] = file_set[d] /\ pc'[d] = pc[d]
      BY <1>3, <2>2 DEF RegistryInv, RegistryTypeOK
    <3>2. Above(d)' = Above(d)
      <4>1. CurrentFile(d)' = CurrentFile(d)
        BY <1>3, <3>1 DEF CurrentFile
      <4> QED
        BY <1>3, <4>1 DEF Above, NodesOf
    <3>3. UnitsOfKind({"use_clause"})' = UnitsOfKind({"use_clause"})
      BY DEF UnitsOfKind, Unit, IsKind, KindOf, Decl
    <3> QED
      BY <1>3, <3>1, <3>2, <3>3 DEF CallsOK, Among
  <2> QED
    BY <2>1, <2>2
<1> QED
  BY <1>4 DEF CallsOK

LEMMA ClausesOK ==
  ASSUME RegistryInv, CallsOK, NEW c \in Caller, WithinLoops(c),
         df'[c] \in Nat, df'[c] <= Len(file_set[c]) + 1,
         \A d \in Caller : d # c => df'[d] = df[d] /\ unit'[d] = unit[d],
         unit'[c] > 0 =>
           use_clauses'[c] = Among(Above(c)', UnitsOfKind({"use_clause"}))
  PROVE  CallsOK'
<1>1. ASSUME NEW d \in Caller
      PROVE  /\ df'[d] <= Len(file_set'[d]) + 1
             /\ pc'[d] \in {"idle", "waiting"} => df'[d] = 1
             /\ unit'[d] > 0 => use_clauses'[d] = Among(Above(d), UnitsOfKind({"use_clause"}))'
  <2>1. UnitsOfKind({"use_clause"})' = UnitsOfKind({"use_clause"})
    BY DEF UnitsOfKind, Unit, IsKind, KindOf, Decl
  <2>2. CASE d = c
    BY <2>1, <2>2 DEF WithinLoops, Among
  <2>3. CASE d # c
    <3>1. unit[d] = 0 /\ df'[d] = df[d] /\ unit'[d] = 0
      BY <2>3, HolderIsAlone DEF WithinLoops
    <3> QED
      BY <3>1 DEF CallsOK, WithinLoops
  <2> QED
    BY <2>2, <2>3
<1> QED
  BY <1>1 DEF CallsOK

(* Only a use clause adds to the clauses of a file. *)
LEMMA UnitKeepsClauses ==
  ASSUME RegistryInv, CallsOK, NEW c \in Caller, pc[c] = "adding", unit[c] > 0, AdvanceLoops(c),
         use_clauses' = IF IsKind(CurrentUnit(c), {"use_clause"})
                        THEN [use_clauses EXCEPT ![c] = Append(@, CurrentUnit(c))]
                        ELSE use_clauses
  PROVE  CallsOK'
<1> DEFINE f == CurrentFile(c)
           u == CurrentUnit(c)
           nodes == NodesOf(f)
<1>1. WithinLoops(c)
  BY DEF AdvanceLoops, WithinLoops
<1>2. f \in File /\ df[c] \in 1..Len(file_set[c]) /\ Len(file_set[c]) \in Nat
  BY DEF RegistryInv, RegistryTypeOK, CursorOK
<1>3. /\ unit \in [Caller -> Nat] /\ df \in [Caller -> Nat \ {0}]
      /\ use_clauses \in [Caller -> Seq(Unit)]
  BY DEF RegistryInv, RegistryTypeOK
<1>4. /\ df'[c] \in Nat /\ df'[c] <= Len(file_set[c]) + 1
      /\ \A d \in Caller : d # c => df'[d] = df[d] /\ unit'[d] = unit[d]
  BY <1>2, <1>3 DEF AdvanceLoops
<1>5. ASSUME unit'[c] > 0
      PROVE  use_clauses'[c] = Among(Above(c)', UnitsOfKind({"use_clause"}))
  <2>1. df' = df /\ file_set' = file_set /\ unit'[c] = unit[c] + 1
    BY <1>3, <1>5 DEF AdvanceLoops
  <2>2. unit'[c] - 1 = unit[c] /\ CurrentFile(c)' = f
    BY <1>3, <2>1 DEF CurrentFile
  <2>3. Above(c)' = SubSeq(nodes, 1, unit[c])
    BY <2>2 DEF Above, NodesOf
  <2>4. Above(c)' = Append(Above(c), u) /\ Above(c) \in Seq(Unit) /\ u \in Unit
    BY <2>3, AboveGrows
  <2>5. use_clauses[c] = Among(Above(c), UnitsOfKind({"use_clause"}))
    BY DEF CallsOK
  <2>6. u \in UnitsOfKind({"use_clause"}) <=> IsKind(u, {"use_clause"})
    BY <2>4 DEF UnitsOfKind
  <2>7. use_clauses'[c] = IF IsKind(u, {"use_clause"}) THEN Append(use_clauses[c], u)
                          ELSE use_clauses[c]
    BY <1>3
  <2> HIDE DEF f, u, nodes
  <2>8. Among(Append(Above(c), u), UnitsOfKind({"use_clause"})) =
          IF u \in UnitsOfKind({"use_clause"})
          THEN Append(Among(Above(c), UnitsOfKind({"use_clause"})), u)
          ELSE Among(Above(c), UnitsOfKind({"use_clause"}))
    BY <2>4, AmongAppend
  <2> QED
    BY <2>4, <2>5, <2>6, <2>7, <2>8
<1> QED
  BY <1>1, <1>4, <1>5, ClausesOK

LEMMA CallsStep == RegistryInv /\ CallsOK /\ [Next]_vars => CallsOK'
<1> SUFFICES ASSUME RegistryInv, CallsOK, [Next]_vars PROVE CallsOK'
  OBVIOUS
<1>0. UnitsOfKind({"use_clause"})' = UnitsOfKind({"use_clause"})
  BY DEF UnitsOfKind, Unit, IsKind, KindOf, Decl
<1>1. ASSUME UNCHANGED <<file_set, df, unit, use_clauses>>,
             \A c \in Caller : pc'[c] \in {"idle", "waiting"} => pc[c] \in {"idle", "waiting"}
      PROVE  CallsOK'
  <2>1. \A c : CurrentFile(c)' = CurrentFile(c)
    BY <1>1 DEF CurrentFile
  <2>2. \A c : Above(c)' = Above(c)
    BY <1>1, <2>1 DEF Above, NodesOf
  <2> QED
    BY <1>0, <1>1, <2>2 DEF CallsOK, Among
<1>2. CASE UNCHANGED vars
  BY <1>1, <1>2 DEF vars, callVars
<1>3. ASSUME NEW c \in Caller, Lock(c) \/ Return(c) PROVE CallsOK'
  BY <1>1, <1>3 DEF Lock, Return, RegistryInv, RegistryTypeOK
<1>4. ASSUME NEW c \in Caller, SkipNullFile(c) PROVE CallsOK'
  <2>1. WithinLoops(c) /\ unit'[c] = 0
    BY <1>4 DEF SkipNullFile, AtFile, WithinLoops
  <2>2. df'[c] \in Nat /\ df'[c] <= Len(file_set[c]) + 1 /\ unit' = unit
        /\ \A d \in Caller : d # c => df'[d] = df[d]
    BY <1>4 DEF SkipNullFile, AtFile, RegistryInv, RegistryTypeOK
  <2> QED
    BY <2>1, <2>2, ClausesOK
<1>5. ASSUME NEW c \in Caller, OpenFile(c) PROVE CallsOK'
  <2>1. WithinLoops(c) /\ CurrentFile(c) \in File /\ df[c] <= Len(file_set[c])
    BY <1>5, CurrentFileIsFile DEF OpenFile, AtFile, AdvanceLoops, WithinLoops
  <2>2. /\ unit \in [Caller -> Nat] /\ df \in [Caller -> Nat \ {0}] /\ unit[c] = 0
        /\ use_clauses'[c] = <<>> /\ Len(file_set[c]) \in Nat
    BY <1>5 DEF RegistryInv, RegistryTypeOK, OpenFile, AtFile
  <2>3. /\ df'[c] \in Nat /\ df'[c] <= Len(file_set[c]) + 1
        /\ \A d \in Caller : d # c => df'[d] = df[d] /\ unit'[d] = unit[d]
    BY <1>5, <2>1, <2>2 DEF OpenFile, AdvanceLoops
  <2>4. ASSUME unit'[c] > 0
        PROVE  use_clauses'[c] = Among(Above(c)', UnitsOfKind({"use_clause"}))
    <3>1. df' = df /\ file_set' = file_set /\ unit'[c] = 1
      BY <1>5, <2>2, <2>4 DEF OpenFile, AdvanceLoops
    <3>2. CurrentFile(c)' = CurrentFile(c)
      BY <3>1 DEF CurrentFile
    <3>3. Above(c)' = SubSeq(NodesOf(CurrentFile(c)), 1, 0)
      BY <3>1, <3>2 DEF Above, NodesOf
    <3>4. Above(c)' = <<>>
      BY <2>1, <3>3, NodesAre, PrefixGrows
    <3> QED
      BY <2>2, <3>4, AmongNone
  <2> QED
    BY <2>1, <2>3, <2>4, ClausesOK
<1>6. ASSUME NEW c \in Caller, AddUseClause(c) PROVE CallsOK'
  BY <1>6, UnitKeepsClauses DEF AddUseClause, AtUnit
<1>7. ASSUME NEW c \in Caller, AtUnit(c, RegisteredKinds \cup {"library_clause", "context_reference"}),
             NextUnit(c)
      PROVE  CallsOK'
  <2>1. ~IsKind(CurrentUnit(c), {"use_clause"})
    BY <1>7 DEF AtUnit, IsKind, RegisteredKinds, PrimaryKinds, SecondaryKinds
  <2> QED
    BY <1>7, <2>1, UnitKeepsClauses DEF AtUnit, NextUnit
<1>8. ASSUME NEW c \in Caller,
             \/ AddLibraryClause(c) \/ AddContextReference(c)
             \/ AddPrimaryUnit(c) \/ AddArchitecture(c) \/ AddPackageBody(c)
      PROVE  CallsOK'
  <2>1. AtUnit(c, RegisteredKinds \cup {"library_clause", "context_reference"}) /\ NextUnit(c)
    BY <1>8 DEF AddLibraryClause, AddContextReference, AddPrimaryUnit, AddArchitecture,
                AddPackageBody, AtUnit, IsKind, RegisteredKinds, SecondaryKinds
  <2> QED
    BY <1>7, <2>1
<1> QED
  BY <1>2, <1>3, <1>4, <1>5, <1>6, <1>8, StartedCalls DEF Next, Add

--------------------------------------------------------------------------------
(* Every step keeps the order of the returned calls, or adds one to it. *)
LEMMA StillInOrder ==
  ASSUME NEW order, InOrder(order), Returned' = Returned PROVE InOrder(order)'
  BY DEF InOrder

LEMMA StillSerial ==
  ASSUME NEW order, NEW files, NEW units, InOrder(order)', Registered(files, units)',
         FilesOpened(order)' = files, UnitsGone(order)' = units
  PROVE  Serial(order)'
  BY DEF Serial, Registered

LEMMA RegisteredStays ==
  ASSUME NEW files, NEW units, Registered(files, units),
         UNCHANGED <<files_by_lib, primary_units, secondary_units, packages_in_scope>>
  PROVE  Registered(files, units)'
<1>1. \A u : ClausesAbove(u)' = ClausesAbove(u)
  BY DEF ClausesAbove, NodesOf, UnitsOfKind, Unit, IsKind, KindOf, Decl
<1> QED
  BY <1>1 DEF Registered, UnitsOfKind, IsKind, KindOf, Decl, Unit

LEMMA WithinIsInOrder ==
  ASSUME NEW order, InOrder(order), UNCHANGED pc PROVE InOrder(order)'
  BY StillInOrder DEF Returned

LEMMA SerialCall ==
  ASSUME RegistryInv, NEW order, Serial(order), NEW c \in Caller, NEW arg \in FileSets,
         Call(c, arg)
  PROVE  Serial(order)'
<1> DEFINE files == FilesOpened(order)
           units == UnitsGone(order)
<1>1. InOrder(order) /\ Registered(files, units)
  BY DEF Serial
<1>2. /\ pc[c] = "idle" /\ c \notin Returned /\ Returned' = Returned
      /\ UNCHANGED <<files_mtx, df, unit, files_by_lib, unitVars>>
      /\ \A d \in Caller : d # c => file_set'[d] = file_set[d]
  BY DEF Call, Returned, registryVars, RegistryInv, RegistryTypeOK
<1>3. files_mtx # None => files_mtx \in Caller /\ files_mtx # c
  BY <1>2 DEF RegistryInv, RegistryTypeOK
<1>4. FilesOf(order)' = FilesOf(order)
  <2>1. \A n \in 1..Len(order) : file_set'[order[n]] = file_set[order[n]]
    BY <1>1, <1>2 DEF InOrder, Returned
  <2> QED
    BY <2>1 DEF FilesOf
<1>5. FilesClosed(order)' = FilesClosed(order)
  BY <1>2, <1>3, <1>4 DEF FilesClosed
<1>6. Inside' <=> Inside
  BY <1>2 DEF Inside
<1>7. Inside => CurrentFile(files_mtx)' = CurrentFile(files_mtx) /\ Above(files_mtx)' = Above(files_mtx)
  <2> SUFFICES ASSUME Inside
               PROVE  CurrentFile(files_mtx)' = CurrentFile(files_mtx) /\ Above(files_mtx)' = Above(files_mtx)
    OBVIOUS
  <2>1. CurrentFile(files_mtx)' = CurrentFile(files_mtx)
    BY <1>2, <1>3 DEF Inside, CurrentFile
  <2> QED
    BY <1>2, <2>1 DEF Above, NodesOf
<1>8. UnitsIn(FilesClosed(order))' = UnitsIn(FilesClosed(order))
  BY <1>5 DEF UnitsIn, NodesOf
<1>9. files' = files /\ units' = units
  BY <1>5, <1>6, <1>7, <1>8 DEF FilesOpened, UnitsGone
<1>10. InOrder(order)'
  BY <1>1, <1>2, StillInOrder
<1>11. \A F, U : Registered(F, U) => Registered(F, U)'
  BY <1>2, RegisteredStays DEF unitVars
<1> HIDE DEF files, units
<1> QED
  BY <1>1, <1>9, <1>10, <1>11, StillSerial DEF files, units

LEMMA SerialLock ==
  ASSUME RegistryInv, CallsOK, NEW order, Serial(order), NEW c \in Caller, Lock(c)
  PROVE  Serial(order)'
<1> DEFINE files == FilesOpened(order)
           units == UnitsGone(order)
<1>1. InOrder(order) /\ order \in Seq(Caller) /\ Registered(files, units)
  BY DEF Serial, InOrder
<1>2. /\ files_mtx = None /\ files_mtx' = c /\ c # None /\ unit[c] = 0 /\ df[c] = 1
      /\ Returned' = Returned
      /\ UNCHANGED <<file_set, df, unit, files_by_lib, unitVars>>
  BY CallerAssumption DEF Lock, CallsOK, Returned, registryVars, RegistryInv, RegistryTypeOK, CursorOK
<1>3. FilesOf(order)' = FilesOf(order)
  BY <1>2 DEF FilesOf
<1>4. FilesOf(order) \in Seq(File \cup {None}) /\ file_set[c] \in Seq(File \cup {None})
  BY <1>1, FilesOfAppend DEF RegistryInv, RegistryTypeOK
<1>5. FilesClosed(order) = FilesOf(order)
      /\ FilesClosed(order)' = FilesOf(order) \o SubSeq(file_set[c], 1, 0)
  BY <1>2, <1>3 DEF FilesClosed
<1>6. FilesClosed(order)' = FilesClosed(order)
  <2>1. SubSeq(file_set[c], 1, 0) = <<>> /\ FilesOf(order) \o <<>> = FilesOf(order)
    BY <1>4, PrefixGrows, Concatenations
  <2> QED
    BY <1>5, <2>1
<1>7. ~Inside /\ ~Inside'
  BY <1>2 DEF Inside
<1>8. UnitsIn(FilesClosed(order))' = UnitsIn(FilesClosed(order))
  BY <1>6 DEF UnitsIn, NodesOf
<1>9. files' = files /\ units' = units
  BY <1>6, <1>7, <1>8 DEF FilesOpened, UnitsGone
<1>10. InOrder(order)'
  BY <1>1, <1>2, StillInOrder
<1>11. \A F, U : Registered(F, U) => Registered(F, U)'
  BY <1>2, RegisteredStays DEF unitVars
<1> HIDE DEF files, units
<1> QED
  BY <1>1, <1>9, <1>10, <1>11, StillSerial DEF files, units

(* A call that returns is the last of the order. *)
LEMMA SerialReturn ==
  ASSUME RegistryInv, CallsOK, NEW order, Serial(order), NEW c \in Caller, Return(c)
  PROVE  Serial(Append(order, c))'
<1> DEFINE files == FilesOpened(order)
           units == UnitsGone(order)
           more == Append(order, c)
<1>1. InOrder(order) /\ order \in Seq(Caller) /\ Registered(files, units)
  BY DEF Serial, InOrder
<1>2. /\ pc[c] = "adding" /\ files_mtx' = None /\ files_mtx = c /\ c # None
      /\ c \notin Returned /\ Returned' = Returned \cup {c}
      /\ UNCHANGED <<file_set, df, unit, files_by_lib, unitVars>>
  BY HolderIsAlone DEF Return, Returned, registryVars, RegistryInv, RegistryTypeOK
<1>3. file_set[c] \in Seq(File \cup {None}) /\ df[c] - 1 = Len(file_set[c]) /\ unit[c] = 0
  <2>1. file_set[c] \in Seq(File \cup {None}) /\ df[c] \in Nat /\ unit[c] \in Nat
    BY DEF RegistryInv, RegistryTypeOK
  <2>2. df[c] > Len(file_set[c]) /\ df[c] <= Len(file_set[c]) + 1 /\ Len(file_set[c]) \in Nat
    BY <2>1 DEF Return, CallsOK
  <2>3. df[c] \notin DOMAIN file_set[c]
    BY <2>1, <2>2
  <2> QED
    BY <2>1, <2>2, <2>3 DEF RegistryInv, CursorOK
<1>4. FilesClosed(order) = FilesOf(order) \o file_set[c]
  <2>1. SubSeq(file_set[c], 1, Len(file_set[c])) = file_set[c]
    BY <1>3, PrefixGrows
  <2> QED
    BY <1>2, <1>3, <2>1 DEF FilesClosed
<1>5. FilesOf(more) = FilesOf(order) \o file_set[c]
  BY <1>1, FilesOfAppend DEF RegistryInv
<1>6. FilesClosed(more)' = FilesClosed(order)
  BY <1>2, <1>4, <1>5 DEF FilesClosed, FilesOf
<1>7. ~Inside /\ ~Inside'
  BY <1>2, <1>3 DEF Inside
<1>8. UnitsIn(FilesClosed(more))' = UnitsIn(FilesClosed(order))
  BY <1>6 DEF UnitsIn, NodesOf
<1>9. FilesOpened(more)' = files /\ UnitsGone(more)' = units
  BY <1>6, <1>7, <1>8 DEF FilesOpened, UnitsGone
<1>10. InOrder(more)'
  <2>1. /\ more \in Seq(Caller) /\ Len(more) = Len(order) + 1 /\ Len(order) \in Nat
        /\ more[Len(order) + 1] = c /\ \A n \in 1..Len(order) : more[n] = order[n]
    BY <1>1
  <2> HIDE DEF more
  <2>2. \A n \in 1..Len(order) : order[n] \in Returned /\ order[n] # c
    BY <1>1, <1>2 DEF InOrder
  <2>3. \A n \in 1..Len(more) : n \in 1..Len(order) \/ n = Len(order) + 1
    BY <2>1
  <2>4. ASSUME NEW d \in Returned' PROVE \E n \in 1..Len(more) : more[n] = d
    <3>1. CASE d = c
      BY <2>1, <3>1
    <3>2. CASE d # c
      <4>1. PICK n \in 1..Len(order) : order[n] = d
        BY <1>1, <1>2, <3>2 DEF InOrder
      <4> QED
        BY <2>1, <4>1
    <3> QED
      BY <3>1, <3>2
  <2>5. \A n \in 1..Len(more) : more[n] \in Returned'
    BY <1>2, <2>1, <2>2, <2>3
  <2>6. \A m, n \in 1..Len(more) : more[m] = more[n] => m = n
    BY <1>1, <2>1, <2>2, <2>3 DEF InOrder
  <2> QED
    BY <2>1, <2>4, <2>5, <2>6 DEF InOrder
<1>11. \A F, U : Registered(F, U) => Registered(F, U)'
  BY <1>2, RegisteredStays DEF unitVars
<1> HIDE DEF files, units, more
<1> QED
  BY <1>1, <1>9, <1>10, <1>11, StillSerial DEF files, units, more

LEMMA SerialFiles ==
  ASSUME RegistryInv, CallsOK, NEW order, Serial(order), NEW c \in Caller,
         SkipNullFile(c) \/ OpenFile(c)
  PROVE  Serial(order)'
<1>1. InOrder(order) /\ order \in Seq(Caller)
  BY DEF Serial, InOrder
<1>2. PICK f : f = CurrentFile(c)
  OBVIOUS
<1>3. PICK files, units : files = FilesOpened(order) /\ units = UnitsGone(order)
  OBVIOUS
<1>4. files \in Seq(File \cup {None}) /\ Registered(files, units)
      /\ FilesOpened(order)' = Append(files, f) /\ UnitsGone(order)' = units
  BY <1>1, <1>2, <1>3, NullPassed, FileOpened DEF SkipNullFile, Serial
<1>5. f \in File \cup {None} /\ FilesGrow(f)
  <2>1. f \in File \cup {None}
    BY <1>2, CurrentFileIsFile DEF SkipNullFile, OpenFile
  <2> QED
    BY <1>2, <2>1 DEF SkipNullFile, OpenFile, FilesGrow, registryVars, unitVars
<1>6. InOrder(order)'
  BY <1>1, WithinIsInOrder DEF SkipNullFile, OpenFile, AdvanceLoops
<1>7. RegistryTypeOK
  BY DEF RegistryInv
<1>8. Registered(Append(files, f), units)'
  BY <1>4, <1>5, <1>7, FileIsRegistered
<1> QED
  BY <1>4, <1>6, <1>8, StillSerial

LEMMA SerialUnits ==
  ASSUME RegistryInv, CallsOK, NEW order, Serial(order), NEW c \in Caller,
         pc[c] = "adding", unit[c] > 0, AdvanceLoops(c), UnitsGrow(c, CurrentUnit(c))
  PROVE  Serial(order)'
<1>1. InOrder(order) /\ order \in Seq(Caller)
  BY DEF Serial, InOrder
<1>2. PICK u : u = CurrentUnit(c)
  OBVIOUS
<1>3. PICK files, units : files = FilesOpened(order) /\ units = UnitsGone(order)
  OBVIOUS
<1>4. units \in Seq(Unit) /\ Registered(files, units)
      /\ FilesOpened(order)' = files /\ UnitsGone(order)' = Append(units, u)
  BY <1>1, <1>2, <1>3, UnitPassed DEF Serial
<1>5. u \in Unit /\ UnitsGrow(c, u)
  BY <1>2, AboveGrows
<1>6. use_clauses[c] = ClausesAbove(u)
  BY <1>2 DEF CallsOK, ClausesAbove, Above, CurrentUnit
<1>7. InOrder(order)'
  BY <1>1, WithinIsInOrder DEF AdvanceLoops
<1>8. RegistryTypeOK
  BY DEF RegistryInv
<1>9. Registered(files, Append(units, u))'
  BY <1>4, <1>5, <1>6, <1>8, UnitIsRegistered
<1> QED
  BY <1>4, <1>7, <1>9, StillSerial

LEMMA UnitsGrowAtUnits ==
  ASSUME RegistryInv, NEW c \in Caller,
         \/ AddLibraryClause(c) \/ AddUseClause(c) \/ AddContextReference(c)
         \/ AddPrimaryUnit(c) \/ AddArchitecture(c) \/ AddPackageBody(c)
  PROVE  pc[c] = "adding" /\ unit[c] > 0 /\ AdvanceLoops(c) /\ UnitsGrow(c, CurrentUnit(c))
<1> USE DEF AtUnit, IsKind, UnitsGrow, RegisteredKinds, PrimaryKinds, SecondaryKinds,
            registryVars, unitVars, BringIntoScope, NextUnit
<1>1. CASE AddLibraryClause(c)
  BY <1>1 DEF AddLibraryClause
<1>2. CASE AddUseClause(c)
  BY <1>2 DEF AddUseClause
<1>3. CASE AddContextReference(c)
  BY <1>3 DEF AddContextReference
<1>4. CASE AddPrimaryUnit(c)
  BY <1>4 DEF AddPrimaryUnit
<1>5. CASE AddArchitecture(c)
  BY <1>5 DEF AddArchitecture
<1>6. CASE AddPackageBody(c)
  BY <1>6 DEF AddPackageBody
<1> QED
  BY <1>1, <1>2, <1>3, <1>4, <1>5, <1>6

LEMMA SerialStays ==
  ASSUME NEW order, Serial(order), UNCHANGED vars PROVE Serial(order)'
<1> DEFINE files == FilesOpened(order)
           units == UnitsGone(order)
<1>1. FilesOf(order)' = FilesOf(order) /\ (Inside' <=> Inside)
  BY DEF vars, callVars, FilesOf, Inside
<1>2. FilesClosed(order)' = FilesClosed(order)
  BY <1>1 DEF vars, callVars, FilesClosed
<1>3. CurrentFile(files_mtx)' = CurrentFile(files_mtx)
  BY DEF vars, callVars, CurrentFile
<1>4. Above(files_mtx)' = Above(files_mtx)
        /\ UnitsIn(FilesClosed(order))' = UnitsIn(FilesClosed(order))
  BY <1>2, <1>3 DEF vars, callVars, Above, NodesOf, UnitsIn
<1>5. files' = files /\ units' = units
  BY <1>1, <1>2, <1>3, <1>4 DEF FilesOpened, UnitsGone
<1>6. InOrder(order) /\ Registered(files, units)
  BY DEF Serial
<1>7. InOrder(order)'
  BY <1>6, WithinIsInOrder DEF vars, callVars
<1>8. \A F, U : Registered(F, U) => Registered(F, U)'
  BY RegisteredStays DEF vars, registryVars, unitVars
<1> HIDE DEF files, units
<1> QED
  BY <1>5, <1>6, <1>7, <1>8, StillSerial DEF files, units

LEMMA SerialStep == SerialInv /\ [Next]_vars => SerialInv'
<1> SUFFICES ASSUME SerialInv, [Next]_vars PROVE SerialInv'
  OBVIOUS
<1>1. RegistryInv /\ CallsOK /\ RegistryInv' /\ CallsOK'
  BY RegistryStep, CallsStep DEF SerialInv
<1>2. PICK order : Serial(order)
  BY DEF SerialInv
<1>3. \E later : Serial(later)'
  <2>1. CASE UNCHANGED vars
    BY <1>2, <2>1, SerialStays
  <2>2. ASSUME NEW c \in Caller, NEW arg \in FileSets, Call(c, arg)
        PROVE  Serial(order)'
    BY <1>1, <1>2, <2>2, SerialCall
  <2>3. ASSUME NEW c \in Caller, Lock(c) PROVE Serial(order)'
    BY <1>1, <1>2, <2>3, SerialLock
  <2>4. ASSUME NEW c \in Caller, Return(c) PROVE Serial(Append(order, c))'
    BY <1>1, <1>2, <2>4, SerialReturn
  <2>5. ASSUME NEW c \in Caller, SkipNullFile(c) \/ OpenFile(c) PROVE Serial(order)'
    BY <1>1, <1>2, <2>5, SerialFiles
  <2>6. ASSUME NEW c \in Caller,
               \/ AddLibraryClause(c) \/ AddUseClause(c) \/ AddContextReference(c)
               \/ AddPrimaryUnit(c) \/ AddArchitecture(c) \/ AddPackageBody(c)
        PROVE  Serial(order)'
    BY <1>1, <1>2, <2>6, UnitsGrowAtUnits, SerialUnits
  <2> QED
    BY <2>1, <2>2, <2>3, <2>4, <2>5, <2>6 DEF Next, Add
<1> QED
  BY <1>1, <1>3 DEF SerialInv

LEMMA SerialInit == Init => SerialInv
<1> SUFFICES ASSUME Init PROVE SerialInv
  OBVIOUS
<1> DEFINE none == <<>>
<1>1. RegistryInv
  BY InitInv DEF Inv
<1>2. Len(none) = 0 /\ 1..0 = {} /\ none \in Seq(Caller) /\ none \in Seq(Seq(Unit))
      /\ none \in Seq(File \cup {None}) /\ [n \in {} |-> none] = none
  OBVIOUS
<1>3. CallsOK
  <2>1. \A c \in Caller : Len(file_set[c]) = 0 /\ df[c] = 1 /\ unit[c] = 0
    BY DEF Init
  <2> QED
    BY <2>1 DEF CallsOK
<1>4. InOrder(none)
  BY <1>2 DEF InOrder, Init, Returned
<1>5. FlattenSeq(none) = none
  BY <1>2, FlattenNone
<1>6. FilesOf(none) = none /\ UnitsIn(none) = none
  BY <1>2, <1>5 DEF FilesOf, UnitsIn
<1>7. ~Inside /\ files_mtx = None
  BY DEF Init, Inside
<1>8. FilesOpened(none) = none /\ UnitsGone(none) = none
  BY <1>6, <1>7 DEF FilesOpened, UnitsGone, FilesClosed
<1>9. Registered(none, none)
  <2>1. \A u : Times(u, none) = 0
    <3> TAKE u
    <3>1. DOMAIN none = {}
      OBVIOUS
    <3>2. {n \in DOMAIN none : none[n] = u} = {}
      BY <3>1
    <3> QED
      BY <3>2, FS_EmptySet DEF Times
  <2>2. \A u : [n \in 1..Times(u, none) |-> ClausesAbove(u)] = none
    BY <1>2, <2>1
  <2> QED
    BY <1>5, <2>2, AmongNone DEF Registered, Init
<1> QED
  BY <1>1, <1>3, <1>4, <1>8, <1>9 DEF SerialInv, Serial

(* What the mutex is for: whenever it is free, the registry is what the     *)
(* returned calls of add_design_files leave when they run one after the     *)
(* other in some order, whatever the callers, the files and the interleaving. *)
THEOREM CallsSerialize == Spec => []CallsAreSerialized
<1>1. SerialInv => CallsAreSerialized
  <2> SUFFICES ASSUME SerialInv, files_mtx = None
               PROVE  \E order \in [1..Cardinality(Returned) -> Returned] :
                        /\ \A c \in Returned : \E n \in DOMAIN order : order[n] = c
                        /\ Registered(FilesOf(order), UnitsIn(FilesOf(order)))
    BY DEF CallsAreSerialized
  <2>1. PICK order : Serial(order)
    BY DEF SerialInv
  <2>2. /\ order \in Seq(Caller) /\ DOMAIN order = 1..Len(order) /\ Len(order) \in Nat
        /\ order \in [1..Len(order) -> Caller]
        /\ \A c \in Returned : \E n \in 1..Len(order) : order[n] = c
        /\ \A n \in 1..Len(order) : order[n] \in Returned
        /\ \A m, n \in 1..Len(order) : order[m] = order[n] => m = n
    BY <2>1 DEF Serial, InOrder
  <2>3. order \in [1..Len(order) -> Returned]
    BY <2>2
  <2>4. order \in Bijection(1..Len(order), Returned)
    BY <2>2, <2>3 DEF Bijection, Injection, Surjection, IsInjective
  <2>5. Cardinality(Returned) = Len(order)
    BY <2>2, <2>4, FS_CountingElements DEF ExistsBijection
  <2>6. Registered(FilesOf(order), UnitsIn(FilesOf(order)))
    BY <2>1 DEF Serial, FilesOpened, UnitsGone, FilesClosed, Inside
  <2> QED
    BY <2>2, <2>3, <2>5, <2>6
<1> QED
  BY <1>1, SerialInit, SerialStep, PTL DEF Spec
================================================================================
