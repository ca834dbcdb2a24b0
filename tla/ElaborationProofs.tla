--------------------------- MODULE ElaborationProofs ---------------------------
(***************************************************************************)
(* What holds of bindings after any number of runs of resolve_references,  *)
(* for any files and whatever is analysed between the runs.  A reference   *)
(* is only compared with the name it was found under: the registry keeps   *)
(* what a name of an entity stands for, so what once fitted fits for good. *)
(***************************************************************************)
EXTENDS Elaboration, DesignRegistryProofs

Registry == RegistryInv /\ FirstRegisteredWins /\ DefaultArchitectureIsLatest

EntityAt(ek) == At(<<"entity", ek, "">>)
ConfigurationAt(ck) == At(<<"configuration", ck, "">>)
ConfiguredKey(c) == LibraryAndDesignName(LibOf(c), Decl(c).of)
IsConfiguration(c) == c \in Registrable /\ IsKind(c, {"configuration"})
RegisteredArchitecture(a) ==
  a \in Architectures /\ \E n \in DOMAIN secondary_units : secondary_units[n] = a

--------------------------------------------------------------------------------
(* What the registry returns is filed under the key that was asked for. *)
LEMMA FoundUnit ==
  ASSUME Registry, NEW k \in Key, by_key[k] # None
  PROVE  \E i \in DOMAIN UnitsOf(k) :
           by_key[k] = UnitsOf(k)[i] /\ KeyOf(by_key[k]) = k /\ by_key[k] \in Registrable
<1>1. PICK i \in Claims(k) : by_key[k] = UnitsOf(k)[i]
  BY DEF Registry, FirstRegisteredWins
<1>2. i \in DOMAIN UnitsOf(k) /\ KeyOf(UnitsOf(k)[i]) = k
  BY DEF Claims
<1>3. by_key[k] \in Registrable
  BY DEF Registry, RegistryInv, RegistryTypeOK
<1> QED
  BY <1>1, <1>2, <1>3

LEMMA ByKeyDomain ==
  ASSUME Registry
  PROVE  DOMAIN by_key = Key /\ DOMAIN architectures_by_entity_key = EntityKey
BY DEF Registry, RegistryInv, RegistryTypeOK

LEMMA FoundEntity ==
  ASSUME Registry, NEW ek, EntityAt(ek) # None
  PROVE  <<LibOf(EntityAt(ek)), Decl(EntityAt(ek)).id>> = ek
<1> DEFINE k == <<"entity", ek, "">>
           e == by_key[k]
<1>1. k \in Key /\ EntityAt(ek) = e /\ e # None
  BY ByKeyDomain DEF EntityAt, At
<1>2. KeyOf(e) = k
  BY <1>1, FoundUnit
<1> QED
  BY <1>1, <1>2 DEF KeyOf

LEMMA FoundConfiguration ==
  ASSUME Registry, NEW ck, ConfigurationAt(ck) # None
  PROVE  IsConfiguration(ConfigurationAt(ck))
<1> DEFINE k == <<"configuration", ck, "">>
           c == by_key[k]
<1>1. k \in Key /\ ConfigurationAt(ck) = c /\ c # None
  BY ByKeyDomain DEF ConfigurationAt, At
<1>2. KeyOf(c) = k /\ c \in Registrable
  BY <1>1, FoundUnit
<1>3. KindOf(c) = "configuration"
  BY <1>2 DEF KeyOf
<1> QED
  BY <1>1, <1>2, <1>3 DEF IsConfiguration, IsKind

LEMMA FoundArchitecture ==
  ASSUME Registry, NEW ek, NEW name, At(<<"architecture", ek, name>>) # None
  PROVE  /\ RegisteredArchitecture(At(<<"architecture", ek, name>>))
         /\ EntityKeyOf(At(<<"architecture", ek, name>>)) = ek
<1> DEFINE k == <<"architecture", ek, name>>
<1>1. CASE name = ""
  <2>1. ek \in EntityKey /\ At(k) = Latest(ek)
    BY <1>1, ByKeyDomain DEF At
  <2>2. Latest(ek) # None
    BY <2>1
  <2>3. DefaultIsLatest(ek)
    BY <2>1 DEF Registry, DefaultArchitectureIsLatest, DefaultIsLatest, ArchitecturePlaces
  <2>4. PICK i \in ArchitecturePlaces(ek) : Latest(ek) = secondary_units[i]
    BY <2>2, <2>3 DEF DefaultIsLatest, Latest
  <2>5. /\ i \in DOMAIN secondary_units /\ IsKind(secondary_units[i], {"architecture"})
        /\ EntityKeyOf(secondary_units[i]) = ek
    BY DEF ArchitecturePlaces
  <2>6. secondary_units[i] \in Unit
    BY <2>5 DEF Registry, RegistryInv, RegistryTypeOK, Registrable
  <2> QED
    BY <2>1, <2>4, <2>5, <2>6 DEF RegisteredArchitecture, Architectures
<1>2. CASE name # ""
  <2>1. k \in Key /\ At(k) = by_key[k] /\ by_key[k] # None
    BY <1>2, ByKeyDomain DEF At
  <2>2. PICK i \in DOMAIN UnitsOf(k) : by_key[k] = UnitsOf(k)[i] /\ KeyOf(by_key[k]) = k
                                      /\ by_key[k] \in Registrable
    BY <2>1, FoundUnit
  <2>3. UnitsOf(k) = secondary_units
    BY DEF UnitsOf, PrimaryKinds
  <2>4. KindOf(by_key[k]) = "architecture" /\ EntityKeyOf(by_key[k]) = ek
    BY <2>2 DEF KeyOf
  <2> QED
    BY <2>1, <2>2, <2>3, <2>4 DEF RegisteredArchitecture, Architectures, IsKind, Registrable
<1> QED
  BY <1>1, <1>2

(* A step of add_design_files leaves what a name stands for. *)
LEMMA NamesStay ==
  ASSUME RegistryInv, [Next]_vars
  PROVE  /\ \A k : k[1] # "architecture" /\ At(k) # None => At(k)' = At(k)
         /\ \A ek : EntityAt(ek) # None => EntityAt(ek)' = EntityAt(ek)
         /\ \A ck : ConfigurationAt(ck) # None => ConfigurationAt(ck)' = ConfigurationAt(ck)
         /\ \A a : RegisteredArchitecture(a) => RegisteredArchitecture(a)'
<1>1. \A k \in Key : by_key[k] # None => by_key'[k] = by_key[k]
  BY StepCases DEF Quiet, mapVars, RegistersPrimary, RegistersSecondary, Register, RegistryInv,
                   RegistryTypeOK
<1>2. DOMAIN by_key = Key /\ DOMAIN by_key' = Key
  BY RegistryStep DEF RegistryInv, RegistryTypeOK
<1>3. \A k : k[1] # "architecture" /\ At(k) # None => At(k)' = At(k)
  BY <1>1, <1>2 DEF At
<1>4. ASSUME NEW a, RegisteredArchitecture(a) PROVE RegisteredArchitecture(a)'
  <2>1. secondary_units \in Seq(Registrable)
    BY DEF RegistryInv, RegistryTypeOK
  <2>2. secondary_units' = secondary_units
          \/ \E u \in Registrable : secondary_units' = Append(secondary_units, u)
    BY StepCases DEF Quiet, RegistersPrimary, RegistersSecondary
  <2>3. PICK n \in DOMAIN secondary_units : secondary_units[n] = a
    BY <1>4 DEF RegisteredArchitecture
  <2>4. n \in DOMAIN secondary_units' /\ secondary_units'[n] = a
    BY <2>1, <2>2, <2>3
  <2> QED
    BY <1>4, <2>4 DEF RegisteredArchitecture
<1> QED
  BY <1>3, <1>4 DEF EntityAt, ConfigurationAt

LEMMA RegistryKept == Registry /\ [Next]_vars => Registry'
BY RegistryStep, FirstRegisteredWinsStep, DefaultArchitectureStep DEF Registry

(* A step of resolve_references adds diagnostics at most. *)
LEMMA RegistryUntouched ==
  ASSUME Registry, UNCHANGED <<callVars, files_by_lib, mapVars, unitVars>>
  PROVE  /\ Registry'
         /\ \A k : At(k)' = At(k)
         /\ \A a : RegisteredArchitecture(a)' = RegisteredArchitecture(a)
<1> USE DEF callVars, mapVars, unitVars
<1>1. RegistryInv'
  BY DEF Registry, RegistryInv, RegistryTypeOK, CursorOK, CurrentFile
<1>2. FirstRegisteredWins' /\ DefaultArchitectureIsLatest'
  BY DEF Registry, FirstRegisteredWins, DefaultArchitectureIsLatest, Claims, UnitsOf
<1> QED
  BY <1>1, <1>2 DEF Registry, At, Latest, RegisteredArchitecture

--------------------------------------------------------------------------------
(* The references an instance or an indication has. *)
IsRef(r) ==
  r = [component |-> r.component, entity |-> r.entity,
       architecture |-> r.architecture, configuration |-> r.configuration]

LEMMA RefFields ==
  ASSUME NEW r, IsRef(r), NEW x
  PROVE  /\ [r EXCEPT !.component = x] =
              [component |-> x, entity |-> r.entity,
               architecture |-> r.architecture, configuration |-> r.configuration]
         /\ [r EXCEPT !.entity = x] =
              [component |-> r.component, entity |-> x,
               architecture |-> r.architecture, configuration |-> r.configuration]
         /\ [r EXCEPT !.architecture = x] =
              [component |-> r.component, entity |-> r.entity,
               architecture |-> x, configuration |-> r.configuration]
         /\ [r EXCEPT !.configuration = x] =
              [component |-> r.component, entity |-> r.entity,
               architecture |-> r.architecture, configuration |-> x]
BY DEF IsRef

(* What each operator on references does to the fields. *)
LEMMA BindsEntity ==
  ASSUME NEW r, IsRef(r), NEW lib, NEW b, b.aspect = "entity"
  PROVE  ResolveBinding(lib, b, r) =
           [component |-> r.component,
            entity |-> Find("entity", lib, b.name),
            architecture |-> At(NameKey("architecture", lib, b.name, b.arch)),
            configuration |-> r.configuration]
BY RefFields DEF ResolveBinding, IsRef

LEMMA BindsConfiguration ==
  ASSUME NEW r, IsRef(r), NEW lib, NEW b, b.aspect = "configuration"
  PROVE  LET c == Find("configuration", lib, b.name) IN
         ResolveBinding(lib, b, r) =
           [component |-> r.component,
            entity |-> IF c = None THEN r.entity ELSE unit_ref[c],
            architecture |-> r.architecture,
            configuration |-> c]
BY RefFields DEF ResolveBinding, IsRef

LEMMA BindsNothing ==
  ASSUME NEW r, IsRef(r), NEW lib, NEW b, b.aspect \in {"open", "none"}
  PROVE  ResolveBinding(lib, b, r) = r
BY DEF ResolveBinding

LEMMA InstantiatedFields ==
  ASSUME NEW r, IsRef(r)
  PROVE  Instantiated(r) =
           [component |-> r.component,
            entity |-> IF r.entity # None \/ r.configuration = None THEN r.entity
                       ELSE unit_ref[r.configuration],
            architecture |-> r.architecture, configuration |-> r.configuration]
BY RefFields DEF Instantiated, IsRef

LEMMA FromConfigurationFields ==
  ASSUME NEW r, IsRef(r)
  PROVE  LET c == r.configuration
             a == At(<<"architecture", ConfiguredKey(c), Decl(c).block>>)
             e == IF unit_ref[c] # None THEN unit_ref[c] ELSE r.entity
         IN  FromConfiguration(r).ref =
               [component |-> r.component,
                entity |-> IF e = None /\ a # None THEN unit_ref[a] ELSE e,
                architecture |-> a, configuration |-> c]
BY DEF FromConfiguration, IsRef, NameKey, ConfiguredKey

LEMMA ByComponentNameFields ==
  ASSUME Registry, NEW r, IsRef(r), NEW lib
  PROVE  LET ek == <<lib, ComponentId(r.component)>>
             e == EntityAt(ek)
         IN  ByComponentName(lib, r).ref =
               IF r.component = None \/ e = None THEN r
               ELSE [component |-> r.component, entity |-> e,
                     architecture |-> At(<<"architecture", ek, "">>),
                     configuration |-> r.configuration]
<1> DEFINE ek == <<lib, ComponentId(r.component)>>
           e == EntityAt(ek)
<1>1. LibraryAndDesignName(lib, <<ComponentId(r.component)>>) = ek
  BY DEF LibraryAndDesignName
<1>2. LibraryAndDesignName(LibOf(e), <<Decl(e).id>>) = <<LibOf(e), Decl(e).id>>
  BY DEF LibraryAndDesignName
<1>3. e # None => <<LibOf(e), Decl(e).id>> = ek
  BY FoundEntity
<1>4. At(NameKey("entity", lib, <<ComponentId(r.component)>>, "")) = e
  BY <1>1 DEF NameKey, EntityAt
<1>5. e # None => NameKey("architecture", LibOf(e), <<Decl(e).id>>, "")
                    = <<"architecture", ek, "">>
  BY <1>2, <1>3 DEF NameKey
<1>6. CASE r.component = None \/ e = None
  BY <1>4, <1>6 DEF ByComponentName
<1>7. CASE ~(r.component = None \/ e = None)
  <2>1. ByComponentName(lib, r).ref =
          [r EXCEPT !.entity = e, !.architecture = At(<<"architecture", ek, "">>)]
    BY <1>4, <1>5, <1>7 DEF ByComponentName
  <2> HIDE DEF ek, e
  <2> QED
    BY <1>7, <2>1 DEF IsRef, ek, e
<1> QED
  BY <1>6, <1>7

--------------------------------------------------------------------------------
(* What a step does: the client adds files between two runs; a run begins;  *)
(* or it goes one step further, and adds nothing to the registry.           *)
Adds == [Next]_vars /\ (pass = 0 \/ UNCHANGED vars) /\ UNCHANGED elabVars
Handles ==
  /\ pass > 0 /\ at <= Len(PassUnits) /\ IsKind(Visited, Handled[pass])
  /\ Advance

LEMMA NextCallIsCaller ==
  ASSUME NEW c \in Caller, pc[c] = "idle"
  PROVE  NextCall \in Caller
BY DEF NextCall

LEMMA ElabSteps ==
  ASSUME [ElabNext]_allVars
  PROVE  Adds \/ ResolveReferences \/ Resolve
<1>1. AddDesignFiles => Adds
  BY NextCallIsCaller DEF AddDesignFiles, Adds, Next
<1>2. UNCHANGED allVars => Adds
  BY DEF allVars, Adds
<1> QED
  BY <1>1, <1>2 DEF ElabNext

LEMMA ResolveSteps ==
  ASSUME Resolve
  PROVE  EndPass \/ SkipUnit \/ Handles
<1> USE DEF AtHead, Visiting, Handles, Handled, IsKind
<1>1. /\ ResolvePackage => Handles
      /\ ResolveEntity => Handles
  BY DEF ResolvePackage, ResolveEntity, ResolveScope, Step
<1>2. /\ ResolveContext => Handles
      /\ ResolveContextReference => Handles
  BY DEF ResolveContext, ResolveContextReference, ResolveContextNames, Step
<1>3. /\ ResolvePackageInstantiation => Handles
      /\ ResolveConfiguration => Handles
      /\ ResolveArchitecture => Handles
      /\ ResolvePackageBody => Handles
  BY DEF ResolvePackageInstantiation, ResolveConfiguration, ResolveArchitecture,
         ResolvePackageBody, Refer, Step
<1>4. \A holders, misses : Step(holders, misses) => Advance
  BY DEF Step
<1>5. \A b : ResolveItem(b) => Advance
  BY <1>4, Zenon DEF ResolveItem, LookupStep
<1>6. /\ ResolveComponentConfiguration => Handles
      /\ ResolveConfigurationSpecification => Handles
  BY <1>5 DEF ResolveComponentConfiguration, ResolveConfigurationSpecification
<1>7. /\ ResolveDirectInstantiation => AtInstance(4) /\ Advance
      /\ ResolveComponentInstantiation => AtInstance(4) /\ Advance
      /\ LinkComponentInstantiation => AtInstance(5) /\ Advance
  BY <1>4, Zenon DEF ResolveDirectInstantiation, ResolveComponentInstantiation,
                     LinkComponentInstantiation, LookupStep
<1>8. /\ AtInstance(4) /\ Advance => Handles
      /\ AtInstance(5) /\ Advance => Handles
  BY DEF AtInstance
<1>9. EnterArchitecture => Handles
  BY DEF EnterArchitecture
<1> QED
  BY <1>1, <1>2, <1>3, <1>6, <1>7, <1>8, <1>9 DEF Resolve

(* Who writes the references. *)
Refers ==
  \/ ResolvePackageInstantiation \/ ResolveConfiguration
  \/ ResolveArchitecture \/ ResolvePackageBody
ResolvesItem == ResolveComponentConfiguration \/ ResolveConfigurationSpecification

LEMMA ReferencesKept ==
  ASSUME Resolve
  PROVE  /\ Refers \/ UNCHANGED unit_ref
         /\ ResolvesItem \/ ResolveComponentInstantiation \/ UNCHANGED binding_ref
         /\ \/ ResolveDirectInstantiation \/ ResolveComponentInstantiation
            \/ LinkComponentInstantiation
            \/ UNCHANGED <<inst_ref, instantiated_entities>>
<1>1. Refers => UNCHANGED <<binding_ref, inst_ref, instantiated_entities>>
  BY DEF Refers, ResolvePackageInstantiation, ResolveConfiguration, ResolveArchitecture,
         ResolvePackageBody, Refer
<1>2. ResolvesItem => UNCHANGED <<unit_ref, inst_ref, instantiated_entities>>
  BY DEF ResolvesItem, ResolveComponentConfiguration, ResolveConfigurationSpecification,
         ResolveItem
<1>3. ResolvePackage \/ ResolveEntity \/ ResolveContext \/ ResolveContextReference
        => UNCHANGED <<unit_ref, binding_ref, inst_ref, instantiated_entities>>
  BY DEF ResolvePackage, ResolveEntity, ResolveScope, ResolveContext,
         ResolveContextReference, ResolveContextNames
<1>4. EndPass \/ SkipUnit \/ EnterArchitecture
        => UNCHANGED <<unit_ref, binding_ref, inst_ref, instantiated_entities>>
  BY DEF EndPass, SkipUnit, EnterArchitecture, refVars
<1>5. /\ ResolveDirectInstantiation => UNCHANGED <<unit_ref, binding_ref>>
      /\ LinkComponentInstantiation => UNCHANGED <<unit_ref, binding_ref>>
      /\ ResolveComponentInstantiation => UNCHANGED unit_ref
  BY DEF ResolveDirectInstantiation, LinkComponentInstantiation,
         ResolveComponentInstantiation, BindInstance
<1> QED
  BY <1>1, <1>2, <1>3, <1>4, <1>5 DEF Resolve, Refers, ResolvesItem

--------------------------------------------------------------------------------
(* What references may say.  Those of an indication or of an instance that  *)
(* names its unit are tied to the name; those of other instances belong     *)
(* together.                                                                *)
AboutEntity(ek, r) ==
  /\ r.entity \in {None, EntityAt(ek)}
  /\ r.architecture # None =>
       RegisteredArchitecture(r.architecture) /\ EntityKeyOf(r.architecture) = ek

AboutConfiguration(ck, r) ==
  IF r.configuration = None THEN r.entity = None /\ r.architecture = None
  ELSE /\ r.configuration = ConfigurationAt(ck)
       /\ AboutEntity(ConfiguredKey(r.configuration), r)

Owned(lib, b, r) ==
  /\ IsRef(r)
  /\ b.aspect = "entity" =>
       r.configuration = None /\ AboutEntity(LibraryAndDesignName(lib, b.name), r)
  /\ b.aspect = "configuration" =>
       AboutConfiguration(LibraryAndDesignName(lib, b.name), r)
  /\ b.aspect \in {"open", "none"} =>
       r.entity = None /\ r.architecture = None /\ r.configuration = None

Fits(r) ==
  /\ IsRef(r)
  /\ r.configuration # None =>
       IsConfiguration(r.configuration) /\ AboutEntity(ConfiguredKey(r.configuration), r)
  /\ r.architecture # None =>
       /\ RegisteredArchitecture(r.architecture)
       /\ r.entity \in {None, EntityAt(EntityKeyOf(r.architecture))}

Aspects == {"entity", "configuration", "open", "none"}
AspectOf(i) ==
  [aspect |-> InstanceOf(i).unit_kind, name |-> InstanceOf(i).name, arch |-> InstanceOf(i).arch]

InstanceFits(i, r) ==
  /\ Fits(r)
  /\ DefaultBound(i) => r.configuration = None
  /\ InstanceOf(i).unit_kind # "component" => Owned(LibOf(i[1]), AspectOf(i), r)

(* What the units refer to, once they do. *)
Known ==
  /\ unit_ref = [u \in Registrable |-> unit_ref[u]]
  /\ \A a \in Architectures : unit_ref[a] \in {None, EntityAt(EntityKeyOf(a))}
  /\ \A c : IsConfiguration(c) => unit_ref[c] \in {None, EntityAt(ConfiguredKey(c))}

LEMMA OwnedFits ==
  ASSUME Registry, NEW r, NEW lib, NEW b, b.aspect \in Aspects, Owned(lib, b, r)
  PROVE  Fits(r)
<1>1. \A ek : AboutEntity(ek, r) =>
        (r.architecture # None =>
           /\ RegisteredArchitecture(r.architecture)
           /\ r.entity \in {None, EntityAt(EntityKeyOf(r.architecture))})
  BY DEF AboutEntity
<1>2. CASE b.aspect = "entity"
  BY <1>1, <1>2 DEF Owned, Fits
<1>3. CASE b.aspect = "configuration"
  BY <1>1, <1>3, FoundConfiguration DEF Owned, Fits, AboutConfiguration
<1>4. CASE b.aspect \in {"open", "none"}
  BY <1>4 DEF Owned, Fits
<1> QED
  BY <1>2, <1>3, <1>4 DEF Aspects

(* The component is another matter. *)
LEMMA ComponentAside ==
  ASSUME NEW r, IsRef(r), NEW x
  PROVE  LET s == [r EXCEPT !.component = x] IN
         /\ IsRef(s)
         /\ s.entity = r.entity /\ s.architecture = r.architecture
         /\ s.configuration = r.configuration
         /\ \A lib, b : Owned(lib, b, r) => Owned(lib, b, s)
         /\ Fits(r) => Fits(s)
<1> DEFINE s == [r EXCEPT !.component = x]
<1>1. /\ IsRef(s)
      /\ s.entity = r.entity /\ s.architecture = r.architecture
      /\ s.configuration = r.configuration
  BY RefFields DEF IsRef
<1> HIDE DEF s
<1>2. \A lib, b : Owned(lib, b, r) => Owned(lib, b, s)
  BY <1>1 DEF Owned, AboutConfiguration, AboutEntity
<1>3. Fits(r) => Fits(s)
  BY <1>1 DEF Fits, AboutEntity
<1> QED
  BY <1>1, <1>2, <1>3 DEF s

LEMMA FindIsAt ==
  ASSUME NEW lib, NEW parts
  PROVE  /\ Find("entity", lib, parts) = EntityAt(LibraryAndDesignName(lib, parts))
         /\ Find("configuration", lib, parts)
              = ConfigurationAt(LibraryAndDesignName(lib, parts))
BY DEF Find, NameKey, EntityAt, ConfigurationAt

(* Resolving a binding once more leaves it tied to its name. *)
LEMMA BindingStaysOwned ==
  ASSUME Registry, Known, NEW lib, NEW b, b.aspect \in Aspects, NEW r, Owned(lib, b, r)
  PROVE  Owned(lib, b, ResolveBinding(lib, b, r))
<1> DEFINE s == ResolveBinding(lib, b, r)
           name == LibraryAndDesignName(lib, b.name)
<1>0. IsRef(r)
  BY DEF Owned
<1>1. CASE b.aspect = "entity"
  <2>1. /\ IsRef(s) /\ s.entity = EntityAt(name) /\ s.configuration = r.configuration
        /\ s.architecture = At(<<"architecture", name, b.arch>>)
    BY <1>0, <1>1, BindsEntity, FindIsAt DEF IsRef, NameKey
  <2>2. r.configuration = None
    BY <1>1 DEF Owned
  <2>3. AboutEntity(name, s)
    BY <2>1, FoundArchitecture DEF AboutEntity
  <2> QED
    BY <1>1, <2>1, <2>2, <2>3 DEF Owned
<1>2. CASE b.aspect = "configuration"
  <2> DEFINE c == ConfigurationAt(name)
  <2>1. /\ IsRef(s) /\ s.configuration = c /\ s.architecture = r.architecture
        /\ s.entity = IF c = None THEN r.entity ELSE unit_ref[c]
    BY <1>0, <1>2, BindsConfiguration, FindIsAt DEF IsRef
  <2>2. AboutConfiguration(name, r)
    BY <1>2 DEF Owned
  <2>3. c # None => IsConfiguration(c)
    BY FoundConfiguration
  <2>4. c # None => unit_ref[c] \in {None, EntityAt(ConfiguredKey(c))}
    BY <2>3 DEF Known
  <2>5. AboutConfiguration(name, s)
    <3> HIDE DEF s, c
    <3>1. CASE c = None
      BY <2>1, <2>2, <3>1 DEF AboutConfiguration, c
    <3>2. CASE c # None
      BY <2>1, <2>2, <2>4, <3>2 DEF AboutConfiguration, AboutEntity, c
    <3> QED BY <3>1, <3>2
  <2> QED
    BY <1>2, <2>1, <2>5 DEF Owned
<1>3. CASE b.aspect \in {"open", "none"}
  BY <1>0, <1>3, BindsNothing
<1> QED
  BY <1>1, <1>2, <1>3 DEF Aspects

(* The tail of the resolver's part adds the configuration's entity. *)
LEMMA InstantiatedStays ==
  ASSUME Registry, Known, NEW r, Fits(r)
  PROVE  /\ Fits(Instantiated(r))
         /\ Instantiated(r).configuration = r.configuration
         /\ r.entity # None => Instantiated(r).entity = r.entity
         /\ Instantiated(r).architecture = r.architecture
         /\ \A lib, b : b.aspect \in Aspects /\ Owned(lib, b, r) => Owned(lib, b, Instantiated(r))
<1> DEFINE s == Instantiated(r)
<1>1. /\ IsRef(s) /\ s.configuration = r.configuration /\ s.architecture = r.architecture
      /\ s.entity = IF r.entity # None \/ r.configuration = None THEN r.entity
                    ELSE unit_ref[r.configuration]
  BY InstantiatedFields DEF IsRef, Fits
<1> HIDE DEF s
<1>2. r.configuration # None =>
        unit_ref[r.configuration] \in {None, EntityAt(ConfiguredKey(r.configuration))}
  BY DEF Fits, Known
<1>3. \A ek : AboutEntity(ek, r) /\ (r.configuration # None => ek = ConfiguredKey(r.configuration))
               => AboutEntity(ek, s)
  BY <1>1, <1>2 DEF AboutEntity
<1>4. r.configuration # None => AboutEntity(ConfiguredKey(r.configuration), s)
  BY <1>3 DEF Fits
<1>5. Fits(s)
  <2>1. CASE r.configuration = None
    BY <1>1, <2>1 DEF Fits
  <2>2. CASE r.configuration # None
    BY <1>1, <1>4, <2>2 DEF Fits, AboutEntity
  <2> QED BY <2>1, <2>2
<1>6. ASSUME NEW lib, NEW b, b.aspect \in Aspects, Owned(lib, b, r) PROVE Owned(lib, b, s)
  <2>1. CASE r.configuration = None
    BY <1>1, <1>6, <2>1 DEF Owned, AboutConfiguration, AboutEntity
  <2>2. CASE r.configuration # None
    <3>1. b.aspect = "configuration"
      BY <1>6, <2>2 DEF Owned, Aspects
    <3> QED
      BY <1>1, <1>4, <1>6, <2>2, <3>1 DEF Owned, AboutConfiguration
  <2> QED BY <2>1, <2>2
<1> QED
  BY <1>1, <1>5, <1>6 DEF s

(* The linker binds an instance to what its configuration is of, or to what *)
(* bears its component's name.                                              *)
LEMMA FromConfigurationFits ==
  ASSUME Registry, Known, NEW r, Fits(r), r.configuration # None
  PROVE  LET s == FromConfiguration(r).ref IN
         /\ Fits(s)
         /\ s.configuration = r.configuration
         /\ \A lib, b : b.aspect \in Aspects /\ Owned(lib, b, r) => Owned(lib, b, s)
<1> DEFINE c == r.configuration
           ck == ConfiguredKey(c)
           s == FromConfiguration(r).ref
           a == At(<<"architecture", ck, Decl(c).block>>)
           e == IF unit_ref[c] # None THEN unit_ref[c] ELSE r.entity
<1>0. s = [component |-> r.component,
           entity |-> IF e = None /\ a # None THEN unit_ref[a] ELSE e,
           architecture |-> a, configuration |-> c]
  BY FromConfigurationFields DEF Fits
<1>1. /\ IsRef(s) /\ s.configuration = c /\ s.architecture = a
      /\ s.entity = IF e = None /\ a # None THEN unit_ref[a] ELSE e
  <2> HIDE DEF a, e, s, ck
  <2> QED
    BY <1>0 DEF IsRef
<1>2. IsConfiguration(c) /\ r.entity \in {None, EntityAt(ck)}
  BY DEF Fits, AboutEntity
<1>3. e \in {None, EntityAt(ck)}
  BY <1>2 DEF Known
<1>4. a # None => RegisteredArchitecture(a) /\ EntityKeyOf(a) = ck
  BY FoundArchitecture
<1>5. a # None => unit_ref[a] \in {None, EntityAt(ck)}
  BY <1>4 DEF Known, RegisteredArchitecture
<1> HIDE DEF a, e, s, ck
<1>6. AboutEntity(ck, s)
  BY <1>1, <1>3, <1>4, <1>5 DEF AboutEntity
<1>7. Fits(s)
  BY <1>1, <1>2, <1>6 DEF Fits, AboutEntity, ck
<1>8. ASSUME NEW lib, NEW b, b.aspect \in Aspects, Owned(lib, b, r) PROVE Owned(lib, b, s)
  <2>1. b.aspect = "configuration"
    BY <1>8 DEF Owned, Aspects
  <2>2. c = ConfigurationAt(LibraryAndDesignName(lib, b.name))
    BY <1>8, <2>1 DEF Owned, AboutConfiguration
  <2> QED
    BY <1>1, <1>6, <2>1, <2>2 DEF Owned, AboutConfiguration, ck
<1> QED
  BY <1>1, <1>7, <1>8 DEF s

LEMMA ByComponentNameFits ==
  ASSUME Registry, NEW r, Fits(r), r.configuration = None, NEW lib
  PROVE  LET s == ByComponentName(lib, r).ref IN
         Fits(s) /\ s.configuration = None
<1> DEFINE ek == <<lib, ComponentId(r.component)>>
           e == EntityAt(ek)
           a == At(<<"architecture", ek, "">>)
           s == ByComponentName(lib, r).ref
<1>1. s = IF r.component = None \/ e = None THEN r
          ELSE [component |-> r.component, entity |-> e,
                architecture |-> a, configuration |-> r.configuration]
  BY ByComponentNameFields DEF Fits
<1>2. a # None => RegisteredArchitecture(a) /\ EntityKeyOf(a) = ek
  BY FoundArchitecture
<1>3. s = r => Fits(s) /\ s.configuration = None
  <2> HIDE DEF s
  <2> QED OBVIOUS
<1>4. ASSUME s = [component |-> r.component, entity |-> e,
                  architecture |-> a, configuration |-> r.configuration]
      PROVE  Fits(s) /\ s.configuration = None
  <2> HIDE DEF a, s, ek
  <2>1. /\ IsRef(s) /\ s.entity = e /\ s.architecture = a /\ s.configuration = None
    BY <1>4 DEF IsRef
  <2> QED
    BY <1>2, <2>1 DEF Fits
<1> HIDE DEF a, e, s
<1> QED
  BY <1>1, <1>3, <1>4 DEF s

LEMMA RelinkFits ==
  ASSUME Registry, NEW i, NEW r, InstanceFits(i, r)
  PROVE  LET s == Relink(LibOf(i[1]), InstanceOf(i), r).ref IN
         /\ InstanceFits(i, s)
         /\ InstanceOf(i).unit_kind = "component" => s = r
<1> DEFINE lib == LibOf(i[1])
           d == InstanceOf(i)
           s == Relink(lib, d, r).ref
           name == LibraryAndDesignName(lib, d.name)
           c == ConfigurationAt(name)
<1>1. CASE ~(d.unit_kind = "configuration" /\ r.configuration = None)
  <2>1. s = r
    BY <1>1 DEF Relink
  <2> QED
    BY <2>1
<1>2. CASE d.unit_kind = "configuration" /\ r.configuration = None
  <2>1. s = [r EXCEPT !.configuration = c]
    BY <1>2, FindIsAt DEF Relink
  <2>2. Owned(lib, AspectOf(i), r) /\ IsRef(r)
    BY <1>2 DEF InstanceFits, Fits
  <2>3. r.entity = None /\ r.architecture = None
    BY <1>2, <2>2 DEF Owned, AspectOf, AboutConfiguration
  <2>4. IsRef(s) /\ s.entity = None /\ s.architecture = None /\ s.configuration = c
    BY <2>1, <2>2, <2>3, RefFields DEF IsRef
  <2>5. Owned(lib, AspectOf(i), s)
    <3> HIDE DEF s
    <3> QED
      BY <1>2, <2>4 DEF Owned, AspectOf, AboutConfiguration, AboutEntity
  <2>6. Fits(s)
    BY <1>2, <2>5, OwnedFits DEF AspectOf, Aspects
  <2>7. ~DefaultBound(i)
    BY <1>2 DEF DefaultBound
  <2> QED
    BY <1>2, <2>5, <2>6, <2>7 DEF InstanceFits
<1> QED
  BY <1>1, <1>2

--------------------------------------------------------------------------------
(* The inductive invariant.  The walk is inside the vector of its pass, and *)
(* inside a unit only where the pass handles it; behind it, in the pass     *)
(* over the secondary units, every architecture knows its entity.           *)
Cursor ==
  /\ pass \in 0..5 /\ at \in Nat \ {0} /\ item \in Nat
  /\ pass = 0 => at = 1 /\ item = 0
  /\ item > 0 => pass > 0 /\ at <= Len(PassUnits) /\ IsKind(Visited, Handled[pass])

Done(n) == pass = 5 \/ (pass = 4 /\ (n < at \/ (n = at /\ item > 0)))
ArchitecturesDone ==
  \A n \in DOMAIN secondary_units :
    LET a == secondary_units[n] IN
    Done(n) /\ a \in Architectures => unit_ref[a] = EntityAt(EntityKeyOf(a))

BindingOf(b) == Decl(b[1]).items[b[2]].binding
BindingsOwned ==
  /\ binding_ref = [b \in Bindings |-> binding_ref[b]]
  /\ \A b \in Bindings : Owned(LibOf(b[1]), BindingOf(b), binding_ref[b])

InstancesFit ==
  /\ inst_ref = [i \in Instances |-> inst_ref[i]]
  /\ \A i \in Instances : InstanceFits(i, inst_ref[i])

ElabInv ==
  Registry /\ Cursor /\ Known /\ ArchitecturesDone /\ BindingsOwned /\ InstancesFit

LEMMA AspectsAreKnown ==
  /\ \A b \in Bindings : BindingOf(b).aspect \in Aspects
  /\ \A i \in Instances : InstanceOf(i).unit_kind \in {"component", "entity", "configuration"}
  /\ \A i \in Instances : InstanceOf(i).unit_kind # "component" => AspectOf(i).aspect \in Aspects
BY ItemsAssumption DEF BindingOf, Aspects, InstanceOf, AspectOf

(* Between the runs. *)
LEMMA AddsKeepsReferences ==
  ASSUME Registry, [Next]_vars, UNCHANGED <<unit_ref, binding_ref, inst_ref>>
  PROVE  /\ Known => Known'
         /\ BindingsOwned => BindingsOwned'
         /\ InstancesFit => InstancesFit'
<1>0. /\ \A ek : EntityAt(ek) # None => EntityAt(ek)' = EntityAt(ek)
      /\ \A ck : ConfigurationAt(ck) # None => ConfigurationAt(ck)' = ConfigurationAt(ck)
      /\ \A a : RegisteredArchitecture(a) => RegisteredArchitecture(a)'
  BY NamesStay DEF Registry
<1>1. Known => Known'
  BY <1>0 DEF Known
<1>2. \A ek, r : AboutEntity(ek, r) => AboutEntity(ek, r)'
  BY <1>0 DEF AboutEntity
<1>3. \A ck, r : AboutConfiguration(ck, r) => AboutConfiguration(ck, r)'
  BY <1>0, <1>2 DEF AboutConfiguration
<1>4. \A lib, b, r : Owned(lib, b, r) => Owned(lib, b, r)'
  BY <1>2, <1>3 DEF Owned
<1>5. \A r : Fits(r) => Fits(r)'
  BY <1>0, <1>2 DEF Fits
<1>6. \A i, r : InstanceFits(i, r) => InstanceFits(i, r)'
  BY <1>4, <1>5 DEF InstanceFits
<1> QED
  BY <1>1, <1>4, <1>6 DEF BindingsOwned, InstancesFit

(* Within a run. *)
LEMMA ResolvingKeepsMeaning ==
  ASSUME Registry, UNCHANGED <<callVars, files_by_lib, mapVars, unitVars>>
  PROVE  /\ \A ek : EntityAt(ek)' = EntityAt(ek)
         /\ \A lib, b, r : Owned(lib, b, r)' = Owned(lib, b, r)
         /\ \A i, r : InstanceFits(i, r)' = InstanceFits(i, r)
<1>0. /\ \A ek : EntityAt(ek)' = EntityAt(ek)
      /\ \A ck : ConfigurationAt(ck)' = ConfigurationAt(ck)
      /\ \A a : RegisteredArchitecture(a)' = RegisteredArchitecture(a)
  BY RegistryUntouched DEF EntityAt, ConfigurationAt
<1>2. \A ek, r : AboutEntity(ek, r)' = AboutEntity(ek, r)
  BY <1>0 DEF AboutEntity
<1>3. \A ck, r : AboutConfiguration(ck, r)' = AboutConfiguration(ck, r)
  BY <1>0, <1>2 DEF AboutConfiguration
<1>4. \A lib, b, r : Owned(lib, b, r)' = Owned(lib, b, r)
  BY <1>2, <1>3 DEF Owned
<1>5. \A r : Fits(r)' = Fits(r)
  BY <1>0, <1>2 DEF Fits
<1>6. \A i, r : InstanceFits(i, r)' = InstanceFits(i, r)
  BY <1>4, <1>5 DEF InstanceFits
<1> QED
  BY <1>0, <1>4, <1>6

LEMMA CursorStep ==
  ASSUME Registry, Cursor, Adds \/ ResolveReferences \/ Resolve
  PROVE  Cursor'
<1> USE DEF callVars, mapVars, unitVars
<1>1. CASE Adds
  <2>1. UNCHANGED <<pass, at, item>>
    BY <1>1 DEF Adds, elabVars, cursorVars
  <2>2. CASE pass = 0
    BY <2>1, <2>2 DEF Cursor
  <2>3. CASE UNCHANGED vars
    BY <2>1, <2>3 DEF Cursor, vars, registryVars, PassUnits, Visited
  <2> QED
    BY <1>1, <2>2, <2>3 DEF Adds
<1>2. CASE ResolveReferences
  BY <1>2 DEF ResolveReferences, Cursor
<1>3. CASE EndPass
  <2>1. item = 0
    BY <1>3 DEF EndPass, Cursor, PassUnits, Registry, RegistryInv, RegistryTypeOK
  <2> QED
    BY <1>3, <2>1 DEF EndPass, Cursor
<1>4. CASE SkipUnit
  <2>1. item = 0
    BY <1>4 DEF SkipUnit, Cursor
  <2> QED
    BY <1>4, <2>1 DEF SkipUnit, Cursor
<1>5. CASE Handles
  <2>1. PassUnits' = PassUnits /\ pass' = pass
    BY <1>5 DEF Handles, Advance, PassUnits
  <2>2. CASE item' = item + 1 /\ at' = at
    BY <1>5, <2>1, <2>2 DEF Handles, Cursor, Visited
  <2>3. CASE item' = 0 /\ at' = at + 1
    BY <1>5, <2>1, <2>3 DEF Handles, Cursor
  <2> QED
    BY <1>5, <2>2, <2>3 DEF Handles, Advance
<1> QED
  BY <1>1, <1>2, <1>3, <1>4, <1>5, ResolveSteps

LEMMA UnitsVisited ==
  ASSUME Registry, Cursor, pass > 0, at <= Len(PassUnits)
  PROVE  /\ Visited \in Unit
         /\ pass > 3 => at \in DOMAIN secondary_units /\ Visited = secondary_units[at]
         /\ IsKind(Visited, RegisteredKinds) => Visited \in Registrable
         /\ IsKind(Visited, {"architecture"}) => Visited \in Architectures
<1>1. primary_units \in Seq(Unit) /\ secondary_units \in Seq(Registrable)
  BY DEF Registry, RegistryInv, RegistryTypeOK
<1>2. Registrable \subseteq Unit
  BY DEF Registrable
<1>3. at \in Nat \ {0} /\ pass \in 0..5
  BY DEF Cursor
<1>4. CASE pass <= 3
  BY <1>1, <1>3, <1>4 DEF PassUnits, Visited, Registrable, Architectures
<1>5. CASE pass > 3
  BY <1>1, <1>2, <1>3, <1>5 DEF PassUnits, Visited, Registrable, Architectures
<1> QED
  BY <1>3, <1>4, <1>5

(* What a reference between units is set to. *)
LEMMA RefersTo ==
  ASSUME Registry, Cursor, Known, Refers
  PROVE  /\ Visited \in Registrable
         /\ \E x : /\ unit_ref' = [unit_ref EXCEPT ![Visited] = x]
                   /\ IsKind(Visited, {"architecture"}) =>
                        x = EntityAt(EntityKeyOf(Visited))
                   /\ IsKind(Visited, {"configuration"}) =>
                        x = EntityAt(ConfiguredKey(Visited))
<1> DEFINE v == Visited
           Set(x) == unit_ref' = [unit_ref EXCEPT ![v] = x]
<1>1. ResolvePackageInstantiation =>
        Visiting(3, {"package_instantiation"}) /\ \E x : Set(x)
  BY DEF ResolvePackageInstantiation, AtHead, Refer
<1>2. ResolvePackageBody => Visiting(4, {"package_body"}) /\ \E x : Set(x)
  BY DEF ResolvePackageBody, AtHead, Refer
<1>3. ResolveConfiguration =>
        Visiting(3, {"configuration"}) /\ Set(EntityAt(ConfiguredKey(v)))
  BY FindIsAt DEF ResolveConfiguration, AtHead, Refer, ConfiguredKey
<1>4. ResolveArchitecture =>
        Visiting(4, {"architecture"}) /\ Set(EntityAt(EntityKeyOf(v)))
  BY FindIsAt DEF ResolveArchitecture, AtHead, Refer, EntityKeyOf
<1>5. ASSUME NEW p, NEW kind \in RegisteredKinds, Visiting(p, {kind})
      PROVE  KindOf(v) = kind /\ (p \in {3, 4} => v \in Registrable)
  <2>1. p \in {3, 4} => pass > 0 /\ at <= Len(PassUnits)
    BY <1>5 DEF Visiting
  <2> QED
    BY <1>5, <2>1, UnitsVisited DEF Visiting, IsKind
<1> HIDE DEF v, Set
<1>6. {"package_instantiation", "package_body", "configuration", "architecture"}
        \subseteq RegisteredKinds
  BY DEF RegisteredKinds, PrimaryKinds, SecondaryKinds
<1>7. CASE ResolvePackageInstantiation
  <2>1. KindOf(v) = "package_instantiation" /\ v \in Registrable
    BY <1>1, <1>5, <1>6, <1>7
  <2> QED
    BY <1>1, <1>7, <2>1 DEF IsKind, v, Set
<1>8. CASE ResolvePackageBody
  <2>1. KindOf(v) = "package_body" /\ v \in Registrable
    BY <1>2, <1>5, <1>6, <1>8
  <2> QED
    BY <1>2, <1>8, <2>1 DEF IsKind, v, Set
<1>9. CASE ResolveConfiguration
  <2>1. KindOf(v) = "configuration" /\ v \in Registrable
    BY <1>3, <1>5, <1>6, <1>9
  <2> QED
    BY <1>3, <1>9, <2>1 DEF IsKind, v, Set
<1>10. CASE ResolveArchitecture
  <2>1. KindOf(v) = "architecture" /\ v \in Registrable
    BY <1>4, <1>5, <1>6, <1>10
  <2> QED
    BY <1>4, <1>10, <2>1 DEF IsKind, v, Set
<1> QED
  BY <1>7, <1>8, <1>9, <1>10 DEF Refers

LEMMA UnitRefStep ==
  ASSUME Registry, Cursor, Known, Resolve
  PROVE  /\ unit_ref' = [u \in Registrable |-> unit_ref'[u]]
         /\ \A a \in Architectures :
              unit_ref'[a] \in {unit_ref[a], EntityAt(EntityKeyOf(a))}
         /\ \A c : IsConfiguration(c) =>
              unit_ref'[c] \in {unit_ref[c], EntityAt(ConfiguredKey(c))}
<1>1. CASE UNCHANGED unit_ref
  BY <1>1 DEF Known
<1>2. CASE Refers
  <2>1. PICK x : /\ unit_ref' = [unit_ref EXCEPT ![Visited] = x]
                 /\ IsKind(Visited, {"architecture"}) => x = EntityAt(EntityKeyOf(Visited))
                 /\ IsKind(Visited, {"configuration"}) => x = EntityAt(ConfiguredKey(Visited))
    BY <1>2, RefersTo
  <2> QED
    BY <1>2, <2>1, RefersTo DEF Known, IsConfiguration, Architectures, Registrable
<1> QED
  BY <1>1, <1>2, ReferencesKept

LEMMA ResolveIsWithinRegistry ==
  ASSUME Resolve
  PROVE  UNCHANGED <<callVars, files_by_lib, mapVars, unitVars>> /\ pass > 0
BY ResolveSteps DEF EndPass, SkipUnit, Handles, Advance, vars, registryVars

LEMMA KnownStep ==
  ASSUME Registry, Cursor, Known, Adds \/ ResolveReferences \/ Resolve
  PROVE  Known'
<1>1. CASE Adds
  BY <1>1, AddsKeepsReferences DEF Adds, elabVars, refVars
<1>2. CASE ResolveReferences
  BY <1>2, AddsKeepsReferences DEF ResolveReferences
<1>3. CASE Resolve
  <2>1. \A ek : EntityAt(ek)' = EntityAt(ek)
    BY <1>3, ResolveIsWithinRegistry, ResolvingKeepsMeaning
  <2> QED
    BY <1>3, <2>1, UnitRefStep DEF Known
<1> QED
  BY <1>1, <1>2, <1>3

(* The pass over the secondary units goes into an architecture by way of    *)
(* the reference to its entity.                                             *)
LEMMA HeadFirst ==
  ASSUME Registry, Cursor, Resolve, Handles,
         pass = 4, item = 0, IsKind(Visited, {"architecture"})
  PROVE  unit_ref' = [unit_ref EXCEPT ![Visited] = EntityAt(EntityKeyOf(Visited))]
<1>1. KindOf(Visited) = "architecture"
  BY DEF IsKind
<1>2. Visited \in UnitsOfKind({"architecture", "configuration"})
  BY <1>1, UnitsVisited DEF Handles, UnitsOfKind, IsKind
<1>3. Specs(Visited) \in Nat
  BY <1>2, ItemsAssumption DEF Specs
<1>4. ~ResolveConfigurationSpecification /\ ~AtInstance(4)
  BY <1>3 DEF ResolveConfigurationSpecification, AtInstance
<1>5. ~EndPass /\ ~SkipUnit
  BY DEF EndPass, SkipUnit, Handles, PassUnits, Cursor, Registry, RegistryInv, RegistryTypeOK
<1>6. /\ ~ResolvePackage /\ ~ResolveContext /\ ~ResolveEntity
      /\ ~ResolvePackageInstantiation /\ ~ResolveConfiguration
      /\ ~ResolveComponentConfiguration /\ ~ResolveContextReference
      /\ ~ResolvePackageBody /\ ~EnterArchitecture /\ ~LinkComponentInstantiation
  BY <1>1 DEF ResolvePackage, ResolveContext, ResolveEntity, ResolvePackageInstantiation,
       ResolveConfiguration, ResolveComponentConfiguration, ResolveContextReference,
       ResolvePackageBody, EnterArchitecture, LinkComponentInstantiation, AtHead, AtInstance,
       Visiting, IsKind
<1>7. ~ResolveDirectInstantiation /\ ~ResolveComponentInstantiation
  BY <1>4 DEF ResolveDirectInstantiation, ResolveComponentInstantiation
<1>8. ResolveArchitecture
  BY <1>4, <1>5, <1>6, <1>7 DEF Resolve
<1> QED
  BY <1>8, FindIsAt DEF ResolveArchitecture, Refer, EntityKeyOf

LEMMA ArchitecturesDoneStep ==
  ASSUME Registry, Cursor, Known, ArchitecturesDone, Adds \/ ResolveReferences \/ Resolve
  PROVE  ArchitecturesDone'
<1> USE DEF Done, callVars, mapVars, unitVars
<1>1. CASE Adds
  <2>1. UNCHANGED <<pass, at, item, unit_ref>>
    BY <1>1 DEF Adds, elabVars, cursorVars, refVars
  <2>2. CASE pass = 0
    BY <2>1, <2>2 DEF ArchitecturesDone
  <2>3. CASE UNCHANGED vars
    <3>1. \A ek : EntityAt(ek)' = EntityAt(ek)
      BY <2>3, ResolvingKeepsMeaning DEF vars, registryVars
    <3> QED
      BY <2>1, <2>3, <3>1 DEF ArchitecturesDone, vars, registryVars
  <2> QED
    BY <1>1, <2>2, <2>3 DEF Adds
<1>2. CASE ResolveReferences
  BY <1>2 DEF ResolveReferences, ArchitecturesDone
<1>3. CASE Resolve
  <2>0. /\ secondary_units \in Seq(Registrable)
        /\ at \in Nat \ {0} /\ item \in Nat /\ pass \in 1..5
    BY <1>3, ResolveIsWithinRegistry DEF Registry, RegistryInv, RegistryTypeOK, Cursor
  <2>1. secondary_units' = secondary_units /\ \A ek : EntityAt(ek)' = EntityAt(ek)
    BY <1>3, ResolveIsWithinRegistry, ResolvingKeepsMeaning
  <2>2. \A a \in Architectures : unit_ref'[a] \in {unit_ref[a], EntityAt(EntityKeyOf(a))}
    BY <1>3, UnitRefStep
  <2> SUFFICES ASSUME NEW n \in DOMAIN secondary_units, Done(n)',
                      secondary_units[n] \in Architectures
               PROVE  LET a == secondary_units[n] IN
                      Done(n) \/ unit_ref'[a] = EntityAt(EntityKeyOf(a))
    BY <2>1, <2>2 DEF ArchitecturesDone
  <2>3. IsKind(secondary_units[n], {"architecture"}) /\ n \in 1..Len(secondary_units)
    BY <2>0 DEF Architectures
  <2>4. CASE EndPass
    BY <2>0, <2>3, <2>4 DEF EndPass, PassUnits, Cursor
  <2>5. CASE SkipUnit
    <3>1. item = 0
      BY <2>5 DEF SkipUnit, Cursor
    <3>2. pass = 4 => ~IsKind(secondary_units[at], {"architecture"})
      BY <2>5 DEF SkipUnit, Visited, PassUnits, Handled, IsKind
    <3> QED
      BY <2>0, <2>3, <2>5, <3>1, <3>2 DEF SkipUnit
  <2>6. CASE Handles
    <3>1. CASE n = at /\ item = 0 /\ pass = 4
      <4>1. Visited = secondary_units[n]
        BY <3>1 DEF Visited, PassUnits
      <4>2. Visited \in Registrable
        BY <2>0, <2>3, <4>1
      <4> QED
        BY <1>3, <2>3, <2>6, <3>1, <4>1, <4>2, HeadFirst DEF Known
    <3>2. CASE ~(n = at /\ item = 0 /\ pass = 4)
      BY <2>0, <2>3, <2>6, <3>2 DEF Handles, Advance
    <3> QED
      BY <3>1, <3>2
  <2> QED
    BY <1>3, <2>4, <2>5, <2>6, ResolveSteps
<1> QED
  BY <1>1, <1>2, <1>3

--------------------------------------------------------------------------------
(* The first matching specification is one of the architecture's own. *)
LEMMA FirstMatchIsBinding ==
  ASSUME NEW u \in Architectures, NEW i, Matching(u, i) # {}
  PROVE  <<u, Min(Matching(u, i))>> \in Bindings
<1> DEFINE m == Min(Matching(u, i))
<1>1. u \in UnitsOfKind({"architecture", "configuration"})
  BY DEF Architectures, UnitsOfKind, IsKind
<1>2. Len(Decl(u).items) \in Nat
  BY <1>1, ItemsAssumption
<1>3. Matching(u, i) \subseteq 1..Len(Decl(u).items) /\ Matching(u, i) \subseteq Nat
  BY <1>2 DEF Matching
<1>4. m \in 1..Len(Decl(u).items)
  BY <1>3, MinIsLeast
<1> HIDE DEF m
<1>5. <<u, m>> \in Numbered(u, Decl(u).items)
  BY <1>4 DEF Numbered
<1> QED
  BY <1>1, <1>5 DEF Bindings, m

(* A binding that is resolved again. *)
LEMMA OneBindingResolved ==
  ASSUME Registry, Known, BindingsOwned,
         UNCHANGED <<callVars, files_by_lib, mapVars, unitVars>>,
         NEW b, NEW r, b \in Bindings => Owned(LibOf(b[1]), BindingOf(b), r),
         binding_ref' = [binding_ref EXCEPT ![b] =
                           ResolveBinding(LibOf(b[1]), BindingOf(b), r)]
  PROVE  /\ BindingsOwned'
         /\ b \in Bindings => Owned(LibOf(b[1]), BindingOf(b), binding_ref'[b])
<1> DEFINE s == ResolveBinding(LibOf(b[1]), BindingOf(b), r)
<1>1. b \in Bindings => Owned(LibOf(b[1]), BindingOf(b), s)
  BY AspectsAreKnown, BindingStaysOwned
<1> HIDE DEF s
<1>2. binding_ref' = [binding_ref EXCEPT ![b] = s]
  BY DEF s
<1>3. \A c \in Bindings : Owned(LibOf(c[1]), BindingOf(c), binding_ref'[c])
  BY <1>1, <1>2 DEF BindingsOwned
<1>4. binding_ref' = [c \in Bindings |-> binding_ref'[c]]
  BY <1>2 DEF BindingsOwned
<1> QED
  BY <1>3, <1>4, ResolvingKeepsMeaning DEF BindingsOwned

LEMMA ItemResolved ==
  ASSUME Registry, Known, BindingsOwned, NEW b, ResolveItem(b)
  PROVE  BindingsOwned'
<1>1. PICK s : binding_ref' = [binding_ref EXCEPT ![b] =
                 ResolveBinding(LibOf(b[1]), BindingOf(b),
                                [@ EXCEPT !.component = AsComponent(s.found)])]
  BY Zenon DEF ResolveItem, BindingOf
<1> DEFINE r == [binding_ref[b] EXCEPT !.component = AsComponent(s.found)]
<1>2. ASSUME b \in Bindings PROVE Owned(LibOf(b[1]), BindingOf(b), r)
  <2>1. Owned(LibOf(b[1]), BindingOf(b), binding_ref[b]) /\ IsRef(binding_ref[b])
    BY <1>2 DEF BindingsOwned, Owned
  <2> QED
    BY <2>1, ComponentAside
<1>3. Advance
  BY Zenon DEF ResolveItem, LookupStep, Step
<1> HIDE DEF r
<1>4. binding_ref' = [binding_ref EXCEPT ![b] = ResolveBinding(LibOf(b[1]), BindingOf(b), r)]
  BY <1>1 DEF r
<1> QED
  BY <1>2, <1>3, <1>4, OneBindingResolved DEF Advance

(* An instance that is bound. *)
LEMMA OneInstanceBound ==
  ASSUME Registry, InstancesFit,
         UNCHANGED <<callVars, files_by_lib, mapVars, unitVars>>,
         NEW n, NEW r, n \in Instances => InstanceFits(n, r),
         inst_ref' = [inst_ref EXCEPT ![n] = r]
  PROVE  InstancesFit'
<1>1. \A i \in Instances : InstanceFits(i, inst_ref'[i])
  BY DEF InstancesFit
<1>2. inst_ref' = [i \in Instances |-> inst_ref'[i]]
  BY DEF InstancesFit
<1> QED
  BY <1>1, <1>2, ResolvingKeepsMeaning DEF InstancesFit


LEMMA DirectInstantiationFits ==
  ASSUME Registry, Known, InstancesFit, ResolveDirectInstantiation
  PROVE  InstancesFit'
<1> DEFINE n == CurrentInstance
           q == ResolveBinding(LibOf(n[1]), AspectOf(n), inst_ref[n])
<1>1. /\ inst_ref' = [inst_ref EXCEPT ![n] = Instantiated(q)]
      /\ InstanceOf(n).unit_kind # "component"
  BY DEF ResolveDirectInstantiation, BindInstance, AspectOf, InstanceOf
<1>2. UNCHANGED <<callVars, files_by_lib, mapVars, unitVars>>
  BY ResolveIsWithinRegistry DEF Resolve
<1>3. ASSUME n \in Instances PROVE InstanceFits(n, Instantiated(q))
  <2>1. Owned(LibOf(n[1]), AspectOf(n), inst_ref[n]) /\ AspectOf(n).aspect \in Aspects
    BY <1>1, <1>3, AspectsAreKnown DEF InstancesFit, InstanceFits
  <2>2. Owned(LibOf(n[1]), AspectOf(n), q)
    BY <2>1, BindingStaysOwned
  <2>3. Fits(q)
    BY <2>1, <2>2, OwnedFits
  <2>4. Fits(Instantiated(q)) /\ Owned(LibOf(n[1]), AspectOf(n), Instantiated(q))
    BY <2>1, <2>2, <2>3, InstantiatedStays
  <2>5. ~DefaultBound(n)
    BY <1>1 DEF DefaultBound
  <2> QED
    BY <2>4, <2>5 DEF InstanceFits
<1> HIDE DEF n, q
<1> QED
  BY <1>1, <1>2, <1>3, OneInstanceBound

LEMMA ComponentInstantiationFits ==
  ASSUME Registry, Cursor, Known, BindingsOwned, InstancesFit, ResolveComponentInstantiation
  PROVE  BindingsOwned' /\ InstancesFit'
<1> DEFINE n == CurrentInstance
           u == n[1]
           i == Decl(u).instances[n[2]]
           b == <<u, Min(Matching(u, i))>>
<1>1. i = InstanceOf(n) /\ i.unit_kind = "component"
  BY DEF ResolveComponentInstantiation, InstanceOf
<1>2. UNCHANGED <<callVars, files_by_lib, mapVars, unitVars>>
  BY ResolveIsWithinRegistry DEF Resolve
<1>3. u \in Architectures
  BY UnitsVisited DEF ResolveComponentInstantiation, AtInstance, Visiting, CurrentInstance
<1>4. PICK x :
        \/ /\ Matching(u, i) = {}
           /\ inst_ref' = [inst_ref EXCEPT ![n] =
                             Instantiated([inst_ref[n] EXCEPT !.component = x])]
           /\ UNCHANGED binding_ref
        \/ /\ Matching(u, i) # {}
           /\ binding_ref' = [binding_ref EXCEPT ![b] =
                                ResolveBinding(LibOf(u), Decl(u).items[b[2]].binding, @)]
           /\ inst_ref' = [inst_ref EXCEPT ![n] =
                             Instantiated([binding_ref'[b] EXCEPT !.component = x])]
  BY Zenon DEF ResolveComponentInstantiation, BindInstance
<1>5. ASSUME NEW r, Fits(r), n \in Instances, DefaultBound(n) => r.configuration = None
      PROVE  InstanceFits(n, Instantiated([r EXCEPT !.component = x]))
  <2> DEFINE q == [r EXCEPT !.component = x]
  <2>1. Fits(q) /\ q.configuration = r.configuration
    BY <1>5, ComponentAside DEF Fits
  <2> HIDE DEF q
  <2>2. Fits(Instantiated(q)) /\ Instantiated(q).configuration = q.configuration
    BY <2>1, InstantiatedStays
  <2>3. InstanceFits(n, Instantiated(q))
    BY <1>1, <1>5, <2>1, <2>2 DEF InstanceFits
  <2> QED
    BY <2>3 DEF q
<1>6. CASE Matching(u, i) = {}
  <2> DEFINE s == Instantiated([inst_ref[n] EXCEPT !.component = x])
  <2>1. inst_ref' = [inst_ref EXCEPT ![n] = s] /\ UNCHANGED binding_ref
    BY <1>4, <1>6
  <2>2. n \in Instances => InstanceFits(n, s)
    BY <1>5 DEF InstancesFit, InstanceFits
  <2> HIDE DEF s, n
  <2>3. InstancesFit'
    BY <1>2, <2>1, <2>2, OneInstanceBound
  <2>4. BindingsOwned'
    BY <1>2, <2>1, ResolvingKeepsMeaning DEF BindingsOwned
  <2> QED
    BY <2>3, <2>4
<1>7. CASE Matching(u, i) # {}
  <2> DEFINE s == Instantiated([binding_ref'[b] EXCEPT !.component = x])
  <2>1. /\ inst_ref' = [inst_ref EXCEPT ![n] = s]
        /\ binding_ref' = [binding_ref EXCEPT ![b] =
                             ResolveBinding(LibOf(b[1]), BindingOf(b), binding_ref[b])]
    BY <1>4, <1>7 DEF BindingOf
  <2>2. b \in Bindings
    BY <1>3, <1>7, FirstMatchIsBinding
  <2>3. BindingsOwned' /\ Owned(LibOf(b[1]), BindingOf(b), binding_ref'[b])
    <3>1. Owned(LibOf(b[1]), BindingOf(b), binding_ref[b])
      BY <2>2 DEF BindingsOwned
    <3> HIDE DEF b
    <3> QED
      BY <1>2, <2>1, <2>2, <3>1, OneBindingResolved
  <2>4. Fits(binding_ref'[b])
    BY <2>2, <2>3, AspectsAreKnown, OwnedFits
  <2>5. ~DefaultBound(n)
    BY <1>1, <1>7 DEF DefaultBound
  <2>6. n \in Instances => InstanceFits(n, s)
    BY <1>5, <2>4, <2>5
  <2> HIDE DEF s, n, b
  <2> QED
    BY <1>2, <2>1, <2>3, <2>6, OneInstanceBound
<1> QED
  BY <1>6, <1>7

LEMMA LinkFits ==
  ASSUME Registry, Known, InstancesFit, LinkComponentInstantiation
  PROVE  InstancesFit'
<1> DEFINE n == CurrentInstance
           lib == LibOf(n[1])
           i == InstanceOf(n)
           r == Relink(lib, i, inst_ref[n]).ref
<1>1. UNCHANGED <<callVars, files_by_lib, mapVars, unitVars>>
  BY ResolveIsWithinRegistry DEF Resolve
<1>2. PICK bound :
        /\ inst_ref' = [inst_ref EXCEPT ![n] = bound.ref]
        /\ bound = CASE r.configuration # None -> FromConfiguration(r)
                     [] r.configuration = None /\ NeedsDefault(i, r) ->
                          ByComponentName(lib, r)
                     [] OTHER -> [ref |-> r, misses |-> <<>>]
  BY Zenon DEF LinkComponentInstantiation, BindInstance, InstanceOf
<1> DEFINE s == bound.ref
<1>3. ASSUME n \in Instances PROVE InstanceFits(n, s)
  <2>1. InstanceFits(n, r) /\ Fits(r)
    BY <1>3, RelinkFits DEF InstancesFit, InstanceFits
  <2>2. i.unit_kind # "component" => AspectOf(n).aspect \in Aspects
    BY <1>3, AspectsAreKnown
  <2> HIDE DEF r
  <2>3. CASE r.configuration # None
    <3>1. bound = FromConfiguration(r)
      BY <1>2, <2>3
    <3>2. /\ Fits(s) /\ s.configuration = r.configuration
          /\ i.unit_kind # "component" => Owned(lib, AspectOf(n), s)
      BY <2>1, <2>2, <2>3, <3>1, FromConfigurationFits DEF InstanceFits
    <3> QED
      BY <2>1, <2>3, <3>2 DEF InstanceFits
  <2>4. CASE r.configuration = None /\ NeedsDefault(i, r)
    <3>1. bound = ByComponentName(lib, r) /\ i.unit_kind = "component"
      BY <1>2, <2>4 DEF NeedsDefault
    <3>2. Fits(s) /\ s.configuration = None
      BY <2>1, <2>4, <3>1, ByComponentNameFits
    <3> QED
      BY <3>1, <3>2 DEF InstanceFits
  <2>5. CASE r.configuration = None /\ ~NeedsDefault(i, r)
    <3>1. bound = [ref |-> r, misses |-> <<>>]
      BY <1>2, <2>5
    <3> QED
      BY <2>1, <3>1
  <2> QED
    BY <2>3, <2>4, <2>5
<1> HIDE DEF n
<1> QED
  BY <1>1, <1>2, <1>3, OneInstanceBound

--------------------------------------------------------------------------------
LEMMA ElabInitInv == Init /\ ElabInit => ElabInv
<1> SUFFICES ASSUME Init, ElabInit PROVE ElabInv
  OBVIOUS
<1>1. Registry
  <2>1. RegistryInv
    BY InitInv DEF Inv
  <2>2. FirstRegisteredWins
    BY DEF Init, FirstRegisteredWins, Claims, UnitsOf
  <2>3. DefaultArchitectureIsLatest
    BY DEF Init, DefaultArchitectureIsLatest
  <2> QED
    BY <2>1, <2>2, <2>3 DEF Registry
<1>2. Cursor /\ ArchitecturesDone
  BY DEF ElabInit, Cursor, ArchitecturesDone, Done
<1>3. Known
  BY DEF ElabInit, Known, IsConfiguration, Architectures, Registrable, IsKind, RegisteredKinds,
         SecondaryKinds
<1>4. IsRef(Unbound) /\ Unbound.entity = None /\ Unbound.architecture = None
      /\ Unbound.configuration = None
  BY DEF Unbound, IsRef
<1>5. \A lib, b : Owned(lib, b, Unbound)
  BY <1>4 DEF Owned, AboutEntity, AboutConfiguration
<1>6. \A i : InstanceFits(i, Unbound)
  BY <1>4, <1>5 DEF InstanceFits, Fits
<1>7. BindingsOwned
  BY <1>5 DEF ElabInit, BindingsOwned
<1>8. InstancesFit
  BY <1>6 DEF ElabInit, InstancesFit
<1> QED
  BY <1>1, <1>2, <1>3, <1>7, <1>8 DEF ElabInv

LEMMA ReferencesStep ==
  ASSUME Registry, Cursor, Known, BindingsOwned, InstancesFit, Resolve
  PROVE  BindingsOwned' /\ InstancesFit'
<1>1. UNCHANGED <<callVars, files_by_lib, mapVars, unitVars>>
  BY ResolveIsWithinRegistry
<1>2. /\ UNCHANGED binding_ref => BindingsOwned'
      /\ UNCHANGED inst_ref => InstancesFit'
  BY <1>1, ResolvingKeepsMeaning DEF BindingsOwned, InstancesFit
<1>3. ResolvesItem => BindingsOwned'
  BY ItemResolved DEF ResolvesItem, ResolveComponentConfiguration,
                      ResolveConfigurationSpecification
<1>4. ResolveDirectInstantiation => InstancesFit'
  BY DirectInstantiationFits
<1>5. ResolveComponentInstantiation => BindingsOwned' /\ InstancesFit'
  BY ComponentInstantiationFits
<1>6. LinkComponentInstantiation => InstancesFit'
  BY LinkFits
<1> QED
  BY <1>2, <1>3, <1>4, <1>5, <1>6, ReferencesKept

LEMMA ElabInvStep == ElabInv /\ [ElabNext]_allVars => ElabInv'
<1> SUFFICES ASSUME ElabInv, [ElabNext]_allVars PROVE ElabInv'
  OBVIOUS
<1> USE DEF ElabInv
<1>1. Adds \/ ResolveReferences \/ Resolve
  BY ElabSteps
<1>2. Cursor' /\ Known' /\ ArchitecturesDone'
  BY <1>1, CursorStep, KnownStep, ArchitecturesDoneStep
<1>3. CASE Adds
  <2>1. Registry'
    BY <1>3, RegistryKept DEF Adds
  <2>2. BindingsOwned' /\ InstancesFit'
    BY <1>3, AddsKeepsReferences DEF Adds, elabVars, refVars
  <2> QED
    BY <1>2, <2>1, <2>2
<1>4. CASE ResolveReferences
  <2>1. [Next]_vars /\ UNCHANGED <<unit_ref, binding_ref, inst_ref>>
    BY <1>4 DEF ResolveReferences
  <2>2. Registry' /\ BindingsOwned' /\ InstancesFit'
    BY <2>1, RegistryKept, AddsKeepsReferences
  <2> QED
    BY <1>2, <2>2
<1>5. CASE Resolve
  <2>1. Registry'
    BY <1>5, ResolveIsWithinRegistry, RegistryUntouched
  <2> QED
    BY <1>2, <1>5, <2>1, ReferencesStep
<1> QED
  BY <1>1, <1>3, <1>4, <1>5

(* Whatever is declared twice, in whatever order files are added and runs   *)
(* of resolve_references come: an instance with an entity and an            *)
(* architecture has an architecture of that entity once the linker is done. *)
THEOREM ArchitectureFits == ElabSpec => []BoundArchitectureFits
<1>1. ASSUME ElabInv PROVE BoundArchitectureFits
  <2> SUFFICES ASSUME Resolved, NEW i \in Instances,
                      EntityOf(i) # None, ArchitectureOf(i) # None
               PROVE  unit_ref[ArchitectureOf(i)] = EntityOf(i)
    BY DEF BoundArchitectureFits
  <2>1. /\ RegisteredArchitecture(ArchitectureOf(i))
        /\ EntityOf(i) = EntityAt(EntityKeyOf(ArchitectureOf(i)))
    BY <1>1 DEF ElabInv, InstancesFit, InstanceFits, Fits, EntityOf, ArchitectureOf
  <2>2. unit_ref[ArchitectureOf(i)] = EntityAt(EntityKeyOf(ArchitectureOf(i)))
    BY <1>1, <2>1 DEF RegisteredArchitecture, ElabInv, ArchitecturesDone, Done, Resolved
  <2> QED
    BY <2>1, <2>2
<1> QED
  BY <1>1, ElabInitInv, ElabInvStep, PTL DEF ElabSpec

(* An instance that is bound by default is never bound anew. *)
LEMMA DefaultBoundStays ==
  ASSUME ElabInv, [ElabNext]_allVars,
         NEW i \in Instances, DefaultBound(i), EntityOf(i) # None
  PROVE  EntityOf(i)' = EntityOf(i) /\ ArchitectureOf(i)' = ArchitectureOf(i)
<1> USE DEF EntityOf, ArchitectureOf
<1> DEFINE n == CurrentInstance
           Writes(r) == inst_ref' = [inst_ref EXCEPT ![n] = r]
<1>1. /\ Fits(inst_ref[i]) /\ IsRef(inst_ref[i]) /\ inst_ref[i].configuration = None
      /\ inst_ref = [j \in Instances |-> inst_ref[j]]
  BY DEF ElabInv, InstancesFit, InstanceFits, Fits
<1>2. InstanceOf(i).unit_kind = "component" /\ Matching(i[1], InstanceOf(i)) = {}
  BY DEF DefaultBound
<1>3. CASE inst_ref' = inst_ref
  BY <1>3
<1>4. CASE ResolveDirectInstantiation
  <2>1. n # i /\ \E r : Writes(r)
    BY <1>2, <1>4 DEF ResolveDirectInstantiation, BindInstance, InstanceOf
  <2> QED
    BY <1>1, <2>1
<1>5. CASE ResolveComponentInstantiation
  <2>1. \E r : Writes(r)
    BY <1>5, Zenon DEF ResolveComponentInstantiation, BindInstance
  <2>2. n = i => \E x : Writes(Instantiated([inst_ref[i] EXCEPT !.component = x]))
    BY <1>2, <1>5, Zenon DEF ResolveComponentInstantiation, BindInstance, InstanceOf
  <2>3. CASE n # i
    BY <1>1, <2>1, <2>3
  <2>4. CASE n = i
    <3>1. PICK x : Writes(Instantiated([inst_ref[i] EXCEPT !.component = x]))
      BY <2>2, <2>4
    <3> DEFINE q == [inst_ref[i] EXCEPT !.component = x]
    <3>2. Fits(q) /\ q.entity = EntityOf(i) /\ q.architecture = ArchitectureOf(i)
      BY <1>1, ComponentAside
    <3>3. inst_ref'[i] = Instantiated(q)
      BY <1>1, <2>4, <3>1
    <3> HIDE DEF q
    <3> QED
      BY <3>2, <3>3, InstantiatedStays DEF ElabInv
  <2> QED
    BY <2>3, <2>4
<1>6. CASE LinkComponentInstantiation
  <2>1. \E r : Writes(r)
    BY <1>6, Zenon DEF LinkComponentInstantiation, BindInstance
  <2>2. CASE n # i
    BY <1>1, <2>1, <2>2
  <2>3. CASE n = i
    <3> DEFINE d == InstanceOf(i)
               r == Relink(LibOf(i[1]), d, inst_ref[i]).ref
    <3>1. PICK bound :
            /\ inst_ref' = [inst_ref EXCEPT ![i] = bound.ref]
            /\ bound = CASE r.configuration # None -> FromConfiguration(r)
                         [] r.configuration = None /\ NeedsDefault(d, r) ->
                              ByComponentName(LibOf(i[1]), r)
                         [] OTHER -> [ref |-> r, misses |-> <<>>]
      BY <1>6, <2>3, Zenon DEF LinkComponentInstantiation, BindInstance, InstanceOf
    <3>2. r = inst_ref[i]
      BY <1>2, RelinkFits DEF ElabInv, InstancesFit
    <3>3. r.configuration = None /\ ~NeedsDefault(d, r)
      BY <1>1, <3>2 DEF NeedsDefault
    <3>4. bound.ref = inst_ref[i]
      <4> HIDE DEF r
      <4> QED
        BY <3>1, <3>2, <3>3
    <3> QED
      BY <1>1, <3>1, <3>4
  <2> QED
    BY <2>2, <2>3
<1> QED
  <2>1. Adds \/ ResolveReferences => inst_ref' = inst_ref
    BY DEF Adds, elabVars, refVars, ResolveReferences
  <2> QED
    BY <1>3, <1>4, <1>5, <1>6, <2>1, ElabSteps, ReferencesKept

(* A component that was bound by default keeps its entity and architecture  *)
(* in every later run: only an instance without an entity is bound anew.    *)
THEOREM DefaultsStick == ElabSpec => DefaultBindingsStick
<1>1. ElabInv /\ [ElabNext]_allVars =>
        [\A i \in Instances :
           DefaultBound(i) /\ EntityOf(i) # None
             => /\ EntityOf(i)' = EntityOf(i)
                /\ ArchitectureOf(i)' = ArchitectureOf(i)]_allVars
  BY DefaultBoundStays
<1> QED
  BY <1>1, ElabInitInv, ElabInvStep, PTL DEF ElabSpec, DefaultBindingsStick
================================================================================
