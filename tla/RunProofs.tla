------------------------------- MODULE RunProofs -------------------------------
(***************************************************************************)
(* What one run of resolve_references has done by the time it ends: both   *)
(* passes over the architectures have been at every instance, and what one *)
(* of them has settled neither undoes.  Then what the passes over units    *)
(* and items have done: used packages are found, configurations and the    *)
(* indications that name them agree, and each unit is a member of the unit *)
(* it refers to.                                                           *)
(***************************************************************************)
EXTENDS ElaborationProofs

(* The walk has no more items to visit than the unit has. *)
ItemInside == item > 0 => item <= ItemsIn(Visited)

(* Pass p of this run has been at instance i. *)
SpecsBefore(p, u) == IF p = 4 THEN Len(Decl(u).items) ELSE 0
Behind(p, n, j) ==
  \/ p = 4 /\ pass = 5
  \/ pass = p /\ (n < at \/ (n = at /\ SpecsBefore(p, secondary_units[n]) + j < item))
Seen(p, i) ==
  \E n \in DOMAIN secondary_units : secondary_units[n] = i[1] /\ Behind(p, n, i[2])

LEMMA ItemCounts ==
  /\ \A u \in Unit : ItemsIn(u) \in Nat
  /\ \A u \in Architectures :
       /\ IsKind(u, {"architecture"}) /\ ~IsKind(u, {"configuration"})
       /\ Specs(u) \in Nat /\ Len(Decl(u).instances) \in Nat
       /\ ItemsIn(u) = Specs(u) + Len(Decl(u).instances)
       /\ \A p : SpecsBefore(p, u) \in Nat /\ (pass = p => SpecsBefore(p, u) = Specs(u))
<1>1. ASSUME NEW u \in Architectures
      PROVE  /\ IsKind(u, {"architecture"}) /\ ~IsKind(u, {"configuration"})
             /\ Specs(u) \in Nat /\ Len(Decl(u).instances) \in Nat
             /\ \A p : SpecsBefore(p, u) \in Nat /\ (pass = p => SpecsBefore(p, u) = Specs(u))
  <2>1. u \in UnitsOfKind({"architecture", "configuration"})
    BY DEF Architectures, UnitsOfKind, IsKind
  <2> QED
    BY <2>1, ItemsAssumption DEF Architectures, IsKind, Specs, SpecsBefore
<1>2. \A u \in Architectures : ItemsIn(u) = Specs(u) + Len(Decl(u).instances)
  BY <1>1 DEF ItemsIn
<1>3. ASSUME NEW u \in Unit PROVE ItemsIn(u) \in Nat
  <2>1. CASE IsKind(u, {"configuration"})
    <3>1. u \in UnitsOfKind({"architecture", "configuration"})
      BY <2>1 DEF UnitsOfKind, IsKind
    <3>2. ~IsKind(u, {"architecture"})
      BY <2>1 DEF IsKind
    <3>3. ItemsIn(u) = Len(Decl(u).items)
      BY <2>1, <3>2 DEF ItemsIn
    <3> QED
      BY <3>1, <3>3, ItemsAssumption
  <2>2. CASE IsKind(u, {"architecture"})
    <3>1. u \in Architectures
      BY <2>2 DEF Architectures
    <3> QED
      BY <1>1, <1>2, <3>1
  <2>3. CASE ~IsKind(u, {"configuration"}) /\ ~IsKind(u, {"architecture"})
    BY <2>3 DEF ItemsIn
  <2> QED
    BY <2>1, <2>2, <2>3
<1> QED
  BY <1>1, <1>2, <1>3

LEMMA ItemInsideStep ==
  ASSUME Registry, Cursor, ItemInside, Adds \/ ResolveReferences \/ Resolve
  PROVE  ItemInside'
<1>1. CASE Adds
  <2>1. UNCHANGED <<pass, at, item>>
    BY <1>1 DEF Adds, elabVars, cursorVars
  <2>2. CASE pass = 0
    BY <2>1, <2>2 DEF Cursor, ItemInside
  <2>3. CASE UNCHANGED vars
    BY <2>1, <2>3 DEF ItemInside, vars, registryVars, unitVars, PassUnits, Visited, ItemsIn, Specs
  <2> QED
    BY <1>1, <2>2, <2>3 DEF Adds
<1>2. CASE ResolveReferences
  BY <1>2 DEF ResolveReferences, Cursor, ItemInside
<1>3. CASE EndPass \/ SkipUnit
  <2>1. item = 0 /\ item' = item
    BY <1>3 DEF EndPass, SkipUnit, Cursor, PassUnits, Registry, RegistryInv, RegistryTypeOK
  <2> QED
    BY <2>1 DEF ItemInside
<1>4. CASE Handles
  <2>1. PassUnits' = PassUnits /\ pass' = pass
    BY <1>4 DEF Handles, Advance, PassUnits, unitVars
  <2>2. ItemsIn(Visited) \in Nat
    BY <1>4, ItemCounts, UnitsVisited DEF Handles
  <2>3. CASE item < ItemsIn(Visited) /\ item' = item + 1 /\ at' = at
    <3>1. Visited' = Visited /\ ItemsIn(Visited)' = ItemsIn(Visited)
      BY <2>1, <2>3 DEF Visited, ItemsIn, Specs
    <3> QED
      BY <2>2, <2>3, <3>1 DEF ItemInside, Cursor
  <2>4. CASE item' = 0
    BY <2>4 DEF ItemInside
  <2> QED
    BY <1>4, <2>3, <2>4 DEF Handles, Advance
<1> QED
  BY <1>1, <1>2, <1>3, <1>4, ResolveSteps


(* The walk passes an instance only by the step that binds it. *)
LEMMA BindsAt ==
  ASSUME Registry, Cursor, Resolve, Handles, NEW p \in {4, 5}, AtInstance(p), item > 0
  PROVE  IF p = 4 THEN ResolveDirectInstantiation \/ ResolveComponentInstantiation
         ELSE LinkComponentInstantiation
<1>1. /\ KindOf(Visited) = "architecture" /\ pass = p /\ item > Specs(Visited)
      /\ Visited \in Architectures
  BY UnitsVisited DEF AtInstance, Visiting, IsKind
<1>2. Specs(Visited) \in Nat /\ at \in Nat /\ item \in Nat
  BY <1>1, ItemCounts DEF Cursor
<1>3. ~ResolveConfigurationSpecification
  BY <1>1, <1>2 DEF ResolveConfigurationSpecification
<1>4. ~EndPass /\ ~SkipUnit
  BY <1>1, <1>2 DEF EndPass, SkipUnit, Handles, PassUnits, Registry, RegistryInv, RegistryTypeOK
<1>5. /\ ~ResolvePackage /\ ~ResolveContext /\ ~ResolveEntity
      /\ ~ResolvePackageInstantiation /\ ~ResolveConfiguration
      /\ ~ResolveComponentConfiguration /\ ~ResolveContextReference
      /\ ~ResolveArchitecture /\ ~ResolvePackageBody /\ ~EnterArchitecture
  BY <1>1 DEF ResolvePackage, ResolveContext, ResolveEntity, ResolvePackageInstantiation,
       ResolveConfiguration, ResolveComponentConfiguration, ResolveContextReference,
       ResolveArchitecture, ResolvePackageBody, EnterArchitecture, AtHead, Visiting
<1>6. /\ p = 4 => ~LinkComponentInstantiation
      /\ p = 5 => ~ResolveDirectInstantiation /\ ~ResolveComponentInstantiation
  <2>1. /\ LinkComponentInstantiation => AtInstance(5)
        /\ ResolveDirectInstantiation => AtInstance(4)
        /\ ResolveComponentInstantiation => AtInstance(4)
    BY Zenon DEF LinkComponentInstantiation, ResolveDirectInstantiation,
                 ResolveComponentInstantiation
  <2> QED
    BY <1>1, <2>1 DEF AtInstance, Visiting
<1> QED
  BY <1>3, <1>4, <1>5, <1>6 DEF Resolve

LEMMA PlaceOfInstance ==
  ASSUME NEW i \in Instances
  PROVE  /\ i[1] \in Architectures /\ i[2] \in 1..Len(Decl(i[1]).instances)
         /\ i = <<i[1], i[2]>>
BY DEF Instances, Numbered

LEMMA PassedByBinding ==
  ASSUME Registry, Cursor, ItemInside, Resolve,
         NEW p \in {4, 5}, NEW i \in Instances, Seen(p, i)', ~Seen(p, i)
  PROVE  CurrentInstance = i /\ AtInstance(p) /\ item > 0 /\ Handles
<1> USE DEF callVars, unitVars, mapVars
<1>1. PICK n \in DOMAIN secondary_units' : secondary_units'[n] = i[1] /\ Behind(p, n, i[2])'
  BY DEF Seen
<1>2. secondary_units' = secondary_units
  BY ResolveIsWithinRegistry
<1>3. ~Behind(p, n, i[2])
  BY <1>1, <1>2 DEF Seen
<1>4. /\ secondary_units \in Seq(Registrable) /\ n \in 1..Len(secondary_units)
      /\ at \in Nat \ {0} /\ item \in Nat /\ pass \in 1..5
  BY <1>1, <1>2, ResolveIsWithinRegistry DEF Registry, RegistryInv, RegistryTypeOK, Cursor
<1> DEFINE u == i[1]
           j == i[2]
           before == SpecsBefore(p, u)
<1>5. /\ u \in Architectures /\ j \in 1..Len(Decl(u).instances) /\ u = secondary_units[n]
      /\ before \in Nat /\ Len(Decl(u).instances) \in Nat
      /\ IsKind(u, {"architecture"}) /\ (pass = p => before = Specs(u))
      /\ ItemsIn(u) = Specs(u) + Len(Decl(u).instances)
      /\ i = <<u, j>>
  BY <1>1, <1>2, PlaceOfInstance, ItemCounts
<1>6. Behind(p, n, j)' <=>
        \/ p = 4 /\ pass' = 5
        \/ pass' = p /\ (n < at' \/ (n = at' /\ before + j < item'))
  BY <1>2, <1>5 DEF Behind, SpecsBefore
<1>7. Behind(p, n, j) <=>
        \/ p = 4 /\ pass = 5
        \/ pass = p /\ (n < at \/ (n = at /\ before + j < item))
  BY <1>5 DEF Behind
<1> HIDE DEF before, u, j
<1>8. ~EndPass
  <2> SUFFICES ASSUME EndPass PROVE FALSE
    OBVIOUS
  <2>1. item = 0
    BY <1>4 DEF EndPass, Cursor, PassUnits, Registry, RegistryInv, RegistryTypeOK
  <2>2. p = 4 /\ pass' = 5 => n < at
    BY <1>4 DEF EndPass, PassUnits
  <2>3. at' = 1 /\ item' = 0 /\ j \in Nat
    BY <1>5, <2>1 DEF EndPass
  <2>4. p = 4 /\ pass' = 5 /\ pass # 5
    BY <1>1, <1>3, <1>4, <1>5, <1>6, <1>7, <2>3 DEF j
  <2>5. pass = 4
    BY <1>4, <2>4 DEF EndPass
  <2> QED
    BY <1>3, <1>7, <2>2, <2>4, <2>5 DEF j
<1>9. ~SkipUnit
  <2> SUFFICES ASSUME SkipUnit PROVE FALSE
    OBVIOUS
  <2>1. item = 0 /\ item' = 0 /\ at' = at + 1 /\ pass' = pass /\ j \in Nat
    BY <1>5 DEF SkipUnit, Cursor
  <2>2. pass = p /\ n = at
    BY <1>1, <1>3, <1>4, <1>5, <1>6, <1>7, <2>1 DEF j
  <2>3. Visited = u
    BY <1>5, <2>2 DEF Visited, PassUnits
  <2> QED
    BY <1>5, <2>2, <2>3 DEF SkipUnit, Handled, IsKind
<1>10. Handles
  BY <1>8, <1>9, ResolveSteps
<1>11. pass' = pass /\ (IF item < ItemsIn(Visited) THEN item' = item + 1 /\ at' = at
                       ELSE item' = 0 /\ at' = at + 1)
  BY <1>10 DEF Handles, Advance
<1>12. pass = p /\ n = at
  BY <1>1, <1>3, <1>4, <1>5, <1>6, <1>7, <1>11 DEF j
<1>13. Visited = u
  BY <1>5, <1>12 DEF Visited, PassUnits
<1>14. item = Specs(u) + j
  <2>1. before = Specs(u) /\ ItemsIn(Visited) = before + Len(Decl(u).instances)
    BY <1>5, <1>12, <1>13
  <2>2. ~(before + j < item)
    BY <1>3, <1>7, <1>12 DEF j
  <2>3. at' = at + 1 \/ before + j < item'
    BY <1>1, <1>4, <1>6, <1>11, <1>12 DEF j
  <2>4. CASE item < ItemsIn(Visited)
    BY <1>4, <1>5, <1>11, <2>1, <2>2, <2>3, <2>4
  <2>5. CASE ~(item < ItemsIn(Visited))
    BY <1>4, <1>5, <2>1, <2>2, <2>5
  <2> QED
    BY <2>4, <2>5
<1>15. CurrentInstance = i /\ item > Specs(u) /\ item > 0
  BY <1>4, <1>5, <1>12, <1>13, <1>14 DEF CurrentInstance
<1> QED
  BY <1>5, <1>10, <1>12, <1>13, <1>15 DEF AtInstance, Visiting, Handles


--------------------------------------------------------------------------------
(* What the resolver binds an instance to, unless by default; and what an   *)
(* instance that names its unit refers to once the resolver has been there. *)
BoundTo(lib, b) ==
  LET name == LibraryAndDesignName(lib, b.name) IN
  IF b.aspect = "entity" THEN EntityAt(name)
  ELSE IF b.aspect = "configuration" /\ ConfigurationAt(name) # None
       THEN unit_ref[ConfigurationAt(name)]
       ELSE None

FirstMatch(i) == <<i[1], Min(Matching(i[1], InstanceOf(i)))>>
Wanted(i) ==
  BoundTo(LibOf(i[1]), IF InstanceOf(i).unit_kind # "component" THEN AspectOf(i)
                       ELSE BindingOf(FirstMatch(i)))

NamesCurrent(i, r) ==
  LET d == InstanceOf(i)
      name == LibraryAndDesignName(LibOf(i[1]), d.name)
  IN  /\ d.unit_kind = "entity" =>
           /\ r.entity = EntityAt(name)
           /\ r.architecture = At(<<"architecture", name, d.arch>>)
      /\ d.unit_kind = "configuration" => r.configuration = ConfigurationAt(name)

Binds(n, s) ==
  /\ inst_ref' = [inst_ref EXCEPT ![n] = s]
  /\ instantiated_entities' = instantiated_entities \cup ({s.entity} \ {None})

LEMMA BindingResult ==
  ASSUME Registry, Known, NEW lib, NEW b, b.aspect \in Aspects, NEW r, Owned(lib, b, r)
  PROVE  LET s == Instantiated(ResolveBinding(lib, b, r))
             name == LibraryAndDesignName(lib, b.name)
         IN  /\ IsRef(s)
             /\ s.entity = BoundTo(lib, b)
             /\ b.aspect = "entity" => s.architecture = At(<<"architecture", name, b.arch>>)
             /\ b.aspect = "configuration" => s.configuration = ConfigurationAt(name)
<1> DEFINE name == LibraryAndDesignName(lib, b.name)
           q == ResolveBinding(lib, b, r)
           s == Instantiated(q)
<1>1. IsRef(r) /\ IsRef(q)
  BY BindingStaysOwned DEF Owned
<1>2. /\ IsRef(s) /\ s.configuration = q.configuration /\ s.architecture = q.architecture
      /\ s.entity = IF q.entity # None \/ q.configuration = None THEN q.entity
                    ELSE unit_ref[q.configuration]
  BY <1>1, InstantiatedFields DEF IsRef
<1> HIDE DEF s
<1>3. CASE b.aspect = "entity"
  <2>1. q = [component |-> r.component, entity |-> EntityAt(name),
             architecture |-> At(<<"architecture", name, b.arch>>),
             configuration |-> r.configuration]
    BY <1>1, <1>3, BindsEntity, FindIsAt DEF NameKey
  <2>2. r.configuration = None
    BY <1>3 DEF Owned
  <2> HIDE DEF q, name
  <2> QED
    BY <1>2, <1>3, <2>1, <2>2 DEF BoundTo, s, q, name
<1>4. CASE b.aspect = "configuration"
  <2> DEFINE c == ConfigurationAt(name)
  <2>1. q = [component |-> r.component, entity |-> IF c = None THEN r.entity ELSE unit_ref[c],
             architecture |-> r.architecture, configuration |-> c]
    BY <1>1, <1>4, BindsConfiguration, FindIsAt
  <2>2. c = None => r.entity = None
    BY <1>4 DEF Owned, AboutConfiguration
  <2> HIDE DEF q, name, c
  <2> QED
    BY <1>2, <1>4, <2>1, <2>2 DEF BoundTo, s, q, name, c
<1>5. CASE b.aspect \in {"open", "none"}
  <2>1. q = r /\ r.entity = None /\ r.configuration = None
    BY <1>1, <1>5, BindsNothing DEF Owned
  <2> HIDE DEF q
  <2> QED
    BY <1>2, <1>5, <2>1 DEF BoundTo, s, q
<1> QED
  BY <1>3, <1>4, <1>5 DEF Aspects

LEMMA DirectBinds ==
  ASSUME ElabInv, ResolveDirectInstantiation, CurrentInstance \in Instances
  PROVE  LET n == CurrentInstance IN
         /\ InstanceOf(n).unit_kind # "component"
         /\ \E s : Binds(n, s) /\ s.entity = Wanted(n) /\ NamesCurrent(n, s)
<1> DEFINE n == CurrentInstance
           s == Instantiated(ResolveBinding(LibOf(n[1]), AspectOf(n), inst_ref[n]))
<1>1. Binds(n, s) /\ InstanceOf(n).unit_kind # "component"
  BY DEF ResolveDirectInstantiation, BindInstance, AspectOf, InstanceOf, Binds
<1>2. Owned(LibOf(n[1]), AspectOf(n), inst_ref[n]) /\ AspectOf(n).aspect \in Aspects
  BY <1>1, AspectsAreKnown DEF ElabInv, InstancesFit, InstanceFits
<1>3. s.entity = Wanted(n)
  BY <1>1, <1>2, BindingResult DEF ElabInv, Wanted
<1>4. NamesCurrent(n, s)
  <2> DEFINE name == LibraryAndDesignName(LibOf(n[1]), AspectOf(n).name)
             b == AspectOf(n)
  <2>1. /\ s.entity = BoundTo(LibOf(n[1]), b)
        /\ b.aspect = "entity" => s.architecture = At(<<"architecture", name, b.arch>>)
        /\ b.aspect = "configuration" => s.configuration = ConfigurationAt(name)
    BY <1>2, BindingResult DEF ElabInv
  <2>2. b.aspect = InstanceOf(n).unit_kind /\ b.name = InstanceOf(n).name
        /\ b.arch = InstanceOf(n).arch
    BY DEF AspectOf
  <2>3. name = LibraryAndDesignName(LibOf(n[1]), InstanceOf(n).name)
    BY <2>2
  <2>4. b.aspect = "entity" => s.entity = EntityAt(name)
    BY <2>1 DEF BoundTo
  <2> HIDE DEF name, b, s, n
  <2> QED
    BY <2>1, <2>2, <2>3, <2>4 DEF NamesCurrent
<1> QED
  BY <1>1, <1>3, <1>4

LEMMA ComponentBinds ==
  ASSUME ElabInv, ResolveComponentInstantiation, CurrentInstance \in Instances
  PROVE  LET n == CurrentInstance IN
         /\ InstanceOf(n).unit_kind = "component"
         /\ \E s : /\ Binds(n, s)
                   /\ ~DefaultBound(n) => s.entity = Wanted(n)
                   /\ DefaultBound(n) /\ EntityOf(n) # None => s.entity = EntityOf(n)
<1> DEFINE n == CurrentInstance
           b == FirstMatch(n)
<1>1. InstanceOf(n).unit_kind = "component"
  BY DEF ResolveComponentInstantiation, InstanceOf
<1>2. n[1] \in Architectures
  BY PlaceOfInstance
<1>3. PICK x :
        \/ /\ Matching(n[1], InstanceOf(n)) = {}
           /\ Binds(n, Instantiated([inst_ref[n] EXCEPT !.component = x]))
        \/ /\ Matching(n[1], InstanceOf(n)) # {}
           /\ binding_ref' = [binding_ref EXCEPT ![b] =
                                ResolveBinding(LibOf(b[1]), BindingOf(b), @)]
           /\ Binds(n, Instantiated([binding_ref'[b] EXCEPT !.component = x]))
  <2>1. b[1] = n[1]
    BY DEF FirstMatch
  <2> QED
    BY <2>1, Zenon DEF ResolveComponentInstantiation, BindInstance, InstanceOf, Binds,
                       FirstMatch, BindingOf
<1>4. ASSUME NEW r, IsRef(r)
      PROVE  Instantiated([r EXCEPT !.component = x]).entity = Instantiated(r).entity
  <2> DEFINE q == [r EXCEPT !.component = x]
  <2>1. IsRef(q) /\ q.entity = r.entity /\ q.configuration = r.configuration
    BY <1>4, ComponentAside
  <2> HIDE DEF q
  <2>2. Instantiated(q).entity = Instantiated(r).entity
    BY <1>4, <2>1, InstantiatedFields
  <2> QED
    BY <2>2 DEF q
<1>5. CASE Matching(n[1], InstanceOf(n)) = {}
  <2>1. Fits(inst_ref[n]) /\ IsRef(inst_ref[n]) /\ DefaultBound(n)
    BY <1>1, <1>5 DEF ElabInv, InstancesFit, InstanceFits, Fits, DefaultBound
  <2>2. EntityOf(n) # None => Instantiated(inst_ref[n]).entity = EntityOf(n)
    BY <2>1, InstantiatedStays DEF ElabInv, EntityOf
  <2> QED
    BY <1>1, <1>3, <1>4, <1>5, <2>1, <2>2
<1>6. CASE Matching(n[1], InstanceOf(n)) # {}
  <2>1. b \in Bindings /\ b[1] = n[1]
    BY <1>2, <1>6, FirstMatchIsBinding DEF FirstMatch
  <2> DEFINE q == ResolveBinding(LibOf(b[1]), BindingOf(b), binding_ref[b])
  <2>2. /\ Owned(LibOf(b[1]), BindingOf(b), binding_ref[b])
        /\ BindingOf(b).aspect \in Aspects /\ b \in DOMAIN binding_ref
    BY <2>1, AspectsAreKnown DEF ElabInv, BindingsOwned
  <2>3. IsRef(q)
    BY <2>2, BindingStaysOwned DEF ElabInv, Owned
  <2>4. Instantiated(q).entity = Wanted(n)
    BY <1>1, <2>1, <2>2, BindingResult DEF ElabInv, Wanted
  <2>5. binding_ref'[b] = q /\ Binds(n, Instantiated([binding_ref'[b] EXCEPT !.component = x]))
    BY <1>3, <1>6, <2>2
  <2>6. ~DefaultBound(n)
    BY <1>6 DEF DefaultBound
  <2> HIDE DEF q, n
  <2>7. Instantiated([binding_ref'[b] EXCEPT !.component = x]).entity = Wanted(n)
    BY <1>4, <2>3, <2>4, <2>5
  <2> QED
    BY <1>1, <2>5, <2>6, <2>7 DEF n
<1> QED
  BY <1>5, <1>6


LEMMA LinkBinds ==
  ASSUME ElabInv, LinkComponentInstantiation, CurrentInstance \in Instances
  PROVE  LET n == CurrentInstance IN
         \E s : /\ Binds(n, s)
                /\ EntityOf(n) # None => s.entity = EntityOf(n)
                /\ NamesCurrent(n, inst_ref[n]) => NamesCurrent(n, s)
<1> DEFINE n == CurrentInstance
           lib == LibOf(n[1])
           d == InstanceOf(n)
           name == LibraryAndDesignName(lib, d.name)
           was == inst_ref[n]
           r == Relink(lib, d, was).ref
<1>1. PICK bound :
        /\ Binds(n, bound.ref)
        /\ bound = CASE r.configuration # None -> FromConfiguration(r)
                     [] r.configuration = None /\ NeedsDefault(d, r) ->
                          ByComponentName(lib, r)
                     [] OTHER -> [ref |-> r, misses |-> <<>>]
  BY Zenon DEF LinkComponentInstantiation, BindInstance, InstanceOf, Binds
<1>2. InstanceFits(n, was) /\ InstanceFits(n, r) /\ IsRef(was) /\ Fits(was) /\ Fits(r)
  BY RelinkFits DEF ElabInv, InstancesFit, InstanceFits, Fits
<1>3. /\ r.entity = was.entity /\ r.architecture = was.architecture
      /\ r.configuration # was.configuration =>
           d.unit_kind = "configuration" /\ was.configuration = None
      /\ d.unit_kind = "configuration" /\ was.configuration = None =>
           r.configuration = ConfigurationAt(name)
  BY <1>2, RefFields, FindIsAt DEF Relink, IsRef
<1>4. d.unit_kind = "entity" => was.configuration = None
  BY <1>2 DEF InstanceFits, Owned, AspectOf
<1> HIDE DEF r, was, d
<1>5. NamesCurrent(n, was) => NamesCurrent(n, r)
  BY <1>3 DEF NamesCurrent, d
<1>6. CASE r.configuration # None
  <2> DEFINE s == FromConfiguration(r).ref
             ck == ConfiguredKey(r.configuration)
             a == At(<<"architecture", ck, Decl(r.configuration).block>>)
             e == IF unit_ref[r.configuration] # None THEN unit_ref[r.configuration] ELSE r.entity
  <2>1. bound = FromConfiguration(r)
    BY <1>1, <1>6
  <2>2. Fits(s) /\ s.configuration = r.configuration
    BY <1>2, <1>6, FromConfigurationFits DEF ElabInv
  <2>3. s = [component |-> r.component,
             entity |-> IF e = None /\ a # None THEN unit_ref[a] ELSE e,
             architecture |-> a, configuration |-> r.configuration]
    BY <1>2, FromConfigurationFields DEF Fits
  <2>4. d.unit_kind # "entity"
    BY <1>3, <1>4, <1>6
  <2> HIDE DEF s, ck, a
  <2>5. r.entity # None => s.entity # None
    BY <2>3
  <2>6. r.entity \in {None, EntityAt(ck)} /\ s.entity \in {None, EntityAt(ck)}
    BY <1>2, <1>6, <2>2 DEF Fits, AboutEntity, ck
  <2>7. EntityOf(n) # None => s.entity = EntityOf(n)
    BY <1>3, <2>5, <2>6 DEF EntityOf, was
  <2>8. NamesCurrent(n, r) => NamesCurrent(n, s)
    BY <2>2, <2>4 DEF NamesCurrent, d
  <2> QED
    BY <1>1, <1>5, <2>1, <2>7, <2>8 DEF s, was
<1>7. CASE r.configuration = None /\ NeedsDefault(d, r)
  <2>1. EntityOf(n) = None /\ d.unit_kind = "component"
    BY <1>3, <1>7 DEF NeedsDefault, EntityOf, was
  <2>2. \A s : NamesCurrent(n, s)
    BY <2>1 DEF NamesCurrent, d
  <2> QED
    BY <1>1, <2>1, <2>2
<1>8. CASE r.configuration = None /\ ~NeedsDefault(d, r)
  <2>1. bound = [ref |-> r, misses |-> <<>>]
    BY <1>1, <1>8
  <2> QED
    BY <1>1, <1>3, <1>5, <2>1 DEF EntityOf, was
<1> QED
  BY <1>6, <1>7, <1>8

(* An instance is bound only in an architecture the walk is in. *)
LEMMA BindingPlace ==
  ASSUME ElabInv, ItemInside,
         \/ ResolveDirectInstantiation \/ ResolveComponentInstantiation
         \/ LinkComponentInstantiation
  PROVE  CurrentInstance \in Instances /\ RegisteredArchitecture(CurrentInstance[1])
<1> DEFINE n == CurrentInstance
<1>1. /\ pass \in {4, 5} /\ at <= Len(PassUnits) /\ item > Specs(Visited)
      /\ IsKind(Visited, {"architecture"})
  <2>1. AtInstance(4) \/ AtInstance(5)
    BY Zenon DEF ResolveDirectInstantiation, ResolveComponentInstantiation,
                       LinkComponentInstantiation
  <2> QED
    BY <2>1 DEF AtInstance, Visiting
<1>2. /\ Visited \in Architectures /\ Visited \in Unit
      /\ at \in DOMAIN secondary_units /\ Visited = secondary_units[at]
  BY <1>1, UnitsVisited DEF ElabInv
<1>3. item > 0 /\ item <= ItemsIn(Visited) /\ item \in Nat
  BY <1>1, <1>2, ItemCounts DEF ItemInside, ElabInv, Cursor
<1>4. item - Specs(Visited) \in 1..Len(Decl(Visited).instances)
  BY <1>1, <1>2, <1>3, ItemCounts
<1>5. n \in Instances
  BY <1>2, <1>4 DEF Instances, Numbered, CurrentInstance
<1>6. RegisteredArchitecture(n[1])
  BY <1>2 DEF RegisteredArchitecture, CurrentInstance
<1> QED
  BY <1>5, <1>6

(* A step binds one instance, or none. *)
LEMMA BindingSteps ==
  ASSUME ElabInv, ItemInside, Resolve
  PROVE  LET n == CurrentInstance IN
         \/ /\ UNCHANGED <<inst_ref, instantiated_entities>>
            /\ \A p \in {4, 5}, i \in Instances : Seen(p, i)' => Seen(p, i)
         \/ /\ n \in Instances /\ RegisteredArchitecture(n[1])
            /\ \A p \in {4, 5}, i \in Instances :
                 Seen(p, i)' /\ ~Seen(p, i) => pass = p /\ i = n
            /\ \/ ResolveDirectInstantiation \/ ResolveComponentInstantiation
               \/ LinkComponentInstantiation
<1> DEFINE n == CurrentInstance
           Binding == \/ ResolveDirectInstantiation \/ ResolveComponentInstantiation
                      \/ LinkComponentInstantiation
<1>1. \A p \in {4, 5}, i \in Instances :
        Seen(p, i)' /\ ~Seen(p, i) => pass = p /\ i = n /\ Binding
  <2> SUFFICES ASSUME NEW p \in {4, 5}, NEW i \in Instances, Seen(p, i)', ~Seen(p, i)
               PROVE  pass = p /\ i = n /\ Binding
    OBVIOUS
  <2>1. CurrentInstance = i /\ AtInstance(p) /\ item > 0 /\ Handles
    BY PassedByBinding DEF ElabInv
  <2> QED
    BY <2>1, BindsAt DEF ElabInv, AtInstance, Visiting
<1>2. CASE ~Binding
  BY <1>1, <1>2, ReferencesKept
<1>3. CASE Binding
  BY <1>1, <1>3, BindingPlace
<1> QED
  BY <1>2, <1>3


LEMMA BoundInstance ==
  ASSUME ElabInv, CurrentInstance \in Instances,
         \/ ResolveDirectInstantiation \/ ResolveComponentInstantiation
         \/ LinkComponentInstantiation
  PROVE  LET n == CurrentInstance IN
         /\ pass \in {4, 5}
         /\ \E s :
              /\ Binds(n, s)
              /\ pass = 4 /\ ~DefaultBound(n) => s.entity = Wanted(n)
              /\ (pass = 5 \/ DefaultBound(n)) /\ EntityOf(n) # None => s.entity = EntityOf(n)
              /\ pass = 4 \/ NamesCurrent(n, inst_ref[n]) => NamesCurrent(n, s)
<1>1. /\ ResolveDirectInstantiation \/ ResolveComponentInstantiation => pass = 4
      /\ LinkComponentInstantiation => pass = 5
  <2>1. /\ ResolveDirectInstantiation \/ ResolveComponentInstantiation => AtInstance(4)
        /\ LinkComponentInstantiation => AtInstance(5)
    BY Zenon DEF ResolveDirectInstantiation, ResolveComponentInstantiation,
                 LinkComponentInstantiation
  <2> QED
    BY <2>1 DEF AtInstance, Visiting
<1>2. CASE ResolveDirectInstantiation
  BY <1>1, <1>2, DirectBinds DEF DefaultBound
<1>3. CASE ResolveComponentInstantiation
  BY <1>1, <1>3, ComponentBinds DEF NamesCurrent
<1>4. CASE LinkComponentInstantiation
  BY <1>1, <1>4, LinkBinds
<1> QED
  BY <1>2, <1>3, <1>4

(* What a name is resolved to stays the same while the pass is under way. *)
LEMMA WantedStays ==
  ASSUME ElabInv, Resolve
  PROVE  /\ pass = 4 => \A i : Wanted(i)' = Wanted(i)
         /\ \A i, r : NamesCurrent(i, r)' = NamesCurrent(i, r)
<1>1. /\ \A k : At(k)' = At(k)
      /\ \A ek : EntityAt(ek)' = EntityAt(ek)
      /\ \A ck : ConfigurationAt(ck)' = ConfigurationAt(ck)
  BY ResolveIsWithinRegistry, RegistryUntouched DEF ElabInv, EntityAt, ConfigurationAt
<1>2. \A i, r : NamesCurrent(i, r)' = NamesCurrent(i, r)
  BY <1>1 DEF NamesCurrent
<1>3. ASSUME pass = 4, NEW c, IsConfiguration(c) PROVE unit_ref'[c] = unit_ref[c]
  <2>1. CASE Refers
    <3>1. KindOf(Visited) \in {"architecture", "package_body"}
      BY <1>3, <2>1 DEF Refers, ResolvePackageInstantiation, ResolveConfiguration,
           ResolveArchitecture, ResolvePackageBody, AtHead, Visiting, IsKind
    <3>2. Visited # c
      BY <1>3, <3>1 DEF IsConfiguration, IsKind
    <3> QED
      BY <1>3, <2>1, <3>2, RefersTo DEF ElabInv, Known, IsConfiguration
  <2> QED
    BY <2>1, ReferencesKept
<1>4. ASSUME pass = 4 PROVE \A lib, b : BoundTo(lib, b)' = BoundTo(lib, b)
  BY <1>1, <1>3, <1>4, FoundConfiguration DEF BoundTo, ElabInv
<1> QED
  BY <1>2, <1>4 DEF Wanted

--------------------------------------------------------------------------------
(* The inductive invariant of a run.  The resolver may give an instance it  *)
(* has been at other references when it comes again, but not another        *)
(* entity: a default binding sticks and any other is what is wanted.        *)
NamesSoFar == \A i \in Instances : Seen(4, i) => NamesCurrent(i, inst_ref[i])

TopsSoFar ==
  /\ pass \in 1..3 => instantiated_entities = {}
  /\ pass \in {4, 5} =>
       \A e \in instantiated_entities :
         /\ e # None
         /\ \E i \in Instances :
              EntityOf(i) = e /\ (pass = 4 /\ ~DefaultBound(i) => e = Wanted(i))
  /\ \A i \in Instances : EntityOf(i) # None => RegisteredArchitecture(i[1])
  /\ \A i \in Instances : Seen(5, i) => EntityOf(i) \in instantiated_entities \cup {None}

RunInv == ElabInv /\ ItemInside /\ NamesSoFar /\ TopsSoFar

LEMMA NamesSoFarStep ==
  ASSUME RunInv, Resolve
  PROVE  NamesSoFar'
<1> USE DEF RunInv
<1> DEFINE n == CurrentInstance
<1>1. \A i, r : NamesCurrent(i, r)' = NamesCurrent(i, r)
  BY WantedStays
<1>2. CASE /\ UNCHANGED <<inst_ref, instantiated_entities>>
           /\ \A p \in {4, 5}, i \in Instances : Seen(p, i)' => Seen(p, i)
  <2>1. \A i \in Instances : Seen(4, i)' => NamesCurrent(i, inst_ref'[i])
    BY <1>2 DEF NamesSoFar
  <2> QED
    BY <1>1, <2>1 DEF NamesSoFar
<1>3. CASE /\ n \in Instances
           /\ \A p \in {4, 5}, i \in Instances :
                Seen(p, i)' /\ ~Seen(p, i) => pass = p /\ i = n
           /\ \/ ResolveDirectInstantiation \/ ResolveComponentInstantiation
              \/ LinkComponentInstantiation
  <2>1. PICK s : /\ Binds(n, s)
                 /\ pass = 4 \/ NamesCurrent(n, inst_ref[n]) => NamesCurrent(n, s)
    BY <1>3, BoundInstance
  <2>2. DOMAIN inst_ref = Instances
    BY DEF ElabInv, InstancesFit
  <2>3. inst_ref'[n] = s /\ \A i \in Instances : i # n => inst_ref'[i] = inst_ref[i]
    BY <1>3, <2>1, <2>2 DEF Binds
  <2> HIDE DEF n
  <2>4. \A i \in Instances : Seen(4, i)' => NamesCurrent(i, inst_ref'[i])
    BY <1>3, <2>1, <2>3 DEF NamesSoFar
  <2> QED
    BY <1>1, <2>4 DEF NamesSoFar
<1> QED
  BY <1>2, <1>3, BindingSteps

LEMMA PassStep ==
  ASSUME RunInv, Resolve
  PROVE  /\ pass \in 1..5
         /\ pass' = pass \/ pass' = (IF pass = 5 THEN 0 ELSE pass + 1)
BY ResolveSteps, ResolveIsWithinRegistry
   DEF RunInv, ElabInv, Cursor, EndPass, SkipUnit, Handles, Advance

LEMMA TopsSoFarStep ==
  ASSUME RunInv, Resolve
  PROVE  TopsSoFar'
<1> USE DEF RunInv
<1> DEFINE n == CurrentInstance
<1>1. /\ \A a : RegisteredArchitecture(a)' = RegisteredArchitecture(a)
      /\ pass = 4 => \A i : Wanted(i)' = Wanted(i)
  BY ResolveIsWithinRegistry, RegistryUntouched, WantedStays DEF ElabInv
<1>2. /\ pass \in 1..5
      /\ pass' = pass \/ pass' = (IF pass = 5 THEN 0 ELSE pass + 1)
  BY PassStep
<1>3. CASE /\ UNCHANGED <<inst_ref, instantiated_entities>>
           /\ \A p \in {4, 5}, i \in Instances : Seen(p, i)' => Seen(p, i)
  <2>1. \A i : EntityOf(i)' = EntityOf(i)
    BY <1>3 DEF EntityOf
  <2> QED
    BY <1>1, <1>2, <1>3, <2>1 DEF TopsSoFar
<1>4. CASE /\ n \in Instances /\ RegisteredArchitecture(n[1])
           /\ \A p \in {4, 5}, i \in Instances :
                Seen(p, i)' /\ ~Seen(p, i) => pass = p /\ i = n
           /\ \/ ResolveDirectInstantiation \/ ResolveComponentInstantiation
              \/ LinkComponentInstantiation
  <2>0. PICK m \in Instances : m = CurrentInstance
    BY <1>4
  <2>1. PICK s :
          /\ Binds(m, s)
          /\ pass = 4 /\ ~DefaultBound(m) => s.entity = Wanted(m)
          /\ (pass = 5 \/ DefaultBound(m)) /\ EntityOf(m) # None => s.entity = EntityOf(m)
    BY <1>4, <2>0, BoundInstance
  <2>2. pass \in {4, 5}
    BY <1>4, BoundInstance
  <2>3. DOMAIN inst_ref = Instances
    BY DEF ElabInv, InstancesFit
  <2>4. /\ EntityOf(m)' = s.entity
        /\ \A i \in Instances : i # m => EntityOf(i)' = EntityOf(i)
        /\ instantiated_entities' = instantiated_entities \cup ({s.entity} \ {None})
    BY <2>1, <2>3 DEF Binds, EntityOf
  <2>5. pass' = pass
    BY <1>4, Zenon DEF ResolveDirectInstantiation, ResolveComponentInstantiation,
         LinkComponentInstantiation, LookupStep, Step, Advance
  <2>6. ASSUME NEW e \in instantiated_entities'
        PROVE  /\ e # None
               /\ \E i \in Instances :
                    EntityOf(i)' = e /\ (pass' = 4 /\ ~DefaultBound(i) => e = Wanted(i)')
    <3>1. CASE e = s.entity /\ e # None
      BY <1>1, <2>1, <2>4, <2>5, <3>1
    <3>2. CASE e \in instantiated_entities
      <4>1. PICK i \in Instances :
              EntityOf(i) = e /\ (pass = 4 /\ ~DefaultBound(i) => e = Wanted(i))
        BY <2>2, <3>2 DEF TopsSoFar
      <4>2. e # None
        BY <2>2, <3>2 DEF TopsSoFar
      <4>3. i = m => s.entity = e
        BY <2>1, <2>2, <4>1, <4>2
      <4> QED
        BY <1>1, <2>4, <2>5, <4>1, <4>2, <4>3
    <3> QED
      BY <2>4, <3>1, <3>2
  <2>7. \A i \in Instances : EntityOf(i)' # None => RegisteredArchitecture(i[1])'
    BY <1>1, <1>4, <2>0, <2>4 DEF TopsSoFar
  <2>8. \A i \in Instances :
          Seen(5, i)' => EntityOf(i)' \in instantiated_entities' \cup {None}
    BY <1>4, <2>0, <2>4 DEF TopsSoFar
  <2> QED
    BY <2>2, <2>5, <2>6, <2>7, <2>8 DEF TopsSoFar
<1> QED
  BY <1>3, <1>4, BindingSteps


(* Between the runs nothing is bound, and nothing counts as seen. *)
LEMMA OutsideTheRun ==
  ASSUME RunInv, Adds \/ ResolveReferences
  PROVE  NamesSoFar' /\ TopsSoFar'
<1> USE DEF RunInv
<1>1. [Next]_vars /\ inst_ref' = inst_ref
  BY DEF Adds, ResolveReferences, elabVars, refVars
<1>2. CASE pass = 0 /\ pass' \in {0, 1} /\ (pass' = 1 => instantiated_entities' = {})
  <2>1. \A p \in {4, 5} : \A i : ~Seen(p, i)'
    BY <1>2 DEF Seen, Behind
  <2>2. \A i \in Instances : EntityOf(i)' # None => RegisteredArchitecture(i[1])'
    BY <1>1, NamesStay DEF TopsSoFar, EntityOf, ElabInv, Registry
  <2> QED
    BY <1>2, <2>1, <2>2 DEF NamesSoFar, TopsSoFar
<1>3. CASE UNCHANGED allVars
  <2> USE DEF allVars, vars, callVars, registryVars, mapVars, unitVars, elabVars,
              cursorVars, refVars
  <2>1. \A k : At(k)' = At(k)
    BY <1>3, RegistryUntouched DEF ElabInv
  <2>2. /\ \A ek : EntityAt(ek)' = EntityAt(ek)
        /\ \A ck : ConfigurationAt(ck)' = ConfigurationAt(ck)
    BY <2>1 DEF EntityAt, ConfigurationAt
  <2>3. \A p, i : Seen(p, i)' = Seen(p, i)
    BY <1>3 DEF Seen, Behind
  <2>4. \A i, r : NamesCurrent(i, r)' = NamesCurrent(i, r)
    BY <2>1, <2>2 DEF NamesCurrent
  <2>5. \A lib, b : BoundTo(lib, b)' = BoundTo(lib, b)
    BY <1>3, <2>2 DEF BoundTo
  <2>6. \A i : Wanted(i)' = Wanted(i)
    BY <2>5 DEF Wanted
  <2>7. NamesSoFar'
    BY <1>3, <2>3, <2>4 DEF NamesSoFar
  <2>8. \A i : /\ EntityOf(i)' = EntityOf(i)
               /\ RegisteredArchitecture(i[1])' = RegisteredArchitecture(i[1])
    BY <1>3 DEF EntityOf, RegisteredArchitecture
  <2>9. TopsSoFar'
    BY <1>3, <2>3, <2>6, <2>8 DEF TopsSoFar
  <2> QED
    BY <2>7, <2>9
<1> QED
  BY <1>2, <1>3 DEF Adds, ResolveReferences, allVars, elabVars, cursorVars, refVars

LEMMA RunInitInv == Init /\ ElabInit => RunInv
<1> SUFFICES ASSUME Init, ElabInit PROVE RunInv
  OBVIOUS
<1>1. ElabInv
  BY ElabInitInv
<1>2. ItemInside /\ NamesSoFar
  BY DEF ElabInit, ItemInside, NamesSoFar, Seen, Behind
<1>3. TopsSoFar
  BY DEF ElabInit, TopsSoFar, Seen, Behind, EntityOf, Unbound
<1> QED
  BY <1>1, <1>2, <1>3 DEF RunInv

LEMMA RunInvStep == RunInv /\ [ElabNext]_allVars => RunInv'
<1> SUFFICES ASSUME RunInv, [ElabNext]_allVars PROVE RunInv'
  OBVIOUS
<1>1. Adds \/ ResolveReferences \/ Resolve
  BY ElabSteps
<1>2. ElabInv' /\ ItemInside'
  BY <1>1, ElabInvStep, ItemInsideStep DEF RunInv, ElabInv
<1>3. NamesSoFar' /\ TopsSoFar'
  BY <1>1, OutsideTheRun, NamesSoFarStep, TopsSoFarStep
<1> QED
  BY <1>2, <1>3 DEF RunInv

(* In the end of a run both passes have been at every analysed instance. *)
LEMMA AllSeen ==
  ASSUME RunInv, Resolved, NEW i \in Instances, RegisteredArchitecture(i[1])
  PROVE  Seen(4, i) /\ Seen(5, i)
<1>1. PICK n \in DOMAIN secondary_units : secondary_units[n] = i[1]
  BY DEF RegisteredArchitecture
<1>2. secondary_units \in Seq(Registrable) /\ at \in Nat
  BY DEF RunInv, ElabInv, Registry, RegistryInv, RegistryTypeOK, Cursor
<1>3. n < at
  BY <1>2 DEF Resolved, PassUnits
<1> QED
  BY <1>1, <1>3 DEF Resolved, Seen, Behind

(* get_top_modules is right: when a run ends, the entities it collected on  *)
(* its way through two passes are those that instances are bound to, and    *)
(* what earlier runs have left on the AST does not count.                   *)
THEOREM TopsExact == ElabSpec => []TopModulesExact
<1>1. ASSUME RunInv, Resolved
      PROVE  instantiated_entities = {EntityOf(i) : i \in Instances} \ {None}
  <2>1. pass = 5
    BY <1>1 DEF Resolved
  <2>2. ASSUME NEW e \in instantiated_entities
        PROVE  e \in {EntityOf(i) : i \in Instances} \ {None}
    BY <1>1, <2>1, <2>2 DEF RunInv, TopsSoFar
  <2>3. ASSUME NEW i \in Instances, EntityOf(i) # None
        PROVE  EntityOf(i) \in instantiated_entities
    <3>1. RegisteredArchitecture(i[1])
      BY <1>1, <2>3 DEF RunInv, TopsSoFar
    <3> QED
      BY <1>1, <2>3, <3>1, AllSeen DEF RunInv, TopsSoFar
  <2> QED
    BY <2>2, <2>3
<1>2. RunInv => TopModulesExact
  BY <1>1 DEF TopModulesExact
<1> QED
  BY <1>2, RunInitInv, RunInvStep, PTL DEF ElabSpec

(* An instance that names its entity or configuration refers, after each    *)
(* run, to what the name stands for then: an earlier run that found less,   *)
(* or an earlier default architecture, leaves no trace.                     *)
THEOREM DirectCurrent == ElabSpec => []DirectBindingsAreCurrent
<1>1. ASSUME RunInv, Resolved, NEW i \in Analysed
      PROVE  NamesCurrent(i, inst_ref[i])
  <2>1. i \in Instances /\ RegisteredArchitecture(i[1])
    BY PlaceOfInstance DEF Analysed, RegisteredArchitecture
  <2> QED
    BY <1>1, <2>1, AllSeen DEF RunInv, NamesSoFar
<1>2. ASSUME NEW i \in Analysed, NamesCurrent(i, inst_ref[i])
      PROVE  LET d == InstanceOf(i)
                 lib == LibOf(i[1])
             IN  CASE d.unit_kind = "entity" ->
                        /\ EntityOf(i) = Find("entity", lib, d.name)
                        /\ ArchitectureOf(i) = At(NameKey("architecture", lib, d.name, d.arch))
                   [] d.unit_kind = "configuration" ->
                        inst_ref[i].configuration = Find("configuration", lib, d.name)
                   [] OTHER -> TRUE
  BY <1>2, FindIsAt DEF NamesCurrent, EntityOf, ArchitectureOf, NameKey
<1>3. RunInv => DirectBindingsAreCurrent
  BY <1>1, <1>2 DEF DirectBindingsAreCurrent
<1> QED
  BY <1>3, RunInitInv, RunInvStep, PTL DEF ElabSpec

--------------------------------------------------------------------------------
(* Pass by pass. *)

UnitsOfPass(p) == IF p <= 3 THEN primary_units ELSE secondary_units

(* Pass p of this run has been at the head of its n-th unit, and at the     *)
(* j-th item of it.                                                         *)
HeadPassed(p, n) ==
  pass > p \/ (pass = p /\ (n < at \/ (n = at /\ item > 0)))
ItemPassed(p, n, j) ==
  pass > p \/ (pass = p /\ (n < at \/ (n = at /\ j < item)))

(* A step that passes the head of a unit is at it. *)
LEMMA HeadPassedBy ==
  ASSUME Registry, Cursor, Resolve, NEW p \in 1..5, NEW n \in DOMAIN UnitsOfPass(p),
         IsKind(UnitsOfPass(p)[n], Handled[p]), HeadPassed(p, n)', ~HeadPassed(p, n)
  PROVE  pass = p /\ at = n /\ item = 0 /\ Visited = UnitsOfPass(p)[n] /\ Handles
<1>1. /\ primary_units \in Seq(Unit) /\ secondary_units \in Seq(Registrable)
      /\ at \in Nat \ {0} /\ item \in Nat /\ pass \in 1..5
  BY ResolveIsWithinRegistry DEF Registry, RegistryInv, RegistryTypeOK, Cursor
<1>2. n \in 1..Len(UnitsOfPass(p)) /\ UnitsOfPass(pass) = PassUnits
  BY <1>1 DEF UnitsOfPass, PassUnits
<1>3. n \in Nat /\ Len(PassUnits) \in Nat /\ Len(UnitsOfPass(p)) \in Nat
  BY <1>1, <1>2 DEF UnitsOfPass, PassUnits
<1>4. ~EndPass
  <2> SUFFICES ASSUME EndPass PROVE FALSE
    OBVIOUS
  <2>1. at > Len(PassUnits) /\ at' = 1 /\ item' = item /\ item = 0
    BY <1>1, <1>3 DEF EndPass, Cursor
  <2>2. pass' > p
    BY <1>1, <1>2, <1>3, <2>1 DEF EndPass, HeadPassed
  <2>3. pass = p
    BY <1>1, <2>2 DEF EndPass, HeadPassed
  <2> QED
    BY <1>1, <1>2, <1>3, <2>1, <2>3 DEF HeadPassed
<1>5. pass' = pass /\ pass = p
  <2>1. pass' = pass
    BY <1>4, ResolveSteps DEF SkipUnit, Handles, Advance
  <2> QED
    BY <1>1, <2>1 DEF HeadPassed
<1>6. ~SkipUnit
  <2> SUFFICES ASSUME SkipUnit PROVE FALSE
    OBVIOUS
  <2>1. item = 0 /\ item' = 0 /\ at' = at + 1 /\ ~IsKind(Visited, Handled[pass])
    BY DEF SkipUnit, Cursor
  <2>2. n = at
    BY <1>1, <1>3, <1>5, <2>1 DEF HeadPassed
  <2> QED
    BY <1>2, <1>5, <2>1, <2>2 DEF Visited
<1>7. Handles
  BY <1>4, <1>6, ResolveSteps
<1>8. (item' = item + 1 /\ at' = at) \/ (item' = 0 /\ at' = at + 1)
  BY <1>7 DEF Handles, Advance
<1>9. n = at /\ item = 0
  BY <1>1, <1>3, <1>5, <1>8 DEF HeadPassed
<1> QED
  BY <1>2, <1>5, <1>7, <1>9 DEF Visited

(* What is done at the head of a unit. *)
LEMMA HeadActions ==
  ASSUME Registry, Cursor, Resolve, Handles, item = 0, pass \in 1..4
  PROVE  \/ pass = 1 /\ ResolvePackage
         \/ pass = 2 /\ ResolveContext
         \/ /\ pass = 3
            /\ \/ ResolveEntity \/ ResolvePackageInstantiation
               \/ ResolveConfiguration \/ ResolveContextReference
         \/ pass = 4 /\ (ResolveArchitecture \/ ResolvePackageBody)
<1>1. ~EndPass /\ ~SkipUnit
  BY DEF EndPass, SkipUnit, Handles, PassUnits, Cursor, Registry, RegistryInv, RegistryTypeOK
<1>2. ASSUME pass = 4, IsKind(Visited, {"architecture"})
      PROVE  Specs(Visited) \in Nat
  <2>1. Visited \in UnitsOfKind({"architecture", "configuration"})
    BY <1>2, UnitsVisited DEF Handles, UnitsOfKind, IsKind
  <2> QED
    BY <2>1, ItemsAssumption DEF Specs
<1>3. ~AtInstance(4)
  BY <1>2 DEF AtInstance, Visiting
<1>4. ~ResolveDirectInstantiation /\ ~ResolveComponentInstantiation
  BY <1>3 DEF ResolveDirectInstantiation, ResolveComponentInstantiation
<1>5. /\ ~ResolveComponentConfiguration /\ ~EnterArchitecture
      /\ ~LinkComponentInstantiation /\ ~ResolveConfigurationSpecification
  BY <1>2 DEF ResolveComponentConfiguration, EnterArchitecture, LinkComponentInstantiation,
       ResolveConfigurationSpecification, AtHead, AtInstance, Visiting
<1>6. /\ ResolvePackage => pass = 1
      /\ ResolveContext => pass = 2
      /\ ResolveEntity \/ ResolvePackageInstantiation \/ ResolveConfiguration
           \/ ResolveContextReference => pass = 3
      /\ ResolveArchitecture \/ ResolvePackageBody => pass = 4
  BY DEF ResolvePackage, ResolveContext, ResolveEntity, ResolvePackageInstantiation,
       ResolveConfiguration, ResolveContextReference, ResolveArchitecture,
       ResolvePackageBody, AtHead, Visiting
<1> QED
  BY <1>1, <1>4, <1>5, <1>6 DEF Resolve

--------------------------------------------------------------------------------
(* The use clauses a unit is given are use clauses, and only a unit that is *)
(* registered is given any.                                                 *)
Clauses == UnitsOfKind({"use_clause"})
Listed(u) ==
  IF IsKind(u, PrimaryKinds) THEN \E n \in DOMAIN primary_units : primary_units[n] = u
  ELSE \E n \in DOMAIN secondary_units : secondary_units[n] = u
ScopesGiven ==
  /\ use_clauses \in [Caller -> Seq(Clauses)]
  /\ packages_in_scope \in [Registrable -> Seq(Clauses)]
  /\ \A u \in Registrable : packages_in_scope[u] # <<>> => Listed(u)

LEMMA ListedStays ==
  ASSUME RegistryInv, [Next]_vars, NEW u, Listed(u)
  PROVE  Listed(u)'
<1>1. primary_units \in Seq(Unit) /\ secondary_units \in Seq(Registrable)
  BY DEF RegistryInv, RegistryTypeOK
<1>2. /\ UNCHANGED primary_units \/ \E w \in Unit : primary_units' = Append(primary_units, w)
      /\ UNCHANGED secondary_units
           \/ \E w \in Registrable : secondary_units' = Append(secondary_units, w)
  BY StepCases DEF Quiet, RegistersPrimary, RegistersSecondary, Registrable
<1>3. CASE IsKind(u, PrimaryKinds)
  <2>1. PICK n \in DOMAIN primary_units : primary_units[n] = u
    BY <1>3 DEF Listed
  <2>2. ASSUME NEW w \in Unit, primary_units' = Append(primary_units, w)
        PROVE  n \in DOMAIN primary_units' /\ primary_units'[n] = u
    BY <1>1, <2>1, <2>2
  <2>3. n \in DOMAIN primary_units' /\ primary_units'[n] = u
    BY <1>2, <2>1, <2>2
  <2> QED
    BY <1>3, <2>3 DEF Listed
<1>4. CASE ~IsKind(u, PrimaryKinds)
  <2>1. PICK n \in DOMAIN secondary_units : secondary_units[n] = u
    BY <1>4 DEF Listed
  <2>2. n \in DOMAIN secondary_units' /\ secondary_units'[n] = u
    BY <1>1, <1>2, <2>1
  <2> QED
    BY <1>4, <2>2 DEF Listed
<1> QED
  BY <1>3, <1>4

LEMMA ScopesStep == RegistryInv /\ ScopesGiven /\ [Next]_vars => ScopesGiven'
<1> SUFFICES ASSUME RegistryInv, ScopesGiven, [Next]_vars PROVE ScopesGiven'
  OBVIOUS
<1> USE DEF registryVars, unitVars
<1>1. ASSUME UNCHANGED packages_in_scope, use_clauses' \in [Caller -> Seq(Clauses)]
      PROVE  ScopesGiven'
  BY <1>1, ListedStays DEF ScopesGiven
<1>2. ASSUME NEW c \in Caller, NEW u \in Registrable, BringIntoScope(c, u),
             Listed(u)', UNCHANGED use_clauses
      PROVE  ScopesGiven'
  <2>1. packages_in_scope[u] \o use_clauses[c] \in Seq(Clauses)
    BY DEF ScopesGiven
  <2>2. packages_in_scope' \in [Registrable -> Seq(Clauses)]
    BY <1>2, <2>1 DEF ScopesGiven, BringIntoScope
  <2>3. \A w \in Registrable : w # u => packages_in_scope'[w] = packages_in_scope[w]
    BY <1>2 DEF ScopesGiven, BringIntoScope
  <2> QED
    BY <1>2, <2>2, <2>3, ListedStays DEF ScopesGiven
<1>3. primary_units \in Seq(Unit) /\ secondary_units \in Seq(Registrable)
  BY DEF RegistryInv, RegistryTypeOK
<1>4. CASE UNCHANGED vars
  BY <1>1, <1>4 DEF vars, callVars, ScopesGiven
<1>5. ASSUME NEW c \in Caller, NEW arg \in FileSets, Call(c, arg) PROVE ScopesGiven'
  BY <1>1, <1>5 DEF Call, ScopesGiven
<1>6. ASSUME NEW c \in Caller,
             \/ Lock(c) \/ SkipNullFile(c) \/ AddLibraryClause(c) \/ Return(c)
             \/ AddContextReference(c)
      PROVE  ScopesGiven'
  BY <1>1, <1>6 DEF Lock, SkipNullFile, AddLibraryClause, Return, AddContextReference,
                    NextUnit, ScopesGiven
<1>7. ASSUME NEW c \in Caller, OpenFile(c) PROVE ScopesGiven'
  <2>1. use_clauses' \in [Caller -> Seq(Clauses)]
    BY <1>7 DEF OpenFile, ScopesGiven
  <2> QED
    BY <1>1, <1>7, <2>1 DEF OpenFile
<1>8. ASSUME NEW c \in Caller, AddUseClause(c) PROVE ScopesGiven'
  <2>1. CurrentUnit(c) \in Clauses
    BY <1>8, CurrentUnitIsUnit DEF AddUseClause, AtUnit, Clauses, UnitsOfKind
  <2>2. use_clauses' \in [Caller -> Seq(Clauses)]
    BY <1>8, <2>1 DEF AddUseClause, ScopesGiven
  <2> QED
    BY <1>1, <1>8, <2>2 DEF AddUseClause
<1>9. ASSUME NEW c \in Caller, AddPrimaryUnit(c) PROVE ScopesGiven'
  <2>1. PICK u \in Registrable : u = CurrentUnit(c) /\ IsKind(u, PrimaryKinds)
    BY <1>9, CurrentUnitIsUnit DEF AddPrimaryUnit, AtUnit, RegisteredKinds
  <2>2. primary_units' = Append(primary_units, u) /\ u \in Unit
    BY <1>9, <2>1 DEF AddPrimaryUnit, Registrable
  <2>3. Len(primary_units) + 1 \in DOMAIN primary_units'
        /\ primary_units'[Len(primary_units) + 1] = u
    BY <1>3, <2>2
  <2>4. Listed(u)'
    BY <2>1, <2>3 DEF Listed
  <2> QED
    BY <1>2, <1>9, <2>1, <2>4 DEF AddPrimaryUnit, NextUnit
<1>10. ASSUME NEW c \in Caller, AddArchitecture(c) \/ AddPackageBody(c) PROVE ScopesGiven'
  <2>1. IsKind(CurrentUnit(c), SecondaryKinds) /\ unit[c] > 0
    BY <1>10 DEF AddArchitecture, AddPackageBody, AtUnit, IsKind, SecondaryKinds
  <2>2. PICK u \in Registrable : u = CurrentUnit(c) /\ ~IsKind(u, PrimaryKinds)
    BY <2>1, CurrentUnitIsUnit DEF IsKind, RegisteredKinds, PrimaryKinds, SecondaryKinds
  <2>3. secondary_units' = Append(secondary_units, u)
    BY <1>10, <2>2 DEF AddArchitecture, AddPackageBody
  <2>4. Len(secondary_units) + 1 \in DOMAIN secondary_units'
        /\ secondary_units'[Len(secondary_units) + 1] = u
    BY <1>3, <2>3
  <2>5. Listed(u)'
    BY <2>2, <2>4 DEF Listed
  <2> QED
    BY <1>2, <1>10, <2>2, <2>5 DEF AddArchitecture, AddPackageBody, NextUnit
<1> QED
  BY <1>4, <1>5, <1>6, <1>7, <1>8, <1>9, <1>10 DEF Next, Add

--------------------------------------------------------------------------------
(* A clause is resolved once and for all: what it refers to is what its     *)
(* name stood for, and that the name stands for it still.                   *)
PackageNamed(c) == At(NameKey("package", "", NameIn(c), ""))
ClauseSound(c) ==
  \/ clause_ref[c] = Unresolved
  \/ /\ clause_ref[c].package = PackageNamed(c)
     /\ PackageNamed(c) # None
Selects(c) == c \in UsedPackages /\ c[1] \in Holders /\ Len(NameIn(c)) > 2
ClausesSound ==
  /\ clause_ref = [c \in UsedPackages |-> clause_ref[c]]
  /\ \A c : Selects(c) => ClauseSound(c)
ClauseFound(c) == clause_ref[c].package = PackageNamed(c)

(* A step of a run resolves some clauses, or none. *)
LEMMA ClausesOnlySettle ==
  ASSUME Resolve
  PROVE  UNCHANGED clause_ref \/ \E holders : ResolveUseClauses(holders)
<1>1. \A holders, misses : Step(holders, misses) => ResolveUseClauses(holders)
  BY DEF Step
<1>2. EndPass \/ SkipUnit \/ EnterArchitecture => UNCHANGED clause_ref
  BY DEF EndPass, SkipUnit, EnterArchitecture, refVars
<1>3. ResolvePackage \/ ResolveEntity \/ ResolveContext \/ ResolveContextReference
        => \E holders : ResolveUseClauses(holders)
  BY <1>1 DEF ResolvePackage, ResolveEntity, ResolveScope, ResolveContext,
              ResolveContextReference, ResolveContextNames
<1>4. Refers => \E holders : ResolveUseClauses(holders)
  BY <1>1 DEF Refers, ResolvePackageInstantiation, ResolveConfiguration,
              ResolveArchitecture, ResolvePackageBody, Refer
<1>5. ResolvesItem => \E holders : ResolveUseClauses(holders)
  BY <1>1, Zenon DEF ResolvesItem, ResolveComponentConfiguration,
                     ResolveConfigurationSpecification, ResolveItem, LookupStep
<1>6. ResolveDirectInstantiation \/ ResolveComponentInstantiation
        => \E holders : ResolveUseClauses(holders)
  BY <1>1, Zenon DEF ResolveDirectInstantiation, ResolveComponentInstantiation, LookupStep
<1>7. LinkComponentInstantiation => \E holders : ResolveUseClauses(holders)
  BY <1>1, Zenon DEF LinkComponentInstantiation
<1> QED
  BY <1>2, <1>3, <1>4, <1>5, <1>6, <1>7 DEF Resolve, Refers, ResolvesItem

LEMMA NamesAreSequences ==
  /\ \A c : Selects(c) => NameIn(c) \in Seq(STRING)
  /\ \A h \in Holders : \A i \in DOMAIN ClausesOf(h) :
       <<h, i>> \in UsedPackages /\ NameIn(<<h, i>>) = ClausesOf(h)[i]
<1>1. UseStd \notin Unit
  BY FilesAssumption DEF UseStd, Unit
<1>2. \A h \in Holders : ClausesOf(h) \in Seq(Seq(STRING))
  BY <1>1, ClausesAssumption DEF ClausesOf, Holders, UnitsOfKind
<1>3. ASSUME NEW h \in Holders, NEW i \in DOMAIN ClausesOf(h)
      PROVE  <<h, i>> \in UsedPackages /\ NameIn(<<h, i>>) = ClausesOf(h)[i]
  <2>1. i \in 1..Len(ClausesOf(h))
    BY <1>2
  <2> QED
    BY <2>1 DEF UsedPackages, Numbered, NameIn
<1>4. ASSUME NEW c, Selects(c) PROVE NameIn(c) \in Seq(STRING)
  <2>1. PICK h \in Holders \cup {UseStd} : \E i \in 1..Len(ClausesOf(h)) : c = <<h, i>>
    BY <1>4 DEF UsedPackages, Numbered, Selects
  <2>2. PICK i \in 1..Len(ClausesOf(h)) : c = <<h, i>>
    BY <2>1
  <2>3. h \in Holders /\ NameIn(c) = ClausesOf(h)[i]
    BY <1>4, <2>2 DEF Selects, NameIn
  <2> QED
    BY <1>2, <2>2, <2>3
<1> QED
  BY <1>3, <1>4

LEMMA TargetIsNamed ==
  ASSUME NEW c \in DOMAIN clause_ref, Selects(c)
  PROVE  /\ Target[c].package = PackageNamed(c)
         /\ PackageNamed(c) = None => Target[c] = Unresolved
<1> DEFINE parts == NameIn(c)
           p == Find("package", "", parts)
<1>1. ~(Len(parts) < 2) /\ Len(parts) # 2
  <2>1. parts \in Seq(STRING) /\ Len(parts) > 2
    BY NamesAreSequences DEF Selects
  <2> HIDE DEF parts
  <2>2. Len(parts) \in Nat
    BY <2>1
  <2>3. \A n \in Nat : n > 2 => ~(n < 2) /\ n # 2
    OBVIOUS
  <2> QED
    BY <2>1, <2>2, <2>3, Zenon
<1>2. Target[c] = [package |-> p, selected |-> IF Last(parts) = "all" THEN None
                                                ELSE LookupInPackage(p, parts[3])]
  BY <1>1 DEF Target
<1>3. p = PackageNamed(c)
  BY DEF Find, PackageNamed
<1>4. p = None => LookupInPackage(p, parts[3]) = None
  BY DEF LookupInPackage
<1> HIDE DEF p, parts
<1> QED
  BY <1>2, <1>3, <1>4 DEF Unresolved

(* Within a run, a clause that is sound stays so, and one that is resolved  *)
(* is found.                                                                *)
LEMMA ClauseStep ==
  ASSUME Registry, ClausesSound, Resolve, NEW c, Selects(c)
  PROVE  /\ ClauseSound(c)'
         /\ ClauseFound(c) => ClauseFound(c)'
         /\ \A holders : ResolveUseClauses(holders) /\ (\E n \in DOMAIN holders : holders[n] = c[1])
              => ClauseFound(c)'
<1>1. PackageNamed(c)' = PackageNamed(c)
  BY ResolveIsWithinRegistry, RegistryUntouched DEF PackageNamed
<1>2. c \in DOMAIN clause_ref /\ ClauseSound(c)
  BY DEF Selects, ClausesSound
<1>3. ASSUME clause_ref'[c] = clause_ref[c]
      PROVE  ClauseSound(c)' /\ (ClauseFound(c) => ClauseFound(c)')
  BY <1>1, <1>2, <1>3 DEF ClauseSound, ClauseFound
<1>4. Unresolved.package = None
  BY DEF Unresolved
<1>5. ASSUME clause_ref'[c] = Settled[c]
      PROVE  ClauseSound(c)' /\ ClauseFound(c)'
  <2>1. CASE clause_ref[c] = Unresolved
    <3>1. clause_ref'[c] = Target[c]
      BY <1>2, <1>5, <2>1 DEF Settled
    <3>2. ClauseFound(c)'
      BY <1>1, <1>2, <3>1, TargetIsNamed DEF ClauseFound
    <3> QED
      BY <1>1, <1>2, <3>1, <3>2, TargetIsNamed DEF ClauseFound, ClauseSound
  <2>2. CASE clause_ref[c] # Unresolved
    <3>1. clause_ref'[c] = clause_ref[c]
      BY <1>2, <1>5, <2>2 DEF Settled
    <3> QED
      BY <1>1, <1>2, <2>2, <3>1 DEF ClauseFound, ClauseSound
  <2> QED
    BY <2>1, <2>2
<1>6. ASSUME NEW holders, ResolveUseClauses(holders)
      PROVE  IF \E n \in DOMAIN holders : holders[n] = c[1] THEN clause_ref'[c] = Settled[c]
             ELSE clause_ref'[c] = clause_ref[c]
  BY <1>2, <1>6 DEF ResolveUseClauses
<1>7. ClauseSound(c)' /\ (ClauseFound(c) => ClauseFound(c)')
  BY <1>3, <1>5, <1>6, ClausesOnlySettle
<1> QED
  BY <1>5, <1>6, <1>7

LEMMA ClausesSoundStep ==
  ASSUME Registry, ClausesSound, Adds \/ ResolveReferences \/ Resolve
  PROVE  ClausesSound'
<1>1. ASSUME [Next]_vars, UNCHANGED clause_ref PROVE ClausesSound'
  <2>1. \A c : PackageNamed(c) # None => PackageNamed(c)' = PackageNamed(c)
    BY <1>1, NamesStay DEF PackageNamed, NameKey, Registry
  <2> QED
    BY <1>1, <2>1 DEF ClausesSound, ClauseSound, Selects
<1>2. Adds => [Next]_vars /\ UNCHANGED clause_ref
  BY DEF Adds, elabVars, refVars
<1>3. ResolveReferences => [Next]_vars /\ UNCHANGED clause_ref
  BY DEF ResolveReferences
<1>4. CASE Resolve
  <2>1. \A c : Selects(c) => ClauseSound(c)'
    BY <1>4, ClauseStep
  <2>2. clause_ref' = [c \in UsedPackages |-> clause_ref'[c]]
    BY <1>4, ClausesOnlySettle DEF ClausesSound, ResolveUseClauses
  <2> QED
    BY <2>1, <2>2 DEF ClausesSound, Selects
<1> QED
  BY <1>1, <1>2, <1>3, <1>4

--------------------------------------------------------------------------------
(* A pass that has been at the head of a unit has found the packages of the *)
(* use clauses above it.                                                    *)
ScopeFound(u) ==
  \A m \in DOMAIN packages_in_scope[u] :
  \A i \in DOMAIN ClausesOf(packages_in_scope[u][m]) :
    LET c == <<packages_in_scope[u][m], i>> IN
    Selects(c) => ClauseFound(c)

Scoped(p) == Handled[p] \cap (RegisteredKinds \ {"context"})
FoundSoFar ==
  \A p \in 1..4 : \A n \in DOMAIN UnitsOfPass(p) :
    LET u == UnitsOfPass(p)[n] IN
    u \in Registrable /\ IsKind(u, Scoped(p)) /\ HeadPassed(p, n) => ScopeFound(u)

PassInv == ElabInv /\ ScopesGiven /\ ClausesSound /\ FoundSoFar

LEMMA ScopeFoundStays ==
  ASSUME Registry, ClausesSound, Resolve, NEW u, ScopeFound(u)
  PROVE  ScopeFound(u)'
<1>1. packages_in_scope' = packages_in_scope
  BY ResolveIsWithinRegistry DEF unitVars
<1> QED
  BY <1>1, ClauseStep DEF ScopeFound, Selects

(* The step at the head of a unit resolves them all. *)
LEMMA HeadFinds ==
  ASSUME Registry, Cursor, ScopesGiven, ClausesSound, Resolve, Handles, item = 0,
         pass \in 1..4, NEW u \in Registrable, u = Visited, IsKind(u, Scoped(pass))
  PROVE  ScopeFound(u)'
<1>2. packages_in_scope[u] \in Seq(Clauses) /\ UNCHANGED packages_in_scope
  BY ResolveIsWithinRegistry DEF ScopesGiven, unitVars
<1> DEFINE uses == UnitUseClauses(u)
<1>3. PICK holders \in {uses, uses \o <<u>>} : ResolveUseClauses(holders)
  <2>1. uses = uses \o <<>>
    BY <1>2 DEF UnitUseClauses
  <2>2. \A hs, misses : Step(hs, misses) => ResolveUseClauses(hs)
    BY DEF Step
  <2>3. ~ResolveContext /\ ~ResolveContextReference
    BY DEF ResolveContext, ResolveContextReference, AtHead, Visiting, IsKind, Scoped,
           RegisteredKinds, PrimaryKinds, SecondaryKinds
  <2>4. ResolvePackage \/ ResolveEntity => ResolveUseClauses(uses)
    BY <2>2 DEF ResolvePackage, ResolveEntity, ResolveScope
  <2>5. ResolvePackageInstantiation \/ ResolveArchitecture \/ ResolvePackageBody
          => ResolveUseClauses(uses \o <<>>)
    BY <2>2 DEF ResolvePackageInstantiation, ResolveArchitecture, ResolvePackageBody, Refer
  <2>6. ResolveConfiguration => ResolveUseClauses(uses \o <<u>>)
    BY <2>2 DEF ResolveConfiguration, Refer
  <2> QED
    BY <2>1, <2>3, <2>4, <2>5, <2>6, HeadActions
<1>4. ASSUME NEW m \in DOMAIN packages_in_scope[u]
      PROVE  m \in DOMAIN holders /\ holders[m] = packages_in_scope[u][m]
  <2>1. /\ uses \in Seq(Unit \cup {UseStd})
        /\ m \in DOMAIN uses /\ uses[m] = packages_in_scope[u][m]
    BY <1>2 DEF UnitUseClauses, Clauses, UnitsOfKind
  <2>2. Len(<<u>>) = 1 /\ <<u>> \in Seq(Unit \cup {UseStd})
    BY DEF Registrable
  <2> HIDE DEF uses
  <2> QED
    BY <2>1, <2>2
<1> QED
  BY <1>2, <1>3, <1>4, ClauseStep DEF ScopeFound, Selects

LEMMA FoundSoFarStep ==
  ASSUME Registry, Cursor, ScopesGiven, ClausesSound, FoundSoFar,
         Adds \/ ResolveReferences \/ Resolve
  PROVE  FoundSoFar'
<1> USE DEF HeadPassed, UnitsOfPass, callVars, mapVars, unitVars
<1>1. CASE Adds
  <2>1. UNCHANGED <<pass, at, item, clause_ref>>
    BY <1>1 DEF Adds, elabVars, cursorVars, refVars
  <2>2. CASE pass = 0
    BY <2>1, <2>2 DEF FoundSoFar
  <2>3. CASE UNCHANGED vars
    <3>1. \A c : PackageNamed(c)' = PackageNamed(c)
      BY <2>3, RegistryUntouched DEF vars, registryVars, PackageNamed
    <3> QED
      BY <2>1, <2>3, <3>1 DEF FoundSoFar, ScopeFound, ClauseFound, vars, registryVars
  <2> QED
    BY <1>1, <2>2, <2>3 DEF Adds
<1>2. CASE ResolveReferences
  <2>1. pass' = 1 /\ at' = 1 /\ item' = 0
    BY <1>2 DEF ResolveReferences, Cursor
  <2>2. \A p \in 1..4 : \A n \in Nat \ {0} : ~HeadPassed(p, n)'
    BY <2>1
  <2>3. primary_units' \in Seq(Unit) /\ secondary_units' \in Seq(Registrable)
    BY <1>2 DEF ResolveReferences, vars, registryVars, Registry, RegistryInv, RegistryTypeOK
  <2>4. \A p \in 1..4 : \A n \in DOMAIN UnitsOfPass(p)' : n \in Nat \ {0}
    BY <2>3
  <2> QED
    BY <2>2, <2>4 DEF FoundSoFar
<1>3. CASE Resolve
  <2>1. UNCHANGED <<primary_units, secondary_units>>
    BY <1>3, ResolveIsWithinRegistry
  <2> SUFFICES ASSUME NEW p \in 1..4, NEW n \in DOMAIN UnitsOfPass(p),
                      NEW u \in Registrable, u = UnitsOfPass(p)[n],
                      IsKind(u, Scoped(p)), HeadPassed(p, n)'
               PROVE  ScopeFound(u)'
    BY <2>1 DEF FoundSoFar
  <2>2. CASE HeadPassed(p, n)
    <3>1. ScopeFound(u)
      BY <2>2 DEF FoundSoFar
    <3> QED
      BY <1>3, <3>1, ScopeFoundStays
  <2>3. CASE ~HeadPassed(p, n)
    <3>1. IsKind(UnitsOfPass(p)[n], Handled[p])
      BY DEF IsKind, Scoped
    <3>2. pass = p /\ item = 0 /\ Visited = u /\ Handles
      BY <1>3, <2>3, <3>1, HeadPassedBy
    <3> QED
      BY <1>3, <3>2, HeadFinds
  <2> QED
    BY <2>2, <2>3
<1> QED
  BY <1>1, <1>2, <1>3

LEMMA PassInitInv == Init /\ ElabInit => PassInv
<1> SUFFICES ASSUME Init, ElabInit PROVE PassInv
  OBVIOUS
<1>1. ScopesGiven
  BY DEF Init, ScopesGiven
<1>2. ClausesSound
  BY DEF ElabInit, ClausesSound, ClauseSound, Selects
<1>3. FoundSoFar
  BY DEF ElabInit, FoundSoFar, HeadPassed
<1> QED
  BY <1>1, <1>2, <1>3, ElabInitInv DEF PassInv

LEMMA PassInvStep == PassInv /\ [ElabNext]_allVars => PassInv'
<1> SUFFICES ASSUME PassInv, [ElabNext]_allVars PROVE PassInv'
  OBVIOUS
<1>1. Adds \/ ResolveReferences \/ Resolve
  BY ElabSteps
<1>2. Registry /\ Cursor /\ ScopesGiven /\ ClausesSound /\ FoundSoFar
  BY DEF PassInv, ElabInv
<1>3. ElabInv'
  BY ElabInvStep DEF PassInv
<1>4. ClausesSound' /\ FoundSoFar'
  BY <1>1, <1>2, ClausesSoundStep, FoundSoFarStep
<1>5. [Next]_vars => ScopesGiven'
  BY <1>2, ScopesStep DEF Registry
<1>6. Resolve => ScopesGiven'
  BY <1>2, ResolveIsWithinRegistry DEF ScopesGiven, Listed, callVars, unitVars
<1>7. ScopesGiven'
  BY <1>1, <1>5, <1>6 DEF Adds, ResolveReferences
<1> QED
  BY <1>3, <1>4, <1>7 DEF PassInv

(* After a run, a used package that is registered by now is found, however  *)
(* often its clause was tried in vain before: resolve_use_clause passes     *)
(* over a clause only where its package was found, and a name that stands   *)
(* for a package stands for it for good.                                    *)
THEOREM PackagesFound == ElabSpec => []UsedPackagesAreFound
<1>1. ASSUME PassInv PROVE UsedPackagesAreFound
  <2> SUFFICES ASSUME Resolved,
                      NEW u \in Registrable \ UnitsOfKind({"context"}),
                      NEW n \in DOMAIN packages_in_scope[u],
                      NEW i \in DOMAIN ClausesOf(packages_in_scope[u][n]),
                      Len(ClausesOf(packages_in_scope[u][n])[i]) > 2
               PROVE  clause_ref[<<packages_in_scope[u][n], i>>].package
                        = Find("package", "", ClausesOf(packages_in_scope[u][n])[i])
    BY DEF UsedPackagesAreFound
  <2> DEFINE h == packages_in_scope[u][n]
             c == <<h, i>>
  <2>1. packages_in_scope[u] \in Seq(Clauses) /\ Listed(u)
    BY <1>1 DEF PassInv, ScopesGiven
  <2>2. h \in Holders
    BY <2>1 DEF Clauses, UnitsOfKind, IsKind, Holders
  <2>3. Selects(c) /\ NameIn(c) = ClausesOf(h)[i]
    BY <2>2, NamesAreSequences DEF Selects
  <2>4. ScopeFound(u)
    <3>1. KindOf(u) \in RegisteredKinds \ {"context"}
      BY DEF Registrable, UnitsOfKind, IsKind
    <3>2. PICK p \in 1..4 : /\ IsKind(u, Scoped(p))
                            /\ \E m \in DOMAIN UnitsOfPass(p) : UnitsOfPass(p)[m] = u
      <4>1. CASE KindOf(u) = "package"
        BY <2>1, <4>1 DEF IsKind, Scoped, Handled, Listed, UnitsOfPass, RegisteredKinds,
                          PrimaryKinds, SecondaryKinds
      <4>2. CASE KindOf(u) \in {"entity", "package_instantiation", "configuration"}
        BY <2>1, <4>2 DEF IsKind, Scoped, Handled, Listed, UnitsOfPass, RegisteredKinds,
                          PrimaryKinds, SecondaryKinds
      <4>3. CASE KindOf(u) \in {"architecture", "package_body"}
        BY <2>1, <4>3 DEF IsKind, Scoped, Handled, Listed, UnitsOfPass, RegisteredKinds,
                          PrimaryKinds, SecondaryKinds
      <4> QED
        BY <3>1, <4>1, <4>2, <4>3 DEF RegisteredKinds, PrimaryKinds, SecondaryKinds
    <3>3. PICK m \in DOMAIN UnitsOfPass(p) : UnitsOfPass(p)[m] = u
      BY <3>2
    <3>4. HeadPassed(p, m)
      BY DEF Resolved, HeadPassed
    <3> QED
      BY <1>1, <3>2, <3>3, <3>4 DEF PassInv, FoundSoFar
  <2>5. ClauseFound(c)
    BY <2>3, <2>4 DEF ScopeFound
  <2> QED
    BY <2>3, <2>5 DEF ClauseFound, PackageNamed, Find
<1> QED
  BY <1>1, PassInitInv, PassInvStep, PTL DEF ElabSpec

--------------------------------------------------------------------------------
(* Where the resolver has been at a configuration in this run, it knows its *)
(* entity; and an indication it has resolved since, if that names the       *)
(* configuration, has that entity.                                          *)
ConfigurationsDone ==
  \A n \in DOMAIN primary_units :
    LET c == primary_units[n] IN
    IsConfiguration(c) /\ HeadPassed(3, n) => unit_ref[c] = EntityAt(ConfiguredKey(c))

(* The pass that resolves the indications of a unit. *)
PassOf(u) == IF IsKind(u, {"configuration"}) THEN 3 ELSE 4
BoundBy(p, n, b) ==
  LET c == binding_ref[b].configuration IN
  /\ c # None /\ UnitsOfPass(p)[n] = b[1] /\ ItemPassed(p, n, b[2])
  /\ p = 3 => \E m \in DOMAIN primary_units : m < n /\ primary_units[m] = c
BindingsSoFar ==
  \A b \in Bindings :
    /\ binding_ref[b].configuration # None => Listed(b[1])
    /\ \A n \in DOMAIN UnitsOfPass(PassOf(b[1])) :
         BoundBy(PassOf(b[1]), n, b) =>
           binding_ref[b].entity = EntityAt(ConfiguredKey(binding_ref[b].configuration))

LEMMA PlaceOfBinding ==
  ASSUME NEW b \in Bindings
  PROVE  /\ b = <<b[1], b[2]>> /\ b[1] \in Registrable
         /\ b[2] \in 1..Len(Decl(b[1]).items) /\ Len(Decl(b[1]).items) \in Nat
         /\ \/ KindOf(b[1]) = "configuration" /\ PassOf(b[1]) = 3
            \/ KindOf(b[1]) = "architecture" /\ PassOf(b[1]) = 4
<1>1. PICK u \in UnitsOfKind({"architecture", "configuration"}) :
        \E j \in 1..Len(Decl(u).items) : b = <<u, j>>
  BY DEF Bindings, Numbered
<1>2. u \in Registrable /\ KindOf(u) \in {"architecture", "configuration"}
  BY DEF UnitsOfKind, IsKind, Registrable, RegisteredKinds, PrimaryKinds, SecondaryKinds
<1>3. Len(Decl(u).items) \in Nat
  BY ItemsAssumption
<1> QED
  BY <1>1, <1>2, <1>3 DEF PassOf, IsKind

(* The configuration that is found is one of the primary units. *)
LEMMA ConfigurationListed ==
  ASSUME Registry, NEW ck, ConfigurationAt(ck) # None
  PROVE  \E n \in DOMAIN primary_units : primary_units[n] = ConfigurationAt(ck)
<1> DEFINE k == <<"configuration", ck, "">>
<1>1. k \in Key /\ ConfigurationAt(ck) = by_key[k] /\ by_key[k] # None
  BY ByKeyDomain DEF ConfigurationAt, At
<1>2. UnitsOf(k) = primary_units
  BY DEF UnitsOf, PrimaryKinds
<1> QED
  BY <1>1, <1>2, FoundUnit

LEMMA ConfigurationsDoneStep ==
  ASSUME Registry, Cursor, Known, ConfigurationsDone, Adds \/ ResolveReferences \/ Resolve
  PROVE  ConfigurationsDone'
<1> USE DEF HeadPassed, callVars, mapVars, unitVars
<1>1. CASE Adds
  <2>1. UNCHANGED <<pass, at, item, unit_ref>>
    BY <1>1 DEF Adds, elabVars, cursorVars, refVars
  <2>2. CASE pass = 0
    BY <2>1, <2>2 DEF ConfigurationsDone
  <2>3. CASE UNCHANGED vars
    <3>1. \A ek : EntityAt(ek)' = EntityAt(ek)
      BY <2>3, ResolvingKeepsMeaning DEF vars, registryVars
    <3> QED
      BY <2>1, <2>3, <3>1 DEF ConfigurationsDone, vars, registryVars
  <2> QED
    BY <1>1, <2>2, <2>3 DEF Adds
<1>2. CASE ResolveReferences
  BY <1>2 DEF ResolveReferences, ConfigurationsDone
<1>3. CASE Resolve
  <2>1. primary_units' = primary_units /\ \A ek : EntityAt(ek)' = EntityAt(ek)
    BY <1>3, ResolveIsWithinRegistry, ResolvingKeepsMeaning
  <2>2. \A c : IsConfiguration(c) => unit_ref'[c] \in {unit_ref[c], EntityAt(ConfiguredKey(c))}
    BY <1>3, UnitRefStep
  <2> SUFFICES ASSUME NEW n \in DOMAIN primary_units, NEW c, c = primary_units[n],
                      IsConfiguration(c), HeadPassed(3, n)', ~HeadPassed(3, n)
               PROVE  unit_ref'[c] = EntityAt(ConfiguredKey(c))
    BY <2>1, <2>2 DEF ConfigurationsDone
  <2>3. UnitsOfPass(3) = primary_units /\ IsKind(c, Handled[3])
    BY DEF UnitsOfPass, Handled, IsConfiguration, IsKind
  <2>4. pass = 3 /\ item = 0 /\ Visited = c /\ Handles
    BY <1>3, <2>3, HeadPassedBy
  <2>5. ResolveConfiguration
    <3>1. KindOf(Visited) = "configuration"
      BY <2>4 DEF IsConfiguration, IsKind
    <3>2. ~ResolveEntity /\ ~ResolvePackageInstantiation /\ ~ResolveContextReference
      BY <3>1 DEF ResolveEntity, ResolvePackageInstantiation, ResolveContextReference,
                  AtHead, Visiting, IsKind
    <3> QED
      BY <1>3, <2>4, <3>2, HeadActions
  <2>6. unit_ref' = [unit_ref EXCEPT ![c] = EntityAt(ConfiguredKey(c))]
    BY <2>4, <2>5, FindIsAt DEF ResolveConfiguration, Refer, ConfiguredKey
  <2> QED
    BY <2>6 DEF Known, IsConfiguration
<1> QED
  BY <1>1, <1>2, <1>3

(* A pass goes by an indication only by the step that resolves it. *)
LEMMA ItemPassedBy ==
  ASSUME Registry, Cursor, Resolve, NEW b \in Bindings, NEW p, p = PassOf(b[1]),
         NEW n \in DOMAIN UnitsOfPass(p), UnitsOfPass(p)[n] = b[1],
         ItemPassed(p, n, b[2])', ~ItemPassed(p, n, b[2])
  PROVE  ResolveItem(b) /\ Handles /\ pass = p
<1> DEFINE u == b[1]
           j == b[2]
<1>1. /\ primary_units \in Seq(Unit) /\ secondary_units \in Seq(Registrable)
      /\ at \in Nat \ {0} /\ item \in Nat /\ pass \in 1..5 /\ p \in {3, 4}
  BY ResolveIsWithinRegistry, PlaceOfBinding DEF Registry, RegistryInv, RegistryTypeOK, Cursor
<1>2. n \in 1..Len(UnitsOfPass(p)) /\ Len(UnitsOfPass(p)) \in Nat
      /\ UnitsOfPass(pass) = PassUnits
  BY <1>1 DEF UnitsOfPass, PassUnits
<1>3. b = <<u, j>> /\ j \in 1..Len(Decl(u).items) /\ Len(Decl(u).items) \in Nat
      /\ u \in Unit
      /\ \/ p = 3 /\ KindOf(u) = "configuration"
         \/ p = 4 /\ KindOf(u) = "architecture"
  BY PlaceOfBinding DEF PassOf, Registrable
<1>4. j \in Nat \ {0}
  BY <1>3
<1>5. pass = p => ItemsIn(u) \in Nat /\ j <= ItemsIn(u)
  <2>1. CASE p = 3
    BY <1>3, <2>1 DEF ItemsIn, IsKind
  <2>2. CASE p = 4 /\ pass = p
    <3>1. u \in Architectures
      BY <1>3, <2>2 DEF Architectures, IsKind
    <3>2. Specs(u) = Len(Decl(u).items)
      BY <2>2 DEF Specs
    <3> HIDE DEF u, j
    <3> QED
      BY <1>3, <1>4, <3>1, <3>2, ItemCounts
  <2> QED
    BY <1>1, <2>1, <2>2
<1> HIDE DEF u, j
<1>6. /\ pass' > p \/ (pass' = p /\ (n < at' \/ (n = at' /\ j < item')))
      /\ ~(pass > p) /\ (pass = p => ~(n < at) /\ ~(n = at /\ j < item))
  BY DEF ItemPassed, j
<1>7. ~EndPass
  <2> SUFFICES ASSUME EndPass PROVE FALSE
    OBVIOUS
  <2>1. at > Len(PassUnits) /\ at' = 1 /\ item' = 0
    BY <1>1, <1>2 DEF EndPass, Cursor
  <2>2. pass' > p /\ pass = p
    BY <1>1, <1>2, <1>4, <1>6, <2>1 DEF EndPass
  <2> QED
    BY <1>1, <1>2, <1>6, <2>1, <2>2
<1>8. pass' = pass /\ pass = p
  <2>1. pass' = pass
    BY <1>7, ResolveSteps DEF SkipUnit, Handles, Advance
  <2> QED
    BY <1>1, <1>6, <2>1
<1>9. ~SkipUnit
  <2> SUFFICES ASSUME SkipUnit PROVE FALSE
    OBVIOUS
  <2>1. item = 0 /\ item' = 0 /\ at' = at + 1 /\ ~IsKind(Visited, Handled[pass])
    BY DEF SkipUnit, Cursor
  <2>2. n = at
    BY <1>1, <1>2, <1>4, <1>6, <1>8, <2>1
  <2>3. Visited = u
    BY <1>2, <1>8, <2>2 DEF Visited, u
  <2> QED
    BY <1>3, <1>8, <2>1, <2>3 DEF Handled, IsKind
<1>10. Handles
  BY <1>7, <1>9, ResolveSteps
<1>11. IF item < ItemsIn(Visited) THEN item' = item + 1 /\ at' = at
       ELSE item' = 0 /\ at' = at + 1
  BY <1>10 DEF Handles, Advance
<1>12. n = at
  BY <1>1, <1>2, <1>4, <1>6, <1>8, <1>11
<1>13. Visited = u
  BY <1>2, <1>8, <1>12 DEF Visited, u
<1>14. item = j
  BY <1>1, <1>2, <1>4, <1>5, <1>6, <1>8, <1>11, <1>12, <1>13
<1>15. ResolvesItem
  <2>1. item # 0
    BY <1>4, <1>14
  <2>2. /\ ~ResolvePackage /\ ~ResolveContext /\ ~ResolveEntity
        /\ ~ResolvePackageInstantiation /\ ~ResolveConfiguration
        /\ ~ResolveContextReference /\ ~ResolveArchitecture
        /\ ~ResolvePackageBody /\ ~EnterArchitecture
    BY <2>1 DEF ResolvePackage, ResolveContext, ResolveEntity, ResolvePackageInstantiation,
         ResolveConfiguration, ResolveContextReference, ResolveArchitecture,
         ResolvePackageBody, EnterArchitecture, AtHead
  <2>3. ~AtInstance(5)
    BY <1>1, <1>8 DEF AtInstance, Visiting
  <2>4. ~AtInstance(4)
    <3>1. pass = 4 => Specs(Visited) = Len(Decl(u).items)
      BY <1>13 DEF Specs
    <3>2. ~(item > Len(Decl(u).items))
      BY <1>3, <1>14
    <3> QED
      BY <3>1, <3>2 DEF AtInstance, Visiting
  <2>5. ~ResolveDirectInstantiation /\ ~ResolveComponentInstantiation
        /\ ~LinkComponentInstantiation
    BY <2>3, <2>4, Zenon DEF ResolveDirectInstantiation, ResolveComponentInstantiation,
                             LinkComponentInstantiation
  <2> QED
    BY <1>7, <1>9, <2>2, <2>5 DEF Resolve, ResolvesItem
<1>16. ResolveItem(<<Visited, item>>)
  BY <1>15 DEF ResolvesItem, ResolveComponentConfiguration, ResolveConfigurationSpecification
<1> QED
  BY <1>3, <1>8, <1>10, <1>13, <1>14, <1>16

(* What a step may write into an indication. *)
Resolves(b, r) ==
  /\ IsRef(r)
  /\ binding_ref'[b] = ResolveBinding(LibOf(b[1]), BindingOf(b), r)

LEMMA ItemWrites ==
  ASSUME BindingsOwned, NEW b \in Bindings, NEW d, ResolveItem(d)
  PROVE  \/ d = b /\ \E r : Resolves(b, r)
         \/ d # b /\ binding_ref'[b] = binding_ref[b]
<1>1. PICK s : binding_ref' = [binding_ref EXCEPT ![d] =
                 ResolveBinding(LibOf(d[1]), BindingOf(d),
                                [@ EXCEPT !.component = AsComponent(s.found)])]
  BY Zenon DEF ResolveItem, BindingOf
<1>2. CASE d # b
  BY <1>1, <1>2 DEF BindingsOwned
<1>3. CASE d = b
  <2> DEFINE r == [binding_ref[b] EXCEPT !.component = AsComponent(s.found)]
  <2>1. IsRef(binding_ref[b]) /\ IsRef(r)
    BY ComponentAside DEF BindingsOwned, Owned
  <2> HIDE DEF r
  <2>2. binding_ref' = [binding_ref EXCEPT ![b] =
                          ResolveBinding(LibOf(b[1]), BindingOf(b), r)]
    BY <1>1, <1>3 DEF r
  <2> QED
    BY <1>3, <2>1, <2>2 DEF BindingsOwned, Resolves
<1> QED
  BY <1>2, <1>3

LEMMA BindingWritten ==
  ASSUME Registry, Cursor, BindingsOwned, Resolve, NEW b \in Bindings,
         binding_ref'[b] # binding_ref[b]
  PROVE  /\ \E r : Resolves(b, r)
         /\ Handles /\ b[1] = Visited /\ pass = PassOf(b[1])
<1>1. CASE ResolvesItem
  <2>1. ResolveItem(<<Visited, item>>)
    BY <1>1 DEF ResolvesItem, ResolveComponentConfiguration, ResolveConfigurationSpecification
  <2>2. b = <<Visited, item>> /\ \E r : Resolves(b, r)
    BY <2>1, ItemWrites
  <2>3. \/ Visiting(3, {"configuration"})
        \/ Visiting(4, {"architecture"})
    BY <1>1 DEF ResolvesItem, ResolveComponentConfiguration, ResolveConfigurationSpecification
  <2>4. Handles
    <3>1. Advance
      BY <2>1, Zenon DEF ResolveItem, LookupStep, Step
    <3> QED
      BY <2>3, <3>1 DEF Handles, Visiting, Handled, IsKind
  <2> QED
    BY <2>2, <2>3, <2>4 DEF Visiting, PassOf, IsKind
<1>2. CASE ResolveComponentInstantiation
  <2> DEFINE n == CurrentInstance
             d == <<n[1], Min(Matching(n[1], Decl(n[1]).instances[n[2]]))>>
  <2>1. binding_ref' = binding_ref
        \/ binding_ref' = [binding_ref EXCEPT ![d] =
             ResolveBinding(LibOf(d[1]), BindingOf(d), binding_ref[d])]
    BY <1>2, Zenon DEF ResolveComponentInstantiation, BindingOf
  <2> HIDE DEF d
  <2>2. b = d
    BY <2>1 DEF BindingsOwned
  <2>3. IsRef(binding_ref[b])
    BY DEF BindingsOwned, Owned
  <2>4. Resolves(b, binding_ref[b])
    BY <2>1, <2>2, <2>3 DEF BindingsOwned, Resolves
  <2>5. AtInstance(4) /\ b[1] = Visited
    BY <1>2, <2>2, Zenon DEF ResolveComponentInstantiation, d, CurrentInstance
  <2>6. Advance
    BY <1>2, Zenon DEF ResolveComponentInstantiation, LookupStep, Step
  <2> QED
    BY <2>4, <2>5, <2>6 DEF AtInstance, Visiting, PassOf, IsKind, Handles, Handled
<1> QED
  BY <1>1, <1>2, ReferencesKept

(* An indication that has been resolved to a configuration has the entity   *)
(* the configuration has by then.                                           *)
LEMMA ConfigurationBound ==
  ASSUME Registry, BindingsOwned', Resolve, NEW b \in Bindings, NEW r, Resolves(b, r),
         NEW c, c = binding_ref'[b].configuration, c # None
  PROVE  /\ IsConfiguration(c) /\ \E m \in DOMAIN primary_units : primary_units[m] = c
         /\ binding_ref'[b].entity = unit_ref[c]
<1> DEFINE lib == LibOf(b[1])
           d == BindingOf(b)
<1>0. PICK s : s = binding_ref'[b]
  OBVIOUS
<1>1. Owned(lib, d, s)'
  BY <1>0 DEF BindingsOwned
<1>2. Owned(lib, d, s)
  BY <1>1, ResolveIsWithinRegistry, ResolvingKeepsMeaning
<1>3. d.aspect = "configuration"
  BY <1>0, <1>2, AspectsAreKnown DEF Owned, Aspects
<1>4. /\ c = ConfigurationAt(LibraryAndDesignName(lib, d.name))
      /\ s.entity = unit_ref[c]
  <2> DEFINE ck == LibraryAndDesignName(lib, d.name)
             found == ConfigurationAt(ck)
  <2>1. s = [component |-> r.component,
             entity |-> IF found = None THEN r.entity ELSE unit_ref[found],
             architecture |-> r.architecture, configuration |-> found]
    BY <1>0, <1>3, BindsConfiguration, FindIsAt DEF Resolves
  <2> HIDE DEF found
  <2>2. s.configuration = found /\ (found # None => s.entity = unit_ref[found])
    BY <2>1
  <2>3. c = s.configuration
    BY <1>0
  <2> QED
    BY <2>2, <2>3 DEF found
<1> QED
  BY <1>0, <1>4, FoundConfiguration, ConfigurationListed

LEMMA ListedWhileVisited ==
  ASSUME Registry, Cursor, NEW b \in Bindings, pass > 0, at <= Len(PassUnits),
         b[1] = Visited, pass = PassOf(b[1])
  PROVE  Listed(b[1])
<1>1. primary_units \in Seq(Unit) /\ secondary_units \in Seq(Registrable) /\ at \in Nat \ {0}
  BY DEF Registry, RegistryInv, RegistryTypeOK, Cursor
<1>2. at \in DOMAIN PassUnits
  BY <1>1 DEF PassUnits
<1> QED
  BY <1>2, PlaceOfBinding DEF Listed, PassUnits, Visited, IsKind, PrimaryKinds

LEMMA BindingsSoFarStep ==
  ASSUME Registry, Cursor, Known, BindingsOwned, BindingsOwned',
         ConfigurationsDone, BindingsSoFar, Adds \/ ResolveReferences \/ Resolve
  PROVE  BindingsSoFar'
<1> USE DEF callVars, mapVars, unitVars
<1>1. ASSUME [Next]_vars, UNCHANGED binding_ref
      PROVE  \A b \in Bindings : binding_ref'[b].configuration # None => Listed(b[1])'
  BY <1>1, ListedStays DEF BindingsSoFar, Registry
<1>2. CASE Adds
  <2>1. UNCHANGED <<pass, at, item, binding_ref>> /\ [Next]_vars
    BY <1>2 DEF Adds, elabVars, cursorVars, refVars
  <2>2. CASE pass = 0
    <3>1. \A b \in Bindings : \A n : ~BoundBy(PassOf(b[1]), n, b)'
      BY <2>1, <2>2, PlaceOfBinding DEF BoundBy, ItemPassed
    <3> QED
      BY <1>1, <2>1, <3>1 DEF BindingsSoFar
  <2>3. CASE UNCHANGED vars
    <3>1. \A ek : EntityAt(ek)' = EntityAt(ek)
      BY <2>3, ResolvingKeepsMeaning DEF vars, registryVars
    <3>2. UNCHANGED <<primary_units, secondary_units>>
      BY <2>3 DEF vars, registryVars
    <3>3. \A p, n, b : BoundBy(p, n, b)' = BoundBy(p, n, b)
      BY <2>1, <3>2 DEF BoundBy, ItemPassed, UnitsOfPass
    <3>4. \A p : UnitsOfPass(p)' = UnitsOfPass(p)
      BY <3>2 DEF UnitsOfPass
    <3> QED
      BY <1>1, <2>1, <3>1, <3>3, <3>4 DEF BindingsSoFar
  <2> QED
    BY <1>2, <2>2, <2>3 DEF Adds
<1>3. CASE ResolveReferences
  <2>1. UNCHANGED binding_ref /\ [Next]_vars /\ pass' = 1
    BY <1>3 DEF ResolveReferences
  <2>2. \A b \in Bindings : \A n : ~BoundBy(PassOf(b[1]), n, b)'
    BY <2>1, PlaceOfBinding DEF BoundBy, ItemPassed
  <2> QED
    BY <1>1, <2>1, <2>2 DEF BindingsSoFar
<1>4. CASE Resolve
  <2>0. /\ primary_units \in Seq(Unit) /\ secondary_units \in Seq(Registrable)
        /\ at \in Nat \ {0} /\ item \in Nat /\ pass \in 1..5
    BY <1>4, ResolveIsWithinRegistry DEF Registry, RegistryInv, RegistryTypeOK, Cursor
  <2>1. UNCHANGED <<primary_units, secondary_units>> /\ \A ek : EntityAt(ek)' = EntityAt(ek)
    BY <1>4, ResolveIsWithinRegistry, ResolvingKeepsMeaning
  <2>2. \A p : UnitsOfPass(p)' = UnitsOfPass(p)
    BY <2>1 DEF UnitsOfPass
  <2>3. ASSUME NEW b \in Bindings, binding_ref'[b].configuration # None
        PROVE  Listed(b[1])'
    <3>1. CASE binding_ref'[b] = binding_ref[b]
      <4>1. Listed(b[1])
        BY <2>3, <3>1 DEF BindingsSoFar
      <4> QED
        BY <2>1, <4>1 DEF Listed
    <3>2. CASE binding_ref'[b] # binding_ref[b]
      <4>1. Listed(b[1])
        BY <1>4, <3>2, BindingWritten, ListedWhileVisited DEF Handles
      <4> QED
        BY <2>1, <4>1 DEF Listed
    <3> QED
      BY <3>1, <3>2
  <2>4. ASSUME NEW b \in Bindings, NEW p, p = PassOf(b[1]), NEW n \in DOMAIN UnitsOfPass(p),
               BoundBy(p, n, b)',
               NEW c, c = binding_ref'[b].configuration
        PROVE  binding_ref'[b].entity = EntityAt(ConfiguredKey(c))
    <3>1. /\ c # None /\ UnitsOfPass(p)[n] = b[1] /\ ItemPassed(p, n, b[2])'
          /\ p = 3 => \E m \in DOMAIN primary_units : m < n /\ primary_units[m] = c
      BY <2>1, <2>2, <2>4 DEF BoundBy
    <3>2. CASE BoundBy(p, n, b) /\ binding_ref'[b] = binding_ref[b]
      BY <2>4, <3>2 DEF BindingsSoFar
    <3>3. CASE binding_ref'[b] = binding_ref[b] /\ ~BoundBy(p, n, b)
               /\ ~\E r : Resolves(b, r)
      <4>1. ~ItemPassed(p, n, b[2])
        BY <2>4, <3>1, <3>3 DEF BoundBy
      <4>2. ResolveItem(b)
        BY <1>4, <2>4, <3>1, <4>1, ItemPassedBy
      <4> QED
        BY <3>3, <4>2, ItemWrites
    <3>4. ASSUME NEW r, Resolves(b, r),
                 binding_ref'[b] = binding_ref[b] => ~BoundBy(p, n, b)
          PROVE  binding_ref'[b].entity = EntityAt(ConfiguredKey(c))
      <4>1. Handles /\ pass = p
        <5>1. CASE binding_ref'[b] # binding_ref[b]
          BY <1>4, <2>4, <5>1, BindingWritten
        <5>2. CASE binding_ref'[b] = binding_ref[b]
          <6>1. ~ItemPassed(p, n, b[2])
            BY <2>4, <3>1, <3>4, <5>2 DEF BoundBy
          <6> QED
            BY <1>4, <2>4, <3>1, <6>1, ItemPassedBy
        <5> QED
          BY <5>1, <5>2
      <4>2. /\ IsConfiguration(c) /\ \E m \in DOMAIN primary_units : primary_units[m] = c
            /\ binding_ref'[b].entity = unit_ref[c]
        BY <1>4, <2>4, <3>1, <3>4, ConfigurationBound
      <4>3. PICK m \in DOMAIN primary_units : primary_units[m] = c /\ HeadPassed(3, m)
        <5>1. CASE p = 4
          BY <4>1, <4>2, <5>1 DEF HeadPassed
        <5>2. CASE p = 3
          <6>1. PICK m \in DOMAIN primary_units : m < n /\ primary_units[m] = c
            BY <3>1, <5>2
          <6>2. m \in Nat /\ n \in Nat /\ b[2] \in Nat
            BY <2>0, <5>2, PlaceOfBinding DEF UnitsOfPass
          <6>3. pass' = 3 /\ (at' = at \/ (at' = at + 1 /\ item' = 0))
            BY <4>1, <5>2 DEF Handles, Advance
          <6>4. n < at' \/ (n = at' /\ b[2] < item')
            BY <3>1, <5>2, <6>3 DEF ItemPassed
          <6>5. m < at
            BY <2>0, <6>1, <6>2, <6>3, <6>4
          <6> QED
            BY <4>1, <5>2, <6>1, <6>5 DEF HeadPassed
        <5> QED
          BY <2>4, <5>1, <5>2, PlaceOfBinding
      <4> QED
        BY <4>2, <4>3 DEF ConfigurationsDone
    <3> QED
      BY <1>4, <3>2, <3>3, <3>4, BindingWritten
  <2> QED
    BY <2>1, <2>2, <2>3, <2>4 DEF BindingsSoFar
<1> QED
  BY <1>2, <1>3, <1>4

BoundInv == PassInv /\ ConfigurationsDone /\ BindingsSoFar

LEMMA BoundInitInv == Init /\ ElabInit => BoundInv
<1> SUFFICES ASSUME Init, ElabInit PROVE BoundInv
  OBVIOUS
<1>1. ConfigurationsDone
  BY DEF ElabInit, ConfigurationsDone, HeadPassed
<1>2. Unbound.configuration = None
  BY DEF Unbound
<1>3. BindingsSoFar
  BY <1>2 DEF ElabInit, BindingsSoFar, BoundBy
<1> QED
  BY <1>1, <1>3, PassInitInv DEF BoundInv

LEMMA BoundInvStep == BoundInv /\ [ElabNext]_allVars => BoundInv'
<1> SUFFICES ASSUME BoundInv, [ElabNext]_allVars PROVE BoundInv'
  OBVIOUS
<1>1. Adds \/ ResolveReferences \/ Resolve
  BY ElabSteps
<1>2. PassInv'
  BY PassInvStep DEF BoundInv
<1>3. Registry /\ Cursor /\ Known /\ BindingsOwned /\ BindingsOwned'
  BY <1>2 DEF BoundInv, PassInv, ElabInv
<1> QED
  BY <1>1, <1>2, <1>3, ConfigurationsDoneStep, BindingsSoFarStep DEF BoundInv

(* After a run, an indication that names a configuration is bound to that   *)
(* configuration's entity: one of an architecture always, one of a          *)
(* configuration if the configuration it names was analysed before it.      *)
THEOREM BindingsAgree == ElabSpec => []ConfigurationBindingsAgree
<1>1. ASSUME BoundInv PROVE ConfigurationBindingsAgree
  <2> SUFFICES ASSUME Resolved, NEW b \in Bindings, NEW c,
                      c = binding_ref[b].configuration, c # None,
                      IsKind(b[1], {"architecture"}) \/ Before(c, b[1])
               PROVE  binding_ref[b].entity = unit_ref[c]
    BY DEF ConfigurationBindingsAgree
  <2> DEFINE p == PassOf(b[1])
  <2>1. Owned(LibOf(b[1]), BindingOf(b), binding_ref[b]) /\ Registry
    BY <1>1 DEF BoundInv, PassInv, ElabInv, BindingsOwned
  <2>2. BindingOf(b).aspect = "configuration"
    BY <2>1, AspectsAreKnown DEF Owned, Aspects
  <2>3. c = ConfigurationAt(LibraryAndDesignName(LibOf(b[1]), BindingOf(b).name))
    BY <2>1, <2>2 DEF Owned, AboutConfiguration
  <2>4. unit_ref[c] = EntityAt(ConfiguredKey(c))
    <3>1. IsConfiguration(c) /\ \E m \in DOMAIN primary_units : primary_units[m] = c
      BY <2>1, <2>3, FoundConfiguration, ConfigurationListed
    <3>2. \A m : HeadPassed(3, m)
      BY DEF Resolved, HeadPassed
    <3> QED
      BY <1>1, <3>1, <3>2 DEF BoundInv, ConfigurationsDone
  <2>5. \A n : ItemPassed(3, n, b[2]) /\ ItemPassed(4, n, b[2])
    BY DEF Resolved, ItemPassed
  <2>6. PICK n \in DOMAIN UnitsOfPass(p) : BoundBy(p, n, b)
    <3>1. CASE KindOf(b[1]) = "architecture" /\ p = 4
      <4>1. PICK n \in DOMAIN secondary_units : secondary_units[n] = b[1]
        BY <1>1, <3>1 DEF BoundInv, BindingsSoFar, Listed, IsKind, PrimaryKinds
      <4> QED
        BY <2>5, <3>1, <4>1 DEF BoundBy, UnitsOfPass
    <3>2. CASE KindOf(b[1]) = "configuration" /\ p = 3
      <4>1. PICK n \in DOMAIN primary_units :
              /\ primary_units[n] = b[1]
              /\ \E m \in DOMAIN primary_units : m < n /\ primary_units[m] = c
        BY <3>2 DEF Before, IsKind
      <4> QED
        BY <2>5, <3>2, <4>1 DEF BoundBy, UnitsOfPass
    <3> QED
      BY <3>1, <3>2, PlaceOfBinding
  <2> QED
    BY <1>1, <2>4, <2>6 DEF BoundInv, BindingsSoFar
<1> QED
  BY <1>1, BoundInitInv, BoundInvStep, PTL DEF ElabSpec

--------------------------------------------------------------------------------
(* The secondary units, the names they refer to another unit by, and the    *)
(* places where they are listed and where pass 4 of this run has been.      *)
Owners == UnitsOfKind({"entity", "package"})
IsSecondary(u) == u \in Registrable /\ IsKind(u, SecondaryKinds)
RefKey(u) ==
  IF IsKind(u, {"architecture"}) THEN <<"entity", EntityKeyOf(u), "">>
  ELSE <<"package", <<LibOf(u), Decl(u).id>>, "">>
PlacesIn(seq, u) == {n \in DOMAIN seq : seq[n] = u}
Places(u) == PlacesIn(secondary_units, u)
Passed(u) == {n \in Places(u) : HeadPassed(4, n)}

LEMMA TimesCounts ==
  ASSUME NEW S, NEW seq \in Seq(S), NEW u
  PROVE  /\ IsFiniteSet(PlacesIn(seq, u))
         /\ Times(u, seq) = Cardinality(PlacesIn(seq, u)) /\ Times(u, seq) \in Nat
         /\ \A w \in S : Times(u, Append(seq, w)) = Times(u, seq) + (IF w = u THEN 1 ELSE 0)
<1>0. \A s : Times(u, s) = Cardinality(PlacesIn(s, u))
  BY DEF Times, PlacesIn
<1>1. DOMAIN seq = 1..Len(seq) /\ Len(seq) \in Nat
  OBVIOUS
<1>2. IsFiniteSet(1..Len(seq))
  BY <1>1, FS_Interval
<1>3. IsFiniteSet(PlacesIn(seq, u))
  BY <1>1, <1>2, FS_Subset DEF PlacesIn
<1>4. Times(u, seq) = Cardinality(PlacesIn(seq, u)) /\ Times(u, seq) \in Nat
  BY <1>0, <1>3, FS_CardinalityType
<1>5. ASSUME NEW w \in S
      PROVE  Times(u, Append(seq, w)) = Times(u, seq) + (IF w = u THEN 1 ELSE 0)
  <2> DEFINE n == Len(seq) + 1
             longer == Append(seq, w)
  <2>1. /\ DOMAIN longer = 1..n /\ longer[n] = w /\ n \notin DOMAIN seq
        /\ \A i \in DOMAIN seq : i \in DOMAIN longer /\ longer[i] = seq[i]
        /\ \A i \in DOMAIN longer : i = n \/ i \in DOMAIN seq
    BY <1>1
  <2>2. n \in DOMAIN longer
    BY <1>1, <2>1
  <2> HIDE DEF longer, n
  <2>3. CASE w = u
    <3>1. PlacesIn(longer, u) = PlacesIn(seq, u) \cup {n} /\ n \notin PlacesIn(seq, u)
      BY <2>1, <2>2, <2>3 DEF PlacesIn
    <3>2. Cardinality(PlacesIn(longer, u)) = Cardinality(PlacesIn(seq, u)) + 1
      BY <1>3, <3>1, FS_AddElement
    <3> QED
      BY <1>0, <2>3, <3>2 DEF longer
  <2>4. CASE w # u
    <3>1. PlacesIn(longer, u) = PlacesIn(seq, u)
      BY <2>1, <2>4 DEF PlacesIn
    <3> QED
      BY <1>0, <1>4, <2>4, <3>1 DEF longer
  <2> QED
    BY <2>3, <2>4
<1> QED
  BY <1>3, <1>4, <1>5

(* Who writes the members, and the references of secondary units. *)
AtSecondary == ResolveArchitecture \/ ResolvePackageBody

LEMMA SecondaryHead ==
  ASSUME Registry, Cursor, Known, AtSecondary
  PROVE  \E v \in Registrable :
           /\ v = Visited /\ IsSecondary(v) /\ at \in Places(v) /\ pass = 4 /\ item = 0
           /\ Handles
           /\ unit_ref' = [unit_ref EXCEPT ![v] = At(RefKey(v))]
           /\ Member(At(RefKey(v)), v)
<1>1. Visiting(4, {"architecture", "package_body"}) /\ item = 0
  BY DEF AtSecondary, ResolveArchitecture, ResolvePackageBody, AtHead, Visiting, IsKind
<1>2. pass = 4 /\ at <= Len(PassUnits)
  BY <1>1 DEF Visiting
<1>3. IsKind(Visited, SecondaryKinds) /\ IsKind(Visited, RegisteredKinds)
  BY <1>1 DEF Visiting, IsKind, SecondaryKinds, RegisteredKinds
<1>4. at \in DOMAIN secondary_units /\ Visited = secondary_units[at] /\ Visited \in Registrable
  BY <1>2, <1>3, UnitsVisited
<1>5. PICK v \in Registrable : v = Visited
  BY <1>4
<1>6. Resolve
  BY DEF AtSecondary, Resolve
<1>7. Handles
  <2>1. Advance
    BY DEF AtSecondary, ResolveArchitecture, ResolvePackageBody, Refer, Step
  <2> QED
    BY <1>1, <2>1 DEF Handles, Visiting, Handled, IsKind
<1>8. CASE ResolveArchitecture
  <2>1. /\ unit_ref' = [unit_ref EXCEPT ![v] = Find("entity", LibOf(v), NameText(Decl(v).primary))]
        /\ Member(Find("entity", LibOf(v), NameText(Decl(v).primary)), v)
        /\ IsKind(v, {"architecture"})
    BY <1>3, <1>5, <1>8 DEF ResolveArchitecture, Refer, AtHead, Visiting
  <2>2. Find("entity", LibOf(v), NameText(Decl(v).primary)) = At(RefKey(v))
    BY <2>1 DEF Find, NameKey, RefKey, EntityKeyOf
  <2> QED
    BY <1>2, <1>3, <1>4, <1>5, <1>7, <1>1, <2>1, <2>2 DEF IsSecondary, Places, PlacesIn
<1>9. CASE ResolvePackageBody
  <2>1. /\ unit_ref' = [unit_ref EXCEPT ![v] = Find("package", LibOf(v), <<Decl(v).id>>)]
        /\ Member(Find("package", LibOf(v), <<Decl(v).id>>), v)
        /\ IsKind(v, {"package_body"})
    BY <1>3, <1>5, <1>9 DEF ResolvePackageBody, Refer, AtHead, Visiting
  <2>2. LibraryAndDesignName(LibOf(v), <<Decl(v).id>>) = <<LibOf(v), Decl(v).id>>
    BY DEF LibraryAndDesignName
  <2>3. Find("package", LibOf(v), <<Decl(v).id>>) = At(RefKey(v))
    BY <2>1, <2>2 DEF Find, NameKey, RefKey, IsKind
  <2> QED
    BY <1>2, <1>3, <1>4, <1>5, <1>7, <1>1, <2>1, <2>3 DEF IsSecondary, Places, PlacesIn
<1> QED
  BY <1>8, <1>9 DEF AtSecondary

LEMMA MembersKept ==
  ASSUME Registry, Cursor, Known, Resolve, ~AtSecondary
  PROVE  /\ UNCHANGED members
         /\ \A u : IsSecondary(u) => unit_ref'[u] = unit_ref[u]
<1>1. UNCHANGED members
  <2>1. EndPass \/ SkipUnit \/ EnterArchitecture => UNCHANGED members
    BY DEF EndPass, SkipUnit, EnterArchitecture, refVars
  <2>2. ResolvePackage \/ ResolveEntity \/ ResolveContext \/ ResolveContextReference
          => UNCHANGED members
    BY DEF ResolvePackage, ResolveEntity, ResolveScope, ResolveContext,
           ResolveContextReference, ResolveContextNames
  <2>3. ResolvesItem => UNCHANGED members
    BY DEF ResolvesItem, ResolveComponentConfiguration,
           ResolveConfigurationSpecification, ResolveItem
  <2>4. ResolveDirectInstantiation \/ ResolveComponentInstantiation \/ LinkComponentInstantiation
          => UNCHANGED members
    BY Zenon DEF ResolveDirectInstantiation, ResolveComponentInstantiation,
                 LinkComponentInstantiation, BindInstance
  <2>5. /\ ResolvePackageInstantiation => IsKind(Visited, {"package_instantiation"})
        /\ ResolveConfiguration => IsKind(Visited, {"configuration"})
    BY DEF ResolvePackageInstantiation, ResolveConfiguration, AtHead, Visiting
  <2>6. ResolvePackageInstantiation \/ ResolveConfiguration => UNCHANGED members
    BY <2>5 DEF ResolvePackageInstantiation, ResolveConfiguration, Refer, IsKind, SecondaryKinds
  <2> QED
    BY <2>1, <2>2, <2>3, <2>4, <2>6 DEF Resolve, AtSecondary, ResolvesItem
<1>2. ASSUME NEW u, IsSecondary(u) PROVE unit_ref'[u] = unit_ref[u]
  <2>1. CASE ResolvePackageInstantiation \/ ResolveConfiguration
    <3>1. Visited # u
      BY <1>2, <2>1 DEF ResolvePackageInstantiation, ResolveConfiguration, AtHead, Visiting,
                        IsSecondary, IsKind, SecondaryKinds
    <3> QED
      BY <2>1, <3>1, <1>2, RefersTo DEF Refers, Known, IsSecondary
  <2> QED
    BY <2>1, ReferencesKept DEF Refers, AtSecondary
<1> QED
  BY <1>1, <1>2

(* In a run, the places pass 4 has been at are those it steps from. *)
LEMMA PassedStep ==
  ASSUME Registry, Cursor, Known, Resolve, NEW u, IsSecondary(u)
  PROVE  /\ Places(u)' = Places(u)
         /\ ~AtSecondary => Passed(u)' = Passed(u) \/ (pass = 5 /\ Passed(u) = Places(u) /\ EndPass)
         /\ AtSecondary => Passed(u)' = IF u = Visited THEN Passed(u) \cup {at} ELSE Passed(u)
         /\ AtSecondary /\ u = Visited => at \notin Passed(u)
<1> USE DEF HeadPassed
<1>1. /\ secondary_units \in Seq(Registrable) /\ UNCHANGED secondary_units
      /\ at \in Nat \ {0} /\ item \in Nat /\ pass \in 1..5
  BY ResolveIsWithinRegistry DEF Registry, RegistryInv, RegistryTypeOK, Cursor, unitVars
<1>2. Places(u)' = Places(u) /\ Places(u) \subseteq Nat
  BY <1>1 DEF Places, PlacesIn
<1>3. \A n \in Places(u) : n \in DOMAIN secondary_units /\ secondary_units[n] = u
  BY DEF Places, PlacesIn
<1>4. CASE AtSecondary
  <2>1. PICK v \in Registrable :
          v = Visited /\ at \in Places(v) /\ pass = 4 /\ item = 0 /\ Handles
    BY <1>4, SecondaryHead
  <2>2. pass' = 4 /\ ((item' = 1 /\ at' = at) \/ (item' = 0 /\ at' = at + 1))
    BY <2>1 DEF Handles, Advance
  <2>3. \A n \in Nat : HeadPassed(4, n)' <=> (HeadPassed(4, n) \/ n = at)
    BY <1>1, <2>1, <2>2
  <2>4. at \in Places(u) <=> u = Visited
    BY <2>1 DEF Places, PlacesIn
  <2>5. ~HeadPassed(4, at)
    BY <1>1, <2>1
  <2> QED
    BY <1>2, <1>4, <2>3, <2>4, <2>5 DEF Passed
<1>5. CASE ~AtSecondary /\ ~(EndPass /\ pass = 5)
  <2>1. ASSUME NEW n \in Places(u), HeadPassed(4, n)', ~HeadPassed(4, n)
        PROVE  FALSE
    <3>1. UnitsOfPass(4)[n] = u /\ n \in DOMAIN UnitsOfPass(4)
      BY <1>3 DEF UnitsOfPass
    <3>2. IsKind(u, Handled[4])
      BY DEF IsSecondary, IsKind, SecondaryKinds, Handled
    <3>3. pass = 4 /\ item = 0 /\ Handles
      BY <2>1, <3>1, <3>2, HeadPassedBy
    <3> QED
      BY <1>5, <3>3, HeadActions DEF AtSecondary
  <2>2. ASSUME NEW n \in Places(u), HeadPassed(4, n) PROVE HeadPassed(4, n)'
    <3>1. n \in Nat /\ n <= Len(secondary_units) /\ Len(secondary_units) \in Nat
      BY <1>1, <1>3
    <3>2. CASE EndPass
      BY <1>1, <1>5, <2>2, <3>1, <3>2 DEF EndPass, PassUnits
    <3>3. CASE SkipUnit
      BY <1>1, <2>2, <3>1, <3>3 DEF SkipUnit, Cursor
    <3>4. CASE Handles
      BY <1>1, <2>2, <3>1, <3>4 DEF Handles, Advance
    <3> QED
      BY <3>2, <3>3, <3>4, ResolveSteps
  <2> QED
    BY <1>2, <1>5, <2>1, <2>2 DEF Passed
<1>6. CASE ~AtSecondary /\ EndPass /\ pass = 5
  BY <1>2, <1>6 DEF Passed
<1> QED
  BY <1>4, <1>5, <1>6, <1>2

(* How often an owner holds a unit: never if it is not the unit that one    *)
(* refers to; else once for every place of this run, and no more than once  *)
(* for every place of it and of the runs before.                            *)
RunsBefore == IF pass = 0 THEN runs ELSE runs - 1
Counts(o, u) ==
  LET held == Times(u, members[o])
      passed == Cardinality(Passed(u))
  IN  /\ unit_ref[u] # o => held = 0
      /\ unit_ref[u] = o => passed <= held
      /\ held <= RunsBefore * Cardinality(Places(u)) + passed

SecondaryRefs ==
  \A u : IsSecondary(u) =>
    /\ unit_ref[u] \in {None, At(RefKey(u))}
    /\ Passed(u) # {} => unit_ref[u] = At(RefKey(u))
MembersOK ==
  /\ runs \in Nat /\ (pass # 0 => runs > 0)
  /\ members \in [Owners -> Seq(Registrable)]
MembersCounted == \A o \in Owners : \A u : IsSecondary(u) => Counts(o, u)

LEMMA NotYetPassed ==
  /\ pass \in {0, 1} => \A u : Passed(u) = {}
  /\ pass' \in {0, 1} => \A u : Passed(u)' = {}
BY DEF Passed, HeadPassed

LEMMA PlacesFinite ==
  ASSUME Registry, NEW u
  PROVE  /\ IsFiniteSet(Places(u)) /\ IsFiniteSet(Passed(u))
         /\ Cardinality(Places(u)) \in Nat /\ Cardinality(Passed(u)) \in Nat
         /\ Cardinality(Places(u)) = Times(u, secondary_units)
<1>1. secondary_units \in Seq(Registrable)
  BY DEF Registry, RegistryInv, RegistryTypeOK
<1>2. /\ IsFiniteSet(Places(u))
      /\ Cardinality(Places(u)) = Times(u, secondary_units)
  BY <1>1, TimesCounts DEF Places
<1>3. IsFiniteSet(Passed(u))
  BY <1>2, FS_Subset DEF Passed
<1> QED
  BY <1>2, <1>3, FS_CardinalityType

LEMMA RunArithmetic ==
  /\ \A a, b, c \in Nat : b <= c => a * b <= a * c
  /\ \A a, b \in Nat : (a + 1) * b = a * b + b /\ a * b \in Nat
OBVIOUS

LEMMA SecondaryRefsStep ==
  ASSUME Registry, Cursor, Known, SecondaryRefs, Adds \/ ResolveReferences \/ Resolve
  PROVE  SecondaryRefs'
<1> USE DEF callVars, mapVars, unitVars
<1>1. \A u : RefKey(u)[1] # "architecture"
  BY DEF RefKey
<1>2. ASSUME [Next]_vars, UNCHANGED unit_ref, NEW u, IsSecondary(u)
      PROVE  unit_ref'[u] \in {None, At(RefKey(u))'}
  BY <1>1, <1>2, NamesStay DEF SecondaryRefs, Registry
<1>3. CASE Adds
  <2>1. UNCHANGED <<pass, at, item, unit_ref>> /\ [Next]_vars
    BY <1>3 DEF Adds, elabVars, cursorVars, refVars
  <2>2. CASE pass = 0
    BY <1>2, <2>1, <2>2, NotYetPassed DEF SecondaryRefs
  <2>3. CASE UNCHANGED vars
    <3>1. \A k : At(k)' = At(k)
      BY <2>3, RegistryUntouched DEF vars, registryVars
    <3>2. \A u : Passed(u)' = Passed(u)
      BY <2>1, <2>3 DEF Passed, Places, PlacesIn, HeadPassed, vars, registryVars
    <3> QED
      BY <2>1, <3>1, <3>2 DEF SecondaryRefs
  <2> QED
    BY <1>3, <2>2, <2>3 DEF Adds
<1>4. CASE ResolveReferences
  <2>1. UNCHANGED unit_ref /\ [Next]_vars /\ pass' = 1
    BY <1>4 DEF ResolveReferences
  <2> QED
    BY <1>2, <2>1, NotYetPassed DEF SecondaryRefs
<1>5. CASE Resolve
  <2>1. \A k : At(k)' = At(k)
    BY <1>5, ResolveIsWithinRegistry, RegistryUntouched
  <2> SUFFICES ASSUME NEW u, IsSecondary(u)
               PROVE  /\ unit_ref'[u] \in {None, At(RefKey(u))}
                      /\ Passed(u)' # {} => unit_ref'[u] = At(RefKey(u))
    BY <2>1 DEF SecondaryRefs
  <2>2. CASE AtSecondary
    <3>1. PICK v \in Registrable :
            v = Visited /\ unit_ref' = [unit_ref EXCEPT ![v] = At(RefKey(v))]
      BY <2>2, SecondaryHead
    <3>2. CASE u = v
      BY <3>1, <3>2 DEF Known
    <3>3. CASE u # v
      <4>1. unit_ref'[u] = unit_ref[u] /\ Passed(u)' = Passed(u)
        BY <1>5, <2>2, <3>1, <3>3, PassedStep DEF Known, IsSecondary
      <4> QED
        BY <4>1 DEF SecondaryRefs
    <3> QED
      BY <3>2, <3>3
  <2>3. CASE ~AtSecondary
    <3>1. unit_ref'[u] = unit_ref[u]
      BY <1>5, <2>3, MembersKept
    <3>2. Passed(u)' = Passed(u) \/ (pass = 5 /\ EndPass)
      BY <1>5, <2>3, PassedStep
    <3>3. pass = 5 /\ EndPass => Passed(u)' = {}
      BY NotYetPassed DEF EndPass
    <3> QED
      BY <3>1, <3>2, <3>3 DEF SecondaryRefs
  <2> QED
    BY <2>2, <2>3
<1> QED
  BY <1>3, <1>4, <1>5

LEMMA MembersOKStep ==
  ASSUME Registry, Cursor, Known, MembersOK, Adds \/ ResolveReferences \/ Resolve
  PROVE  MembersOK'
<1>1. CASE Adds
  BY <1>1 DEF Adds, MembersOK, elabVars, cursorVars, refVars
<1>2. CASE ResolveReferences
  BY <1>2 DEF ResolveReferences, MembersOK
<1>3. CASE Resolve
  <2>1. runs' = runs /\ runs > 0
    BY <1>3, ResolveIsWithinRegistry, ResolveSteps
      DEF MembersOK, EndPass, SkipUnit, Handles, Advance
  <2>2. CASE AtSecondary
    <3>1. PICK v \in Registrable : Member(At(RefKey(v)), v)
      BY <2>2, SecondaryHead
    <3>2. members' = members
          \/ \E t : members' = [members EXCEPT ![t] = Append(@, v)]
      BY <3>1 DEF Member
    <3>3. ASSUME NEW t, members' = [members EXCEPT ![t] = Append(@, v)]
          PROVE  members' \in [Owners -> Seq(Registrable)]
      <4>1. \A o \in Owners : Append(members[o], v) \in Seq(Registrable)
        BY DEF MembersOK
      <4> QED
        BY <3>3, <4>1 DEF MembersOK
    <3> QED
      BY <2>1, <3>2, <3>3 DEF MembersOK
  <2>3. CASE ~AtSecondary
    BY <1>3, <2>1, <2>3, MembersKept DEF MembersOK
  <2> QED
    BY <2>2, <2>3
<1> QED
  BY <1>1, <1>2, <1>3

LEMMA MembersCountedStep ==
  ASSUME Registry, Cursor, Known, SecondaryRefs, MembersOK, MembersCounted,
         Registry', MembersOK', Adds \/ ResolveReferences \/ Resolve
  PROVE  MembersCounted'
<1> USE DEF callVars, mapVars, unitVars
<1> SUFFICES ASSUME NEW o \in Owners, NEW u, IsSecondary(u) PROVE Counts(o, u)'
  BY DEF MembersCounted
<1> DEFINE held == Times(u, members[o])
           listed == Cardinality(Places(u))
           passed == Cardinality(Passed(u))
<1>1. /\ held \in Nat /\ listed \in Nat /\ passed \in Nat
      /\ held' \in Nat /\ listed' \in Nat /\ passed' \in Nat
  <2>1. members[o] \in Seq(Registrable) /\ members'[o] \in Seq(Registrable)
    BY DEF MembersOK
  <2>2. held \in Nat /\ held' \in Nat
    BY <2>1, TimesCounts
  <2>3. listed \in Nat /\ passed \in Nat
    BY PlacesFinite
  <2>4. listed' \in Nat /\ passed' \in Nat
    <3>1. secondary_units' \in Seq(Registrable)
      BY DEF Registry, RegistryInv, RegistryTypeOK
    <3>2. IsFiniteSet(Places(u)')
      <4>1. IsFiniteSet(PlacesIn(secondary_units', u))
        BY <3>1, TimesCounts
      <4> QED
        BY <4>1 DEF Places, PlacesIn
    <3>3. IsFiniteSet(Passed(u)')
      BY <3>2, FS_Subset DEF Passed
    <3> QED
      BY <3>2, <3>3, FS_CardinalityType
  <2> QED
    BY <2>2, <2>3, <2>4
<1>2. /\ unit_ref[u] # o => held = 0
      /\ unit_ref[u] = o => passed <= held
      /\ held <= RunsBefore * listed + passed
  BY DEF MembersCounted, Counts
<1>3. SUFFICES /\ unit_ref'[u] # o => held' = 0
               /\ unit_ref'[u] = o => passed' <= held'
               /\ held' <= RunsBefore' * listed' + passed'
  BY DEF Counts
<1>4. RunsBefore \in Nat /\ RunsBefore' \in Nat
  <2>1. \A n \in Nat : n > 0 => n - 1 \in Nat
    OBVIOUS
  <2>2. RunsBefore \in Nat
    BY <2>1 DEF MembersOK, RunsBefore
  <2>3. RunsBefore' \in Nat
    BY <2>1 DEF MembersOK, RunsBefore
  <2> QED
    BY <2>2, <2>3
<1>5. Passed(u) = {} => passed = 0
  BY FS_EmptySet
<1>6. Passed(u)' = {} => passed' = 0
  BY FS_EmptySet
<1> HIDE DEF held, listed, passed
<1>7. CASE Adds
  <2>1. UNCHANGED <<pass, at, item, runs, members, unit_ref>> /\ [Next]_vars
    BY <1>7 DEF Adds, elabVars, cursorVars, refVars
  <2>2. held' = held /\ RunsBefore' = RunsBefore
    BY <2>1 DEF held, RunsBefore
  <2>3. CASE pass = 0
    <3>1. passed = 0 /\ passed' = 0
      BY <1>5, <1>6, <2>1, <2>3, NotYetPassed
    <3>2. listed <= listed'
      <4>1. secondary_units' = secondary_units
            \/ \E w \in Registrable : secondary_units' = Append(secondary_units, w)
        BY <2>1, StepCases DEF Quiet, RegistersPrimary, RegistersSecondary, Registry
      <4>2. secondary_units \in Seq(Registrable)
        BY DEF Registry, RegistryInv, RegistryTypeOK
      <4>3. listed = Times(u, secondary_units)
        BY PlacesFinite DEF listed
      <4>4. listed' = Times(u, secondary_units')
        BY DEF listed, Places, PlacesIn, Times
      <4>5. CASE secondary_units' = secondary_units
        BY <1>1, <4>3, <4>4, <4>5
      <4>6. ASSUME NEW w \in Registrable, secondary_units' = Append(secondary_units, w)
            PROVE  listed <= listed'
        <5>1. listed' = listed + (IF w = u THEN 1 ELSE 0)
          BY <4>2, <4>3, <4>4, <4>6, TimesCounts
        <5> QED
          BY <1>1, <5>1
      <4> QED
        BY <4>1, <4>5, <4>6
    <3>3. RunsBefore * listed <= RunsBefore * listed'
      BY <1>1, <1>4, <3>2, RunArithmetic
    <3>4. RunsBefore * listed \in Nat /\ RunsBefore * listed' \in Nat
      BY <1>1, <1>4, RunArithmetic
    <3> QED
      BY <1>1, <1>2, <2>1, <2>2, <3>1, <3>3, <3>4
  <2>4. CASE UNCHANGED vars
    <3>1. listed' = listed /\ passed' = passed
      BY <2>1, <2>4 DEF listed, passed, Passed, Places, PlacesIn, HeadPassed, vars, registryVars
    <3> QED
      BY <1>2, <2>1, <2>2, <3>1
  <2> QED
    BY <1>7, <2>3, <2>4 DEF Adds
<1>8. CASE ResolveReferences
  <2>1. /\ pass = 0 /\ pass' = 1 /\ runs' = runs + 1
        /\ UNCHANGED <<members, unit_ref, secondary_units>>
    BY <1>8 DEF ResolveReferences, vars, registryVars
  <2>2. passed = 0 /\ passed' = 0
    BY <1>5, <1>6, <2>1, NotYetPassed
  <2>3. RunsBefore' = RunsBefore
    BY <2>1 DEF RunsBefore, MembersOK
  <2>4. held' = held /\ listed' = listed
    BY <2>1 DEF held, listed, Places, PlacesIn
  <2> QED
    BY <1>2, <2>1, <2>2, <2>3, <2>4
<1>9. CASE Resolve /\ AtSecondary
  <2>1. PICK v \in Registrable :
          /\ v = Visited /\ IsSecondary(v) /\ pass = 4 /\ Handles
          /\ unit_ref' = [unit_ref EXCEPT ![v] = At(RefKey(v))]
          /\ Member(At(RefKey(v)), v)
    BY <1>9, SecondaryHead
  <2>2. listed' = listed /\ RunsBefore' = RunsBefore
    BY <1>9, <2>1, PassedStep DEF listed, RunsBefore, Handles, Advance
  <2>3. o # None
    BY NullAssumption DEF Owners, UnitsOfKind, NoUnitIsNull
  <2>4. CASE u # v
    <3>1. unit_ref'[u] = unit_ref[u] /\ passed' = passed
      BY <1>9, <2>1, <2>4, PassedStep DEF passed, Known, IsSecondary
    <3>2. held' = held
      <4>1. members'[o] = members[o] \/ members'[o] = Append(members[o], v)
        BY <2>1 DEF Member, MembersOK
      <4>2. members[o] \in Seq(Registrable)
        BY DEF MembersOK
      <4>3. Times(u, Append(members[o], v)) = Times(u, members[o]) + 0
        BY <2>4, <4>2, TimesCounts
      <4>4. Times(u, members[o]) \in Nat
        BY <4>2, TimesCounts
      <4>5. Times(u, Append(members[o], v)) = Times(u, members[o])
        BY <4>3, <4>4
      <4>6. Times(u, members'[o]) = Times(u, members[o])
        BY <4>1, <4>5, Zenon
      <4> QED
        BY <4>6 DEF held, Times
    <3> QED
      BY <1>2, <2>2, <3>1, <3>2
  <2>5. CASE u = v
    <3>1. passed' = passed + 1
      <4>1. Passed(u)' = Passed(u) \cup {at} /\ at \notin Passed(u)
        BY <1>9, <2>1, <2>5, PassedStep
      <4> QED
        BY <4>1, PlacesFinite, FS_AddElement DEF passed
    <3>2. unit_ref'[u] = At(RefKey(u))
      BY <2>1, <2>5 DEF Known
    <3>3. CASE At(RefKey(u)) = o
      <4>1. members'[o] = Append(members[o], v)
        BY <2>1, <2>3, <2>5, <3>3 DEF Member, MembersOK
      <4>2. members[o] \in Seq(Registrable)
        BY DEF MembersOK
      <4>3. held' = held + 1
        BY <2>5, <4>1, <4>2, TimesCounts DEF held
      <4>4. unit_ref[u] # o => passed = 0
        BY <1>5, <3>3 DEF SecondaryRefs
      <4>5. RunsBefore * listed \in Nat
        BY <1>1, <1>4, RunArithmetic
      <4> QED
        BY <1>1, <1>2, <2>2, <3>1, <3>2, <3>3, <4>3, <4>4, <4>5
    <3>4. CASE At(RefKey(u)) # o
      <4>1. unit_ref[u] # o
        BY <2>3, <3>4 DEF SecondaryRefs
      <4>2. members'[o] = members[o]
        BY <2>1, <2>5, <3>4 DEF Member, MembersOK
      <4>3. held' = 0
        BY <1>2, <4>1, <4>2 DEF held
      <4>4. RunsBefore * listed \in Nat
        BY <1>1, <1>4, RunArithmetic
      <4> QED
        BY <1>1, <2>2, <3>1, <3>2, <3>4, <4>3, <4>4
    <3> QED
      BY <3>3, <3>4
  <2> QED
    BY <2>4, <2>5
<1>10. CASE Resolve /\ ~AtSecondary
  <2>1. held' = held /\ unit_ref'[u] = unit_ref[u]
    BY <1>10, MembersKept DEF held
  <2>2. listed' = listed
    BY <1>10, PassedStep DEF listed
  <2>3. runs' = runs /\ pass > 0
    BY <1>10, ResolveIsWithinRegistry, ResolveSteps DEF EndPass, SkipUnit, Handles, Advance
  <2>4. CASE pass = 5 /\ EndPass
    <3>1. pass' = 0 /\ passed' = 0
      BY <1>6, <2>4, NotYetPassed DEF EndPass
    <3>2. passed <= listed
      BY PlacesFinite, FS_Subset DEF passed, listed, Passed
    <3>3. RunsBefore' = RunsBefore + 1
      BY <2>3, <2>4, <3>1 DEF RunsBefore, MembersOK
    <3>4. /\ RunsBefore' * listed = RunsBefore * listed + listed
          /\ RunsBefore * listed \in Nat
      BY <1>1, <1>4, <3>3, RunArithmetic
    <3> QED
      BY <1>1, <1>2, <2>1, <2>2, <3>1, <3>2, <3>4
  <2>5. CASE ~(pass = 5 /\ EndPass)
    <3>1. Passed(u)' = Passed(u)
      BY <1>10, <2>5, PassedStep
    <3>2. passed' = passed
      BY <3>1 DEF passed
    <3>3. pass' > 0
      BY <1>10, <2>3, <2>5, ResolveSteps DEF EndPass, SkipUnit, Handles, Advance, Cursor
    <3>4. RunsBefore' = RunsBefore
      BY <2>3, <3>3 DEF RunsBefore
    <3> QED
      BY <1>2, <2>1, <2>2, <3>2, <3>4
  <2> QED
    BY <2>4, <2>5
<1> QED
  BY <1>7, <1>8, <1>9, <1>10

MembersInv == BoundInv /\ SecondaryRefs /\ MembersOK /\ MembersCounted

LEMMA MembersInitInv == Init /\ ElabInit => MembersInv
<1> SUFFICES ASSUME Init, ElabInit PROVE MembersInv
  OBVIOUS
<1>1. BoundInv /\ Registry
  BY BoundInitInv DEF BoundInv, PassInv, ElabInv
<1>2. \A u : Passed(u) = {}
  BY NotYetPassed DEF ElabInit
<1>3. SecondaryRefs
  BY <1>2 DEF ElabInit, SecondaryRefs, IsSecondary
<1>4. MembersOK
  BY DEF ElabInit, MembersOK, Owners
<1>5. ASSUME NEW o \in Owners, NEW u, IsSecondary(u) PROVE Counts(o, u)
  <2>1. members[o] = <<>>
    BY DEF ElabInit, Owners
  <2>2. PlacesIn(members[o], u) = {}
    BY <2>1 DEF PlacesIn
  <2>3. Times(u, members[o]) = 0
    BY <2>2, FS_EmptySet DEF Times, PlacesIn
  <2>4. Cardinality(Passed(u)) = 0 /\ Cardinality(Places(u)) \in Nat
    BY <1>1, <1>2, FS_EmptySet, PlacesFinite
  <2>5. RunsBefore = 0
    BY DEF ElabInit, RunsBefore
  <2> QED
    BY <2>3, <2>4, <2>5 DEF Counts
<1> QED
  BY <1>1, <1>3, <1>4, <1>5 DEF MembersInv, MembersCounted

LEMMA MembersInvStep == MembersInv /\ [ElabNext]_allVars => MembersInv'
<1> SUFFICES ASSUME MembersInv, [ElabNext]_allVars PROVE MembersInv'
  OBVIOUS
<1>1. Adds \/ ResolveReferences \/ Resolve
  BY ElabSteps
<1>2. BoundInv'
  BY BoundInvStep DEF MembersInv
<1>3. /\ Registry /\ Registry' /\ Cursor /\ Known
      /\ SecondaryRefs /\ MembersOK /\ MembersCounted
  BY <1>2 DEF MembersInv, BoundInv, PassInv, ElabInv
<1>4. SecondaryRefs' /\ MembersOK'
  BY <1>1, <1>3, SecondaryRefsStep, MembersOKStep
<1>5. MembersCounted'
  BY <1>1, <1>3, <1>4, MembersCountedStep
<1> QED
  BY <1>2, <1>4, <1>5 DEF MembersInv

(* entity.architectures and package.body hold a unit if and only if it      *)
(* refers to their owner: once at least for every time it was added, since  *)
(* the last run has pushed it for each, and no more often than all runs     *)
(* together could.                                                          *)
THEOREM MembersInverse == ElabSpec => []MembersAreTheInverse
<1>1. ASSUME MembersInv PROVE MembersAreTheInverse
  <2> SUFFICES ASSUME Resolved, NEW o \in DOMAIN members, NEW u, IsSecondary(u)
               PROVE  LET times == Times(u, members[o]) IN
                      IF unit_ref[u] # o THEN times = 0
                      ELSE times \in Times(u, secondary_units)..(runs * Times(u, secondary_units))
    BY DEF MembersAreTheInverse, IsSecondary
  <2>1. /\ Registry /\ o \in Owners /\ runs \in Nat /\ runs > 0
        /\ members[o] \in Seq(Registrable)
    BY <1>1 DEF MembersInv, MembersOK, BoundInv, PassInv, ElabInv, Resolved
  <2>2. Counts(o, u)
    BY <1>1, <2>1 DEF MembersInv, MembersCounted
  <2>3. Passed(u) = Places(u)
    BY DEF Passed, HeadPassed, Resolved
  <2> DEFINE listed == Times(u, secondary_units)
             held == Times(u, members[o])
             before == runs - 1
  <2>4. /\ listed \in Nat /\ held \in Nat
        /\ unit_ref[u] # o => held = 0
        /\ unit_ref[u] = o => listed <= held
        /\ held <= before * listed + listed
    BY <2>1, <2>2, <2>3, PlacesFinite, TimesCounts DEF Counts, RunsBefore, Resolved
  <2> HIDE DEF listed, held
  <2>5. runs * listed = before * listed + listed /\ runs * listed \in Nat
    <3>1. before \in Nat /\ runs = before + 1
      BY <2>1
    <3> HIDE DEF before
    <3> QED
      BY <2>4, <3>1, RunArithmetic
  <2>6. IF unit_ref[u] # o THEN held = 0 ELSE held \in listed..(runs * listed)
    BY <2>4, <2>5
  <2> QED
    BY <2>6 DEF held, listed
<1> QED
  BY <1>1, MembersInitInv, MembersInvStep, PTL DEF ElabSpec
================================================================================
