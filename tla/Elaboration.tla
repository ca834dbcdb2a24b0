------------------------------- MODULE Elaboration -------------------------------
(***************************************************************************)
(* elaborator::resolve_references over a registry that a client fills with *)
(* add_design_files: the reference_resolver walks the registered units in  *)
(* four passes, the linker walks the architectures once more, and between  *)
(* them they set the *_ref members of the AST.  The client may add more    *)
(* files and resolve again.                                                *)
(*                                                                         *)
(* Modelled: references between design units, used packages, component     *)
(* names and bindings.  Left out: the references inside expressions and    *)
(* types, and the instances nested in blocks and generates.                *)
(***************************************************************************)
EXTENDS DesignRegistry, SequencesExt

CONSTANT MaxRuns   \* bound: how often the client resolves

ASSUME RunsAssumption == MaxRuns \in Nat

VARIABLES
  pass,                   \* 0 outside resolve_references, 1..4 in the resolver
  at,                     \*   and 5 in the linker; the unit the pass is at,
  item,                   \*   and the statement or item of the unit, 0 its head
  runs,                   \* calls of resolve_references
  instantiated_entities,
  unit_ref,               \* primary_ref, package_ref, entity_ref, target_package_ref
  members,                \* entity.architectures and package.body
  context_ref,            \* resolved_ref of the names in context references
  clause_ref,             \* package_ref and selected_ref of a used_package
  binding_ref,            \* the *_ref of binding indications
  inst_ref                \* the *_ref of component instantiations

cursorVars == <<pass, at, item>>
refVars == <<instantiated_entities, unit_ref, members, context_ref,
             clause_ref, binding_ref, inst_ref>>
elabVars == <<cursorVars, runs, refVars>>
allVars == <<vars, elabVars>>

--------------------------------------------------------------------------------
(* The nodes that hold references: Items(u, f) are those in the vector f of *)
(* unit u; kinds says which kinds of unit have one.                         *)
Numbered(u, seq) == {<<u, i>> : i \in 1..Len(seq)}

Holders == UnitsOfKind({"use_clause", "context", "configuration"})
Bindings == UNION {Numbered(u, Decl(u).items) :
                     u \in UnitsOfKind({"architecture", "configuration"})}
Instances == UNION {Numbered(u, Decl(u).instances) : u \in Architectures}
ContextNames == UNION {Numbered(u, Decl(u).contexts) :
                         u \in UnitsOfKind({"context", "context_reference"})}

(* use_std: the clause apply_unit_use_clauses creates for every unit. *)
UseStd == <<"use_std", 0>>
ClausesOf(h) ==
  IF h = UseStd THEN << <<"std", "standard", "all">> >> ELSE Decl(h).clauses
UsedPackages == UNION {Numbered(h, ClausesOf(h)) : h \in Holders \cup {UseStd}}

(* The vectors of items, instances and context names, the alternatives of   *)
(* entity_aspect, and those of the unit an instance names.                  *)
ASSUME ItemsAssumption ==
  /\ \A u \in UnitsOfKind({"architecture", "configuration"}) : Len(Decl(u).items) \in Nat
  /\ \A u \in Architectures : Len(Decl(u).instances) \in Nat
  /\ \A u \in UnitsOfKind({"context", "context_reference"}) : Len(Decl(u).contexts) \in Nat
  /\ \A b \in Bindings :
       Decl(b[1]).items[b[2]].binding.aspect \in {"entity", "configuration", "open", "none"}
  /\ \A i \in Instances :
       Decl(i[1]).instances[i[2]].unit_kind \in {"component", "entity", "configuration"}

(* The vector of used packages, each the parts of a selected name.          *)
ASSUME ClausesAssumption ==
  \A h \in Holders : Decl(h).clauses \in Seq(Seq(STRING))

(* The nodes of components are told from those of units by their first      *)
(* field.                                                                   *)
ASSUME NodesAssumption ==
  /\ "component" \notin File
  /\ \A u \in Unit : Len(Decl(u).components) \in Nat

(* No file that reaches the elaborator has a syntax error, and the grammar  *)
(* leaves no identifier out.                                                *)
ASSUME IdentifiersAssumption ==
  /\ \A u \in UnitsOfKind({"entity"}) : Decl(u).id # ""
  /\ \A u \in Unit : \A j \in 1..Len(Decl(u).components) : Decl(u).components[j] # ""
  /\ \A u \in UnitsOfKind({"configuration"}) :
       LibraryAndDesignName(LibOf(u), Decl(u).of)[2] # ""
  /\ \A i \in Instances :
       LET d == Decl(i[1]).instances[i[2]]
       IN  d.unit_kind # "component" => LibraryAndDesignName(LibOf(i[1]), d.name)[2] # ""

Unresolved == [package |-> None, selected |-> None]
Unbound == [component |-> None, entity |-> None,
            architecture |-> None, configuration |-> None]

ElabInit ==
  /\ pass = 0 /\ at = 1 /\ item = 0 /\ runs = 0
  /\ instantiated_entities = {}
  /\ unit_ref = [u \in Registrable |-> None]
  /\ members = [u \in UnitsOfKind({"entity", "package"}) |-> <<>>]
  /\ context_ref = [n \in ContextNames |-> None]
  /\ clause_ref = [c \in UsedPackages |-> Unresolved]
  /\ binding_ref = [b \in Bindings |-> Unbound]
  /\ inst_ref = [i \in Instances |-> Unbound]

--------------------------------------------------------------------------------
(* elaborator::find_*: a unit or None, and the diagnostics of the search. *)
NameKey(kind, lib, parts, arch) ==
  <<kind, LibraryAndDesignName(lib, parts), arch>>

At(k) ==
  IF k[1] = "architecture" /\ k[3] = ""
  THEN IF k[2] \in DOMAIN architectures_by_entity_key THEN Latest(k[2]) ELSE None
  ELSE IF k \in DOMAIN by_key THEN by_key[k] ELSE None

Missing(k) == [what |-> "unresolved", key |-> k]

\* Mutant: a missing default architecture is not reported.
MissesOfDefaultsUnsaid(k) ==
  IF At(k) = None /\ k[2][2] # "" /\ ~(k[1] = "architecture" /\ k[3] = "")
  THEN <<Missing(k)>> ELSE <<>>
Misses(k) == IF At(k) = None /\ k[2][2] # "" THEN <<Missing(k)>> ELSE <<>>

Find(kind, lib, parts) == At(NameKey(kind, lib, parts, ""))
FindMisses(kind, lib, parts) == Misses(NameKey(kind, lib, parts, ""))

(* lookup_in_package: a name two declarations share is no name at all. *)
Named(u, id) == {j \in 1..Len(Decl(u).components) : Decl(u).components[j] = id}
LookupInPackage(p, id) ==
  IF p # None /\ Cardinality(Named(p, id)) = 1
  THEN <<"component", p, CHOOSE j \in Named(p, id) : TRUE>> ELSE None

(* lookup_qualified tries the kinds of unit in turn; each miss is reported. *)
Trials == <<"entity", "package", "context", "configuration">>
Hits(parts) == {n \in 1..Len(Trials) : Find(Trials[n], "", parts) # None}
LookupQualified(parts) ==
  IF Len(parts) = 2
  THEN IF Hits(parts) = {} THEN None
       ELSE Find(Trials[Min(Hits(parts))], "", parts)
  ELSE LET p == Find("package", "", parts)
       IN  IF parts[3] = "all" THEN p ELSE LookupInPackage(p, parts[3])
QualifiedMisses(parts) ==
  IF Len(parts) = 2
  THEN FlattenSeq([n \in 1..(Min(Hits(parts) \cup {5}) - 1) |->
                     FindMisses(Trials[n], "", parts)])
  ELSE FindMisses("package", "", parts)

--------------------------------------------------------------------------------
(* resolve_use_clause passes by what it resolved before; what it could not  *)
(* resolve it tries, and reports, again.  The use_std of every unit finds   *)
(* and reports what any other would, so one stands for all.                 *)
NameIn(c) == ClausesOf(c[1])[c[2]]
Target == [c \in DOMAIN clause_ref |->
  LET parts == NameIn(c)
      p == Find("package", "", parts)
  IN  CASE Len(parts) < 2 -> Unresolved
        [] Len(parts) = 2 -> [Unresolved EXCEPT !.selected = LookupQualified(parts)]
        [] OTHER -> [package |-> p,
                     selected |-> IF Last(parts) = "all" THEN None
                                  ELSE LookupInPackage(p, parts[3])]]
TargetMisses == [c \in DOMAIN clause_ref |->
  LET parts == NameIn(c)
  IN  CASE Len(parts) < 2 -> <<>>
        [] Len(parts) = 2 -> QualifiedMisses(parts)
        [] OTHER -> FindMisses("package", "", parts)]

\* Mutant: what the first run could not resolve is given up.
SettledInFirstRun == [c \in DOMAIN clause_ref |->
  IF clause_ref[c] = Unresolved /\ runs = 1 THEN Target[c] ELSE clause_ref[c]]
Settled == [c \in DOMAIN clause_ref |->
  IF clause_ref[c] = Unresolved THEN Target[c] ELSE clause_ref[c]]

ResolveUseClauses(holders) ==
  clause_ref' = [c \in DOMAIN clause_ref |->
                   IF \E n \in DOMAIN holders : holders[n] = c[1]
                   THEN Settled[c] ELSE clause_ref[c]]

(* One holder after the other, one used package after the other; a clause   *)
(* that is in scope twice is resolved the second time, if it can be.        *)
UseMisses(holders) ==
  FlattenSeq([n \in 1..Len(holders) |->
    FlattenSeq([i \in 1..Len(ClausesOf(holders[n])) |->
      LET c == <<holders[n], i>>
          twice == \E m \in 1..(n - 1) : holders[m] = holders[n]
      IN  IF clause_ref[c] # Unresolved \/ (twice /\ Settled[c] # Unresolved)
          THEN <<>> ELSE TargetMisses[c]])])

(* apply_unit_use_clauses *)
UnitUseClauses(u) == Append(packages_in_scope[u], UseStd)

(* lookup_in_use_clauses resolves the clauses in scope one by one, up to    *)
(* the first that offers the name; the first of its packages that does is   *)
(* the one that counts.                                                     *)
ScopeOf(u) ==
  (IF IsKind(u, {"configuration"}) THEN <<u>> ELSE <<>>) \o UnitUseClauses(u)

Offer(c, id) ==
  LET r == Settled[c]
  IN  IF Last(NameIn(c)) = "all" /\ r.package # None THEN LookupInPackage(r.package, id)
      ELSE IF Last(NameIn(c)) = id THEN r.selected ELSE None
Offers(holders, id) ==
  UNION {{[at |-> <<n, c[2]>>, found |-> Offer(c, id),
           visited |-> SubSeq(holders, 1, n), misses |-> <<>>] :
             c \in Numbered(holders[n], ClausesOf(holders[n]))} : n \in 1..Len(holders)}
NoOffer(holders) ==
  [at |-> <<Len(holders) + 1, 0>>, found |-> None, visited |-> holders, misses |-> <<>>]
Precedes(x, y) == x[1] < y[1] \/ (x[1] = y[1] /\ x[2] <= y[2])

LookupInUseClauses(holders, id) ==
  CHOOSE o \in Offers(holders, id) \cup {NoOffer(holders)} :
    /\ o.found # None \/ o = NoOffer(holders)
    /\ \A p \in Offers(holders, id) : p.found = None \/ Precedes(o.at, p.at)

(* lookup of a component name in the scope of an architecture or of the     *)
(* block configuration of a configuration: what is found, as                *)
(* ref_as<component_declaration> leaves it, the use clauses that were       *)
(* visited, and what was reported apart from those.                         *)
Ambiguous(parts) ==
  [what |-> "ambiguous", key |-> <<"component", <<"", parts[1]>>, "">>]

Lookup(u, parts) ==
  LET own == IF IsKind(u, {"architecture"}) THEN Named(u, parts[1]) ELSE {}
  IN  CASE Len(parts) = 0 -> [found |-> None, visited |-> <<>>, misses |-> <<>>]
        [] Len(parts) > 1 ->
             [found |-> LookupQualified(parts), visited |-> <<>>,
              misses |-> QualifiedMisses(parts)]
        [] Len(parts) = 1 /\ Cardinality(own) > 1 ->
             [found |-> None, visited |-> <<>>, misses |-> <<Ambiguous(parts)>>]
        [] Len(parts) = 1 /\ Cardinality(own) = 1 ->
             [found |-> <<"component", u, CHOOSE j \in own : TRUE>>,
              visited |-> <<>>, misses |-> <<>>]
        [] OTHER -> LookupInUseClauses(ScopeOf(u), parts[1])

\* Mutant: the reference is taken whatever it points at.
AsAnything(ref) == ref
AsComponent(ref) ==
  IF ref # None /\ ref[1] = "component" THEN ref ELSE None

\* Mutant: bound once, bound for good; and the configuration's entity is forgotten.
ResolveBindingOnce(lib, b, r) ==
  IF r.entity # None THEN r
  ELSE CASE b.aspect = "entity" ->
              [r EXCEPT !.entity = Find("entity", lib, b.name),
                        !.architecture =
                          At(NameKey("architecture", lib, b.name, b.arch))]
         [] b.aspect = "configuration" ->
              [r EXCEPT !.configuration = Find("configuration", lib, b.name)]
         [] b.aspect \in {"open", "none"} -> r

(* resolve_binding, on the references r its indication or an instance has.  *)
(* An aspect of "none" is a null indication.                                *)
ResolveBinding(lib, b, r) ==
  LET config == Find("configuration", lib, b.name)
  IN  CASE b.aspect = "entity" ->
             [r EXCEPT !.entity = Find("entity", lib, b.name),
                       !.architecture = At(NameKey("architecture", lib, b.name, b.arch))]
        [] b.aspect = "configuration" ->
             [r EXCEPT !.configuration = config,
                       !.entity = IF config = None THEN @ ELSE unit_ref[config]]
        [] b.aspect \in {"open", "none"} -> r
BindingMisses(lib, b) ==
  CASE b.aspect = "entity" ->
         FindMisses("entity", lib, b.name)
           \o Misses(NameKey("architecture", lib, b.name, b.arch))
    [] b.aspect = "configuration" -> FindMisses("configuration", lib, b.name)
    [] b.aspect \in {"open", "none"} -> <<>>

--------------------------------------------------------------------------------
(* Where resolve_references stands. *)
PassUnits == IF pass <= 3 THEN primary_units ELSE secondary_units
Visited == PassUnits[at]
Handled ==
  << {"package"}, {"context"},
     {"entity", "package_instantiation", "configuration", "context_reference"},
     {"architecture", "package_body"}, {"architecture"} >>

Visiting(p, kinds) ==
  pass = p /\ at <= Len(PassUnits) /\ IsKind(Visited, kinds)
AtHead(p, kind) == Visiting(p, {kind}) /\ item = 0

Specs(u) == IF pass = 4 THEN Len(Decl(u).items) ELSE 0
ItemsIn(u) ==
  CASE IsKind(u, {"configuration"}) -> Len(Decl(u).items)
    [] IsKind(u, {"architecture"}) -> Specs(u) + Len(Decl(u).instances)
    [] OTHER -> 0

(* On to the unit's next statement or item, or to the next unit. *)
Advance ==
  /\ IF item < ItemsIn(Visited) THEN item' = item + 1 /\ at' = at
     ELSE item' = 0 /\ at' = at + 1
  /\ UNCHANGED <<callVars, files_by_lib, mapVars, unitVars, pass, runs>>

(* A step resolves the use clauses it looks into and reports its misses. *)
Step(holders, misses) ==
  /\ ResolveUseClauses(holders)
  /\ diagnostics' = diagnostics \o misses
  /\ Advance

LookupStep(s, misses) ==
  Step(s.visited, s.misses \o UseMisses(s.visited) \o misses)

\* Mutant: append_unique instead of push_back.
MemberOnce(owner, u) ==
  members' = IF owner = None THEN members
             ELSE [members EXCEPT ![owner] = IF u \in ToSet(@) THEN @ ELSE Append(@, u)]
Member(owner, u) ==
  members' = IF owner = None THEN members
             ELSE [members EXCEPT ![owner] = Append(@, u)]

--------------------------------------------------------------------------------
ResolveReferences ==
  /\ pass = 0
  /\ runs < MaxRuns
  /\ \A c \in Caller : pc[c] \in {"idle", "returned"}
  /\ pass' = 1
  /\ runs' = runs + 1
  /\ instantiated_entities' = {}
  /\ UNCHANGED <<vars, at, item, unit_ref, members, context_ref, clause_ref,
                 binding_ref, inst_ref>>

EndPass ==
  /\ pass > 0
  /\ at > Len(PassUnits)
  /\ pass' = IF pass = 5 THEN 0 ELSE pass + 1
  /\ at' = 1
  /\ UNCHANGED <<vars, item, runs, refVars>>

\* Mutant: a unit the pass does not handle is not stepped over.
SkipUnitForever ==
  /\ pass > 0
  /\ at <= Len(PassUnits)
  /\ ~IsKind(Visited, Handled[pass])
  /\ UNCHANGED allVars
SkipUnit ==
  /\ pass > 0
  /\ at <= Len(PassUnits)
  /\ ~IsKind(Visited, Handled[pass])
  /\ at' = at + 1
  /\ UNCHANGED <<vars, pass, item, runs, refVars>>

ResolveScope(u) ==
  /\ Step(UnitUseClauses(u), UseMisses(UnitUseClauses(u)))
  /\ UNCHANGED <<instantiated_entities, unit_ref, members, context_ref,
                 binding_ref, inst_ref>>

ResolvePackage == AtHead(1, "package") /\ ResolveScope(Visited)
ResolveEntity == AtHead(3, "entity") /\ ResolveScope(Visited)

(* resolve_context_reference: names it does not find keep their reference. *)
ResolveContextNames(u, lib, holders) ==
  LET names == Decl(u).contexts
      found(i) == Find("context", lib, names[i])
  IN  /\ context_ref' = [n \in DOMAIN context_ref |->
           IF n[1] = u /\ found(n[2]) # None THEN found(n[2]) ELSE context_ref[n]]
      /\ Step(holders,
              UseMisses(holders) \o FlattenSeq([i \in 1..Len(names) |->
                                      FindMisses("context", lib, names[i])]))
      /\ UNCHANGED <<instantiated_entities, unit_ref, members, binding_ref, inst_ref>>

ResolveContext ==
  /\ AtHead(2, "context")
  /\ ResolveContextNames(Visited, LibOf(Visited), <<Visited>>)

ResolveContextReference ==
  /\ AtHead(3, "context_reference")
  /\ ResolveContextNames(Visited, "work", <<>>)

(* The units that refer to one other unit, each after its use clauses; the  *)
(* use clauses of a block configuration come last.                          *)
Refer(u, kind, parts, block) ==
  LET target == Find(kind, LibOf(u), parts)
      uses == UnitUseClauses(u)
  IN  /\ unit_ref' = [unit_ref EXCEPT ![u] = target]
      /\ Step(uses \o block,
              UseMisses(uses) \o FindMisses(kind, LibOf(u), parts) \o UseMisses(block))
      /\ IF IsKind(u, SecondaryKinds) THEN Member(target, u) ELSE UNCHANGED members
      /\ UNCHANGED <<instantiated_entities, context_ref, binding_ref, inst_ref>>

ResolvePackageInstantiation ==
  /\ AtHead(3, "package_instantiation")
  /\ Refer(Visited, "package", NameText(Decl(Visited).target), <<>>)

ResolveConfiguration ==
  /\ AtHead(3, "configuration")
  /\ Refer(Visited, "entity", Decl(Visited).of, <<Visited>>)

ResolveArchitecture ==
  /\ AtHead(4, "architecture")
  /\ Refer(Visited, "entity", NameText(Decl(Visited).primary), <<>>)

ResolvePackageBody ==
  /\ AtHead(4, "package_body")
  /\ Refer(Visited, "package", <<Decl(Visited).id>>, <<>>)

(* A configuration_specification of an architecture, or a component         *)
(* configuration: the component it is for, and what it binds it to.         *)
ResolveItem(b) ==
  LET u == b[1]
      i == Decl(u).items[b[2]]
  IN  /\ \E s \in {Lookup(u, i.component)} :
           /\ binding_ref' = [binding_ref EXCEPT ![b] =
                ResolveBinding(LibOf(u), i.binding,
                               [@ EXCEPT !.component = AsComponent(s.found)])]
           /\ LookupStep(s, BindingMisses(LibOf(u), i.binding))
      /\ UNCHANGED <<instantiated_entities, unit_ref, members, context_ref, inst_ref>>

ResolveComponentConfiguration ==
  /\ Visiting(3, {"configuration"})
  /\ item > 0
  /\ ResolveItem(<<Visited, item>>)

ResolveConfigurationSpecification ==
  /\ Visiting(4, {"architecture"})
  /\ item \in 1..Specs(Visited)
  /\ ResolveItem(<<Visited, item>>)

(* find_matching_configuration: the first specification for the component   *)
(* and the label, "all" or "others".                                        *)
Matching(u, i) ==
  {n \in 1..Len(Decl(u).items) :
     /\ Decl(u).items[n].component = i.name
     /\ Decl(u).items[n].labels \cap {i.label, "all", "others"} # {}}

CurrentInstance == <<Visited, item - Specs(Visited)>>
AtInstance(p) == Visiting(p, {"architecture"}) /\ item > Specs(Visited)

(* The tail of resolve_component_instantiation. *)
Instantiated(r) ==
  IF r.entity # None \/ r.configuration = None THEN r
  ELSE [r EXCEPT !.entity = unit_ref[r.configuration]]

\* Mutant: the linker does not say what it instantiated.
BindInstanceInResolver(n, r) ==
  /\ inst_ref' = [inst_ref EXCEPT ![n] = r]
  /\ instantiated_entities' =
       IF pass = 4 THEN instantiated_entities \cup ({r.entity} \ {None})
       ELSE instantiated_entities
  /\ UNCHANGED <<unit_ref, members, context_ref>>
BindInstance(n, r) ==
  /\ inst_ref' = [inst_ref EXCEPT ![n] = r]
  /\ instantiated_entities' = instantiated_entities \cup ({r.entity} \ {None})
  /\ UNCHANGED <<unit_ref, members, context_ref>>

ResolveDirectInstantiation ==
  LET n == CurrentInstance
      i == Decl(n[1]).instances[n[2]]
      aspect == [aspect |-> i.unit_kind, name |-> i.name, arch |-> i.arch]
  IN  /\ AtInstance(4)
      /\ i.unit_kind # "component"
      /\ BindInstance(n, Instantiated(ResolveBinding(LibOf(n[1]), aspect, inst_ref[n])))
      /\ Step(<<>>, BindingMisses(LibOf(n[1]), aspect))
      /\ UNCHANGED binding_ref

(* The matching specification is resolved anew, and gives the instance all  *)
(* its references; without one the instance keeps those it has.             *)
ResolveComponentInstantiation ==
  LET n == CurrentInstance
      u == n[1]
      i == Decl(u).instances[n[2]]
      b == <<u, Min(Matching(u, i))>>
      binding == Decl(u).items[b[2]].binding
  IN  /\ AtInstance(4)
      /\ i.unit_kind = "component"
      /\ \E s \in {Lookup(u, i.name)} :
           \/ /\ Matching(u, i) = {}
              /\ BindInstance(n, Instantiated([inst_ref[n] EXCEPT
                                    !.component = AsComponent(s.found)]))
              /\ LookupStep(s, <<>>)
              /\ UNCHANGED binding_ref
           \/ /\ Matching(u, i) # {}
              /\ binding_ref' = [binding_ref EXCEPT ![b] =
                                   ResolveBinding(LibOf(u), binding, @)]
              /\ BindInstance(n, Instantiated([binding_ref'[b] EXCEPT
                                    !.component = AsComponent(s.found)]))
              /\ LookupStep(s, BindingMisses(LibOf(u), binding))

--------------------------------------------------------------------------------
(* The linker. *)
EnterArchitecture ==
  /\ AtHead(5, "architecture")
  /\ Advance
  /\ UNCHANGED <<diagnostics, refVars>>

(* bind_from_configuration *)
FromConfiguration(r) ==
  LET c == r.configuration
      k == NameKey("architecture", LibOf(c), Decl(c).of, Decl(c).block)
      a == At(k)
      e == IF unit_ref[c] # None THEN unit_ref[c] ELSE r.entity
  IN  [ref |-> [r EXCEPT !.architecture = a,
                         !.entity = IF e = None /\ a # None THEN unit_ref[a] ELSE e],
       misses |-> Misses(k)]

(* bind_by_component_name: the entity of the component's name in the        *)
(* library of the architecture, and its default architecture.               *)
ComponentId(c) == Decl(c[2]).components[c[3]]
ByComponentName(lib, r) ==
  LET k == NameKey("entity", lib, <<ComponentId(r.component)>>, "")
      e == At(k)
      d == NameKey("architecture", LibOf(e), <<Decl(e).id>>, "")
  IN  IF r.component = None THEN [ref |-> r, misses |-> <<>>]
      ELSE IF e = None THEN [ref |-> r, misses |-> Misses(k)]
      ELSE [ref |-> [r EXCEPT !.entity = e, !.architecture = At(d)],
            misses |-> Misses(d)]

(* A configuration the resolver did not find is looked for once more. *)
Relink(lib, i, r) ==
  IF i.unit_kind = "configuration" /\ r.configuration = None
  THEN [ref |-> [r EXCEPT !.configuration = Find("configuration", lib, i.name)],
        misses |-> FindMisses("configuration", lib, i.name)]
  ELSE [ref |-> r, misses |-> <<>>]

\* Mutant: components are bound by default again in every run.
NeedsDefaultAlways(i, r) == i.unit_kind = "component"
NeedsDefault(i, r) == i.unit_kind = "component" /\ r.entity = None

LinkComponentInstantiation ==
  LET n == CurrentInstance
      lib == LibOf(n[1])
      i == Decl(n[1]).instances[n[2]]
      link(r) == CASE r.configuration # None -> FromConfiguration(r)
                   [] r.configuration = None /\ NeedsDefault(i, r) ->
                        ByComponentName(lib, r)
                   [] OTHER -> [ref |-> r, misses |-> <<>>]
  IN  /\ AtInstance(5)
      /\ item > 0
      /\ \E again \in {Relink(lib, i, inst_ref[n])} :
         \E bound \in {link(again.ref)} :
           /\ BindInstance(n, bound.ref)
           /\ Step(<<>>, again.misses \o bound.misses)
      /\ UNCHANGED binding_ref

--------------------------------------------------------------------------------
Resolve ==
  \/ EndPass
  \/ SkipUnit
  \/ ResolvePackage
  \/ ResolveContext
  \/ ResolveEntity
  \/ ResolvePackageInstantiation
  \/ ResolveConfiguration
  \/ ResolveComponentConfiguration
  \/ ResolveContextReference
  \/ ResolveArchitecture
  \/ ResolvePackageBody
  \/ ResolveConfigurationSpecification
  \/ ResolveDirectInstantiation
  \/ ResolveComponentInstantiation
  \/ EnterArchitecture
  \/ LinkComponentInstantiation

(* The client is one thread: it makes its calls one after the other, each   *)
(* once the last has returned.  Caller counts the calls it may make.        *)
NextCall == CHOOSE c \in Caller : pc[c] = "idle"
AddDesignFiles ==
  /\ pass = 0
  /\ \/ \E c \in Caller : Add(c)
     \/ /\ \E c \in Caller : pc[c] = "idle"
        /\ \A c \in Caller : pc[c] \in {"idle", "returned"}
        /\ \E arg \in FileSets : Call(NextCall, arg)
  /\ UNCHANGED elabVars

ElabNext == AddDesignFiles \/ ResolveReferences \/ Resolve

ElabSpec == Init /\ ElabInit /\ [][ElabNext]_allVars

(* A call that has begun runs on. *)
FairElabSpec == ElabSpec /\ WF_allVars(Resolve)

--------------------------------------------------------------------------------
NodeOrNone(S) == S \cup {None}
Entities == UnitsOfKind({"entity"})
Components ==
  UNION {{<<"component", u, j>> : j \in 1..Len(Decl(u).components)} : u \in Unit}
Refs == [component : NodeOrNone(Components), entity : NodeOrNone(Entities),
         architecture : NodeOrNone(Architectures),
         configuration : NodeOrNone(UnitsOfKind({"configuration"}))]

(* Every reference points at a node of the kind its C++ type says, and the  *)
(* walk stays inside the vectors it iterates over.                          *)
ElabTypeOK ==
  /\ pass \in 0..5
  /\ at \in 1..(Len(PassUnits) + 1)
  /\ item \in Nat
  /\ runs \in 0..MaxRuns
  /\ instantiated_entities \subseteq Entities
  /\ \A u \in Registrable :
       unit_ref[u] \in NodeOrNone(UnitsOfKind(
         IF IsKind(u, {"architecture", "configuration"}) THEN {"entity"} ELSE {"package"}))
  /\ \A o \in DOMAIN members : \A n \in DOMAIN members[o] :
       IsKind(members[o][n],
              IF IsKind(o, {"entity"}) THEN {"architecture"} ELSE {"package_body"})
  /\ context_ref \in [ContextNames -> NodeOrNone(UnitsOfKind({"context"}))]
  /\ \A c \in UsedPackages :
       clause_ref[c].package \in NodeOrNone(UnitsOfKind({"package"}))
  /\ binding_ref \in [Bindings -> Refs]
  /\ inst_ref \in [Instances -> Refs]

(* The end of resolve_references: the linker has seen its last unit. *)
Resolved == pass = 5 /\ at > Len(PassUnits)

Analysed == {i \in Instances : \E n \in DOMAIN secondary_units : secondary_units[n] = i[1]}
InstanceOf(i) == Decl(i[1]).instances[i[2]]
EntityOf(i) == inst_ref[i].entity
ArchitectureOf(i) == inst_ref[i].architecture

(* get_top_modules subtracts instantiated_entities, which the resolver      *)
(* fills before the linker has bound everything, and which every run starts *)
(* anew: in the end it holds exactly the entities instances are bound to.   *)
TopModulesExact ==
  Resolved =>
    instantiated_entities = {EntityOf(i) : i \in Instances} \ {None}

(* Entity and architecture of an instance are found separately, by          *)
(* different keys and in different passes; they belong together all the     *)
(* same, whatever is declared twice and in whatever order it is analysed.   *)
BoundArchitectureFits ==
  Resolved => \A i \in Instances :
    \/ None \in {EntityOf(i), ArchitectureOf(i)}
    \/ unit_ref[ArchitectureOf(i)] = EntityOf(i)

(* Nothing is left unbound in silence: an instance without an entity, or    *)
(* with an entity and no architecture, has a diagnostic for the name that   *)
(* is missing.  The one exception is a component name that is not declared: *)
(* lookup() returns nothing without a word.                                 *)
Explains(d, i) ==
  LET r == inst_ref[i]
      key == CASE r.entity # None -> <<"architecture", KeyOf(r.entity)[2]>>
               [] r.entity = None /\ r.configuration # None ->
                    <<"entity", LibraryAndDesignName(LibOf(r.configuration),
                                                     Decl(r.configuration).of)>>
               [] r.entity = None /\ r.configuration = None /\ r.component # None ->
                    <<"entity", <<LibOf(i[1]), ComponentId(r.component)>> >>
               [] OTHER -> <<InstanceOf(i).unit_kind,
                             LibraryAndDesignName(LibOf(i[1]), InstanceOf(i).name)>>
  IN  d.what = "unresolved" /\ d.key[1] = key[1] /\ d.key[2] = key[2]

UnboundIsReported ==
  Resolved => \A i \in Analysed :
    \/ None \notin {EntityOf(i), ArchitectureOf(i)}
    \/ InstanceOf(i).unit_kind = "component" /\ inst_ref[i].component = None
    \/ \E n \in DOMAIN diagnostics : Explains(diagnostics[n], i)

(* An indication that binds a configuration binds that configuration's      *)
(* entity, as far as it was known: a component configuration is resolved in *)
(* the same pass as the configuration it names, in the order of analysis.   *)
Before(c, h) ==
  \E m, n \in DOMAIN primary_units :
    m < n /\ primary_units[m] = c /\ primary_units[n] = h

ConfigurationBindingsAgree ==
  Resolved => \A b \in Bindings :
    LET c == binding_ref[b].configuration IN
    c # None /\ (IsKind(b[1], {"architecture"}) \/ Before(c, b[1]))
      => binding_ref[b].entity = unit_ref[c]

(* entity.architectures and package.body are the inverse of primary_ref and *)
(* package_ref.  Each run pushes each unit again, once for every time its   *)
(* file was added.                                                          *)
MembersAreTheInverse ==
  Resolved => \A o \in DOMAIN members : \A u \in Registrable :
    IsKind(u, SecondaryKinds) =>
      LET times == Times(u, members[o]) IN
      IF unit_ref[u] # o THEN times = 0
      ELSE times \in Times(u, secondary_units)..(runs * Times(u, secondary_units))

(* After a run, whatever runs came before it: an instance that names its    *)
(* unit is bound to what that name stands for now, and a used package       *)
(* that is registered by now is found, wherever its clause is in scope.     *)
(* Not so for a clause above a context, which has no scope to resolve it.   *)
DirectBindingsAreCurrent ==
  Resolved => \A i \in Analysed :
    LET d == InstanceOf(i)
        lib == LibOf(i[1])
    IN  CASE d.unit_kind = "entity" ->
               /\ EntityOf(i) = Find("entity", lib, d.name)
               /\ ArchitectureOf(i) = At(NameKey("architecture", lib, d.name, d.arch))
          [] d.unit_kind = "configuration" ->
               inst_ref[i].configuration = Find("configuration", lib, d.name)
          [] OTHER -> TRUE

UsedPackagesAreFound ==
  Resolved =>
    \A u \in Registrable \ UnitsOfKind({"context"}) :
    \A n \in DOMAIN packages_in_scope[u] :
    LET h == packages_in_scope[u][n] IN
    \A i \in DOMAIN ClausesOf(h) :
      Len(ClausesOf(h)[i]) > 2 =>
        clause_ref[<<h, i>>].package = Find("package", "", ClausesOf(h)[i])

(* The default binding of a component sticks: a later run leaves it alone,  *)
(* even where a later architecture has become the entity's default.         *)
DefaultBound(i) ==
  InstanceOf(i).unit_kind = "component" /\ Matching(i[1], InstanceOf(i)) = {}

DefaultBindingsStick ==
  [][\A i \in Instances :
       DefaultBound(i) /\ EntityOf(i) # None
         => /\ EntityOf(i)' = EntityOf(i)
            /\ ArchitectureOf(i)' = ArchitectureOf(i)]_allVars

(* resolve_references comes to its end. *)
ResolveReturns == pass = 1 ~> pass = 0
================================================================================
