--------------------------------- MODULE Scopes ---------------------------------
(***************************************************************************)
(* The reference_resolver below the level of design units: how it walks    *)
(* nested declarative regions with a scope for each on the C++ stack, what *)
(* it inserts in a scope, and what a name means where it stands.  The      *)
(* client resolves the same units several times; after each run the linker *)
(* binds component instances by name.                                      *)
(*                                                                         *)
(* Left to Elaboration: several files, used packages that are missing,     *)
(* context references, configurations.                                     *)
(***************************************************************************)
EXTENDS Visibility

CONSTANTS
  Designs,   \* the ASTs the client may have: nodes and registered units
  MaxRuns    \* bound: how often the client resolves

ASSUME RunsAssumption == MaxRuns \in Nat

(* What context_parser makes of a file: every member that is a node is one  *)
(* of the AST.                                                              *)
ASSUME NodesAssumption ==
  \A d \in Designs :
    /\ IsFiniteSet(DOMAIN d.node) /\ None \notin DOMAIN d.node
    /\ d.units \in Seq(DOMAIN d.node)
    /\ \A n \in DOMAIN d.node :
         LET m == d.node[n] IN
         /\ m.uses \in Seq(Seq(STRING))
         /\ {m.interfaces, m.declarations, m.statements} \subseteq Seq(DOMAIN d.node)
         /\ m.kind = "subprogram_body" => m.specification \in DOMAIN d.node

(* A null pointer is no reference to declarations. *)
ASSUME NullAssumption ==
  \A d \in Designs : None \notin [overload : BOOLEAN, of : Seq(DOMAIN d.node)]

(* Where a node stands: among the declarations and statements of a node,    *)
(* among its interfaces, or as the specification of a subprogram body; and  *)
(* how deep.                                                                *)
Holders(d, n) ==
  {r \in DOMAIN d.node : n \in ToSet(d.node[r].declarations \o d.node[r].statements)}
Owners(d, n) == {r \in DOMAIN d.node : n \in ToSet(d.node[r].interfaces)}
Bodies(d, n) ==
  {r \in DOMAIN d.node : d.node[r].kind = "subprogram_body" /\ d.node[r].specification = n}
Depth(d) ==
  LET Deep[n \in DOMAIN d.node] ==
        IF Holders(d, n) = {} THEN 0 ELSE Deep[CHOOSE r \in Holders(d, n) : TRUE] + 1
  IN  Deep

(* An AST is a forest: a node stands at one place, under others that do not *)
(* stand in it, and only the units stand nowhere.                           *)
ASSUME ForestAssumption ==
  \A d \in Designs : \A n \in DOMAIN d.node :
    LET above == Holders(d, n)
        owners == Owners(d, n)
        bodies == Bodies(d, n)
    IN  /\ \A r, s \in above \cup owners \cup bodies : r = s
        /\ above \cap owners = {} /\ above \cap bodies = {} /\ owners \cap bodies = {}
        /\ n \in ToSet(d.units) <=> above \cup owners \cup bodies = {}
        /\ Depth(d)[n] \in 0..Cardinality(DOMAIN d.node)
        /\ \A r \in above : Depth(d)[r] < Depth(d)[n]

(* The kinds of node that are units and interfaces, and those that have     *)
(* declarations and statements, interfaces, names, association lists.       *)
ASSUME KindsAssumption ==
  \A d \in Designs : \A n \in DOMAIN d.node :
    LET m == d.node[n] IN
    /\ n \in ToSet(d.units) =>
         m.kind \in {"package", "entity", "package_instantiation", "architecture",
                    "package_body"}
    /\ Owners(d, n) # {} => m.kind = "signal"
    /\ Bodies(d, n) # {} => m.kind = "subprogram_declaration"
    /\ m.declarations # <<>> \/ m.statements # <<>> =>
         m.kind \in {"package", "entity", "architecture", "package_body", "block",
                    "generate", "process", "subprogram_body"}
    /\ m.interfaces # <<>> =>
         m.kind \in {"package", "entity", "block", "component", "subprogram_declaration"}
    /\ m.names # <<>> =>
         m.kind \in {"signal", "component", "subprogram_declaration", "use_clause",
                    "attribute_specification", "disconnection_specification",
                    "statement"}
    /\ m.outer # <<>> => m.kind \in {"block", "generate", "process"}
    /\ m.formal # <<>> \/ m.actual # <<>> \/ m.designator # <<>> =>
         m.kind \in {"block", "package", "package_instantiation", "component_instantiation",
                    "entity_instantiation", "configuration_specification"}

VARIABLES
  unit,      \* position in Order of the unit at hand, 0 outside a run
  frames,    \* the regions the walk is in, outermost first
  scopes,    \* the scope objects on the C++ stack, outermost first
  refs,      \* the *_ref members, by slot
  ambiguous, \* the slots for which "ambiguous reference" was reported
  runs       \* calls of resolve_references

vars == <<design, unit, frames, scopes, refs, ambiguous, runs>>

--------------------------------------------------------------------------------
(* The passes of run(): packages, the other primary units, the rest. *)
Pass(kinds) == Among(Units, OfKind(kinds))
Order ==
  Pass({"package"}) \o Pass({"entity", "package_instantiation"})
    \o Pass({"architecture", "package_body"})

(* A declaration_ref: one declaration, or a subprogram_declaration_overload. *)
To(n) == [overload |-> FALSE, of |-> <<n>>]
Overload(decls) == [overload |-> TRUE, of |-> decls]
NodeOf(ref) == IF ref = None THEN None ELSE ref.of[1]

--------------------------------------------------------------------------------
(* scope: the symbols by name, the configuration specifications, the use    *)
(* clauses; a root scope has no parent.                                     *)
Entries(symbols, id) == IF id \in DOMAIN symbols THEN symbols[id] ELSE <<>>
Insert(symbols, id, ref) ==
  [i \in DOMAIN symbols \cup {id} |->
     IF i = id THEN Append(Entries(symbols, id), ref) ELSE symbols[i]]

\* Mutant: the first declaration is not put into the overload either.
InsertEmptyOverload(symbols, d) ==
  LET found == Entries(symbols, N(d).id)
  IN  IF IsA(d, {"subprogram_declaration"}) /\ Len(found) = 1
      THEN [symbols EXCEPT ![N(d).id] = <<Overload(<<>>)>>]
      ELSE IF IsA(d, Unnamed) THEN symbols ELSE Insert(symbols, N(d).id, To(d))

\* Mutant: declarations of subprograms are not merged.
InsertUnmerged(symbols, d) ==
  IF IsA(d, Unnamed) THEN symbols ELSE Insert(symbols, N(d).id, To(d))

(* The second declaration of a subprogram makes an overload of the first;   *)
(* it is not in it itself.  The specification of a body is inserted as any  *)
(* other symbol is.                                                         *)
InsertDeclaration(symbols, d) ==
  LET id == N(d).id
      found == Entries(symbols, id)
      merges == IsA(d, {"subprogram_declaration"}) /\ Len(found) = 1
  IN  CASE merges /\ found[1].overload ->
             [symbols EXCEPT ![id] = <<Overload(Append(found[1].of, d))>>]
        [] merges /\ ~found[1].overload
             /\ IsA(found[1].of[1], {"subprogram_declaration"}) ->
             [symbols EXCEPT ![id] = <<Overload(found[1].of)>>]
        [] IsA(d, {"subprogram_body"}) -> Insert(symbols, id, To(N(d).specification))
        [] IsA(d, Unnamed) -> symbols
        [] OTHER -> Insert(symbols, id, To(d))

Inserted(decls) ==
  LET Upto[k \in 0..Len(decls)] ==
        IF k = 0 THEN [id \in {} |-> <<>>] ELSE InsertDeclaration(Upto[k - 1], decls[k])
  IN  Upto[Len(decls)]

Scope(decls) ==
  [symbols |-> Inserted(decls),
   specs |-> Among(decls, OfKind({"configuration_specification"})),
   uses |-> <<>>, lib |-> "", root |-> FALSE]

(* apply_unit_use_clauses: every unit uses std.standard.all as well. *)
UseStd == <<"std", "standard", "all">>
RootScope(n) ==
  [Scope(<<>>) EXCEPT !.uses = Append(N(n).uses, UseStd), !.lib = N(n).lib,
                      !.root = TRUE]

(* The scopes a lookup visits, innermost first: up to the root, no further. *)
Chain(stack) ==
  LET roots == {k \in DOMAIN stack : stack[k].root}
  IN  Reverse(SubSeq(stack, Max(roots \cup {1}), Len(stack)))

Lib(chain) == chain[Len(chain)].lib

--------------------------------------------------------------------------------
(* What a lookup finds is the sequence of its candidates: none, one, or     *)
(* several, which is ambiguous and no reference either.                     *)
Candidate(n) == IF n = None THEN <<>> ELSE <<To(n)>>
Meant(found) == IF Len(found) = 1 THEN found[1] ELSE None

(* lookup_in_package does not report what is ambiguous. *)
LookupInPackage(p, id) ==
  LET found == Entries(Inserted(N(p).interfaces \o N(p).declarations), id)
  IN  IF p # None /\ Len(found) = 1 THEN found ELSE <<>>

LookupQualified(lib, name) ==
  LET e == FindUnit("entity", lib, name)
      p == FindUnit("package", lib, name)
  IN  CASE Len(name) = 2 -> IF e # None THEN <<To(e)>> ELSE Candidate(p)
        [] Len(name) > 2 /\ name[3] = "all" -> Candidate(p)
        [] OTHER -> LookupInPackage(p, name[3])

(* What a used package offers under a name. *)
Offer(lib, clause, id) ==
  IF Len(clause) > 2 /\ Last(clause) = "all"
  THEN LookupInPackage(FindUnit("package", lib, clause), id)
  ELSE IF Last(clause) = id THEN LookupQualified(lib, clause) ELSE <<>>

LookupInUseClauses(chain, id) ==
  LET uses == FlattenSeq([k \in DOMAIN chain |-> chain[k].uses])
      offers == {k \in DOMAIN uses : Offer(Lib(chain), uses[k], id) # <<>>}
  IN  IF offers = {} THEN <<>> ELSE Offer(Lib(chain), uses[Min(offers)], id)

\* Mutant: the outermost scope first.
LookupOutermost(chain, name) ==
  IF Len(name) > 1 THEN LookupQualified(Lib(chain), name)
  ELSE LET hits == {k \in DOMAIN chain : Entries(chain[k].symbols, name[1]) # <<>>}
       IN  IF hits = {} THEN LookupInUseClauses(chain, name[1])
           ELSE Entries(chain[Max(hits)].symbols, name[1])

Lookup(chain, name) ==
  IF Len(name) > 1 THEN LookupQualified(Lib(chain), name)
  ELSE LET hits == {k \in DOMAIN chain : Entries(chain[k].symbols, name[1]) # <<>>}
       IN  IF hits = {} THEN LookupInUseClauses(chain, name[1])
           ELSE Entries(chain[Min(hits)].symbols, name[1])

--------------------------------------------------------------------------------
(* What resolving finds, by slot; and what it finds together. *)
f ++ g == [s \in DOMAIN f \cup DOMAIN g |-> IF s \in DOMAIN f THEN f[s] ELSE g[s]]

NamesFound(chain, nodes, part) ==
  LET attempted == {s \in UNION {Numbered(n, part, N(n)[part]) : n \in nodes} :
                      ~LooksLikeLiteral(N(s[1])[part][s[3]])}
  IN  [s \in attempted |-> Lookup(chain, N(s[1])[part][s[3]])]

InterfacesFound(chain, n) == NamesFound(chain, ToSet(N(n).interfaces), "names")

\* Mutant: the actual names are looked up inside a block as well.
ActualsFoundInside(actual, current, n) ==
  NamesFound(current, {n}, "actual") ++ NamesFound(current, {n}, "designator")

(* resolve_associations: an actual_name in the actual scope, what is in the *)
(* designator in the current scope; only a block has two.  Formals are      *)
(* looked up only where there is a formal scope.                            *)
ActualsFound(actual, current, n) ==
  NamesFound(actual, {n}, "actual") ++ NamesFound(current, {n}, "designator")
FormalsFound(chain, n) == NamesFound(chain, {n}, "formal")
UnitFound(n, u) == [s \in {<<n, "unit", 0>>} |-> Candidate(u)]

(* make_interface_scope, and the generics of a package to instantiate. *)
InterfacesOf(n) == IF n = None THEN <<>> ELSE N(n).interfaces
FormalScope(lib, decls) == <<[Scope(decls) EXCEPT !.lib = lib]>>

AsComponent(found) ==
  IF Len(found) = 1 /\ ~found[1].overload /\ IsA(found[1].of[1], {"component"})
  THEN found ELSE <<>>

Record(found) ==
  /\ refs' = [s \in DOMAIN refs |-> IF s \in DOMAIN found THEN Meant(found[s]) ELSE refs[s]]
  /\ ambiguous' = ambiguous \cup {s \in DOMAIN found : Len(found[s]) > 1}
  /\ UNCHANGED <<design, runs>>

--------------------------------------------------------------------------------
(* The walk is at a node: the next unit, or what is next in a region. *)
Here == frames[Len(frames)]
Walking == unit \in DOMAIN Order /\ (frames # <<>> => Here.todo # <<>>)
Node == IF frames = <<>> THEN Order[unit] ELSE Head(Here.todo)
At(kinds) == Walking /\ IsA(Node, kinds)
Passed ==
  IF frames = <<>> THEN <<>> ELSE [frames EXCEPT ![Len(frames)].todo = Tail(@)]

(* Go on in a region with its own scopes, which end with the region.  Found *)
(* is what is resolved first, given the chains outside and inside it.       *)
Enter(own, Found(_, _), todo) ==
  /\ frames' = Append(Passed, [node |-> Node, todo |-> todo, base |-> Len(scopes)])
  /\ scopes' = scopes \o own
  /\ \E outside \in {Chain(scopes)}, inside \in {Chain(scopes \o own)} :
       \E found \in {Found(outside, inside)} : Record(found)
  /\ UNCHANGED unit

(* Nothing to go into. *)
PassBy(Found(_)) ==
  /\ frames' = Passed
  /\ \E chain \in {Chain(scopes)} : \E found \in {Found(chain)} : Record(found)
  /\ UNCHANGED <<unit, scopes>>

\* Mutant: the scope of the region stays.
LeaveScope ==
  /\ frames # <<>>
  /\ Here.todo = <<>>
  /\ frames' = Front(frames)
  /\ unit' = IF Len(frames) = 1 THEN unit + 1 ELSE unit
  /\ UNCHANGED <<design, scopes, refs, ambiguous, runs>>

Leave ==
  /\ frames # <<>>
  /\ Here.todo = <<>>
  /\ frames' = Front(frames)
  /\ scopes' = SubSeq(scopes, 1, Here.base)
  /\ unit' = IF Len(frames) = 1 THEN unit + 1 ELSE unit
  /\ UNCHANGED <<design, refs, ambiguous, runs>>

ResolveEntity ==
  /\ At({"entity"})
  /\ Enter(<<[RootScope(Node) EXCEPT !.symbols = Inserted(DeclaredBy(Node))]>>,
           LAMBDA outside, inside : InterfacesFound(inside, Node),
           Items(Node))

(* A package declared inside a region is resolved as a unit is: from a root *)
(* scope of its own.                                                        *)
ResolvePackage ==
  /\ At({"package"})
  /\ Enter(<<RootScope(Node), Scope(DeclaredBy(Node))>>,
           LAMBDA outside, inside :
             InterfacesFound(inside, Node) ++ ActualsFound(inside, inside, Node),
           Items(Node))

ResolvePackageInstantiation ==
  /\ At({"package_instantiation"})
  /\ \E p \in {FindUnit("package", N(Node).lib, N(Node).of)} :
       Enter(<<RootScope(Node)>>,
             LAMBDA outside, inside :
               UnitFound(Node, p) ++ ActualsFound(inside, inside, Node)
                 ++ FormalsFound(FormalScope(N(Node).lib, InterfacesOf(p)), Node),
             <<>>)

(* The entity's declarations are in a scope around the architecture's. *)
ResolveArchitecture ==
  /\ At({"architecture"})
  /\ Enter(<<RootScope(Node), Scope(DeclaredBy(Primary(Node))),
             Scope(N(Node).declarations)>>,
           LAMBDA outside, inside : UnitFound(Node, Primary(Node)),
           Items(Node))

(* The package's declarations are in the scope of the body's. *)
ResolvePackageBody ==
  /\ At({"package_body"})
  /\ Enter(<<RootScope(Node),
             Scope(DeclaredBy(Primary(Node)) \o N(Node).declarations)>>,
           LAMBDA outside, inside : UnitFound(Node, Primary(Node)),
           Items(Node))

(* The guard condition and the actual names are looked up around the block; *)
(* the formals, and the designators of the actuals, inside it.              *)
ResolveBlockStatement ==
  /\ At({"block"})
  /\ Enter(<<Scope(DeclaredBy(Node))>>,
           LAMBDA outside, inside :
             NamesFound(outside, {Node}, "outer") ++ InterfacesFound(inside, Node)
               ++ ActualsFound(outside, inside, Node) ++ FormalsFound(inside, Node),
           Items(Node))

(* One clause or alternative; outer is the condition of its clause. *)
ResolveGenerateBody ==
  /\ At({"generate"})
  /\ Enter(<<Scope(N(Node).declarations)>>,
           LAMBDA outside, inside : NamesFound(outside, {Node}, "outer"),
           Items(Node))

(* outer is the sensitivity list. *)
ResolveProcess ==
  /\ At({"process"})
  /\ Enter(<<Scope(N(Node).declarations)>>,
           LAMBDA outside, inside : NamesFound(outside, {Node}, "outer"),
           Items(Node))

(* The parameters are resolved with the specification and inserted nowhere. *)
ResolveSubprogramBody ==
  /\ At({"subprogram_body"})
  /\ Enter(<<Scope(N(Node).declarations)>>,
           LAMBDA outside, inside :
             NamesFound(outside, {N(Node).specification}, "names")
               ++ InterfacesFound(outside, N(Node).specification),
           Items(Node))

(* Any declaration without a region of its own; a use clause is passed by. *)
ResolveDeclaration ==
  /\ At({"signal", "component", "subprogram_declaration", "attribute_specification",
         "disconnection_specification", "use_clause"})
  /\ PassBy(LAMBDA chain :
              IF IsA(Node, {"use_clause"}) THEN <<>>
              ELSE NamesFound(chain, {Node}, "names") ++ InterfacesFound(chain, Node))

(* A concurrent statement without a region, or a sequential one. *)
ResolveStatement ==
  /\ At({"statement"})
  /\ PassBy(LAMBDA chain : NamesFound(chain, {Node}, "names"))

(* resolve_binding for an entity aspect, in the scope it is called with. *)
BindingFound(chain, spec) ==
  LET e == FindUnit("entity", Lib(chain), N(spec).target)
  IN  IF N(spec).aspect = "entity"
      THEN UnitFound(spec, e) ++ ActualsFound(chain, chain, spec)
             ++ FormalsFound(FormalScope(Lib(chain), InterfacesOf(e)), spec)
      ELSE <<>>

ComponentFound(chain, n) ==
  [s \in {<<n, "component", 0>>} |-> AsComponent(Lookup(chain, N(n).of))]

ResolveConfigurationSpecification ==
  /\ At({"configuration_specification"})
  /\ PassBy(LAMBDA chain : ComponentFound(chain, Node) ++ BindingFound(chain, Node))

(* find_matching_configuration: the innermost, then the first. *)
Matches(spec, n) ==
  N(spec).of = N(n).of /\ N(spec).labels \cap {N(n).id, "all", "others"} # {}
\* Mutant: the outermost scope first.
MatchingOutermost(chain, n) ==
  LET specs == FlattenSeq([k \in DOMAIN chain |-> chain[Len(chain) + 1 - k].specs])
  IN  Among(specs, {spec \in Nodes : Matches(spec, n)})

Matching(chain, n) ==
  LET specs == FlattenSeq([k \in DOMAIN chain |-> chain[k].specs])
  IN  Among(specs, {spec \in Nodes : Matches(spec, n)})

(* The formals are looked up among the ports of the entity, as far as it is *)
(* bound, and of the component together.                                    *)
AssociationsFound(chain, n, e, c) ==
  ActualsFound(chain, chain, n)
    ++ FormalsFound(FormalScope(Lib(chain), InterfacesOf(e) \o InterfacesOf(c)), n)

ResolveEntityInstantiation ==
  /\ At({"entity_instantiation"})
  /\ \E e \in {FindUnit("entity", Lib(Chain(scopes)), N(Node).of)} :
       PassBy(LAMBDA chain :
                UnitFound(Node, e) ++ AssociationsFound(chain, Node, e, None))

(* A matching specification is resolved once more, in the scope of the      *)
(* instance; without one the entity is what the last run left.              *)
BoundEntity(chain, n) ==
  LET matching == Matching(chain, n) IN
  CASE matching = <<>> -> NodeOf(refs[<<n, "unit", 0>>])
    [] matching # <<>> /\ N(matching[1]).aspect = "entity" ->
         FindUnit("entity", Lib(chain), N(matching[1]).target)
    [] OTHER -> None
MatchingBindingFound(chain, n) ==
  LET matching == Matching(chain, n)
  IN  IF matching = <<>> THEN <<>> ELSE BindingFound(chain, matching[1])

ResolveComponentInstantiation ==
  /\ At({"component_instantiation"})
  /\ \E e \in {BoundEntity(Chain(scopes), Node)} :
       PassBy(LAMBDA chain :
                ComponentFound(chain, Node) ++ UnitFound(Node, e)
                  ++ MatchingBindingFound(chain, Node)
                  ++ AssociationsFound(chain, Node, e,
                       NodeOf(Meant(AsComponent(Lookup(chain, N(Node).of))))))

--------------------------------------------------------------------------------
(* linker::run: bind_by_component_name for an instance without an entity. *)
Linked(n) ==
  LET component == NodeOf(refs[<<n, "component", 0>>])
      e == FindUnit("entity", N(UnitOf(n)).lib, <<N(component).id>>)
  IN  IF refs[<<n, "unit", 0>>] = None /\ component # None
      THEN Meant(Candidate(e)) ELSE refs[<<n, "unit", 0>>]

(* The units are all done: resolve_references calls the linker and returns. *)
Link ==
  /\ unit = Len(Order) + 1
  /\ unit' = 0
  /\ refs' = [s \in DOMAIN refs |->
                IF IsA(s[1], {"component_instantiation"}) /\ s[2] = "unit"
                THEN Linked(s[1]) ELSE refs[s]]
  /\ UNCHANGED <<design, frames, scopes, ambiguous, runs>>

ResolveReferences ==
  /\ unit = 0
  /\ runs < MaxRuns
  /\ unit' = 1
  /\ runs' = runs + 1
  /\ UNCHANGED <<design, frames, scopes, refs, ambiguous>>

Init ==
  /\ design \in Designs
  /\ unit = 0 /\ frames = <<>> /\ scopes = <<>>
  /\ refs = [s \in Slots |-> None]
  /\ ambiguous = {}
  /\ runs = 0

Resolve ==
  \/ ResolveEntity
  \/ ResolvePackage
  \/ ResolvePackageInstantiation
  \/ ResolveArchitecture
  \/ ResolvePackageBody
  \/ ResolveBlockStatement
  \/ ResolveGenerateBody
  \/ ResolveProcess
  \/ ResolveSubprogramBody
  \/ ResolveDeclaration
  \/ ResolveStatement
  \/ ResolveConfigurationSpecification
  \/ ResolveEntityInstantiation
  \/ ResolveComponentInstantiation
  \/ Leave
  \/ Link

(* The bound is reached; a walk that stops anywhere else is a deadlock. *)
Done == unit = 0 /\ runs = MaxRuns /\ UNCHANGED vars

Next == ResolveReferences \/ Resolve \/ Done

Spec == Init /\ [][Next]_vars

--------------------------------------------------------------------------------
TypeOK ==
  /\ ToSet(Units) \subseteq Nodes
  /\ unit \in 0..(Len(Order) + 1)
  /\ \A k \in DOMAIN frames : frames[k].base \in 0..Len(scopes)
  /\ \A s \in DOMAIN refs :
       refs[s] # None => refs[s].of # <<>> /\ ToSet(refs[s].of) \subseteq Nodes
  /\ ambiguous \subseteq DOMAIN refs
  /\ runs \in 0..MaxRuns

(* The scope objects on the stack are those of the regions around the walk, *)
(* innermost first, each with the names its region declares: no scope       *)
(* outlives its region, none is missing, and none is hidden by a root.      *)
Telling(names) == Among(names, ToSet(names) \ {{}})
NamesIn(group) == {N(d).id : d \in {e \in ToSet(group) : ~IsA(e, Unnamed)}}
ScopesAreTheRegionsAround ==
  IF frames = <<>> THEN scopes = <<>>
  ELSE LET chain == Chain(scopes)
           groups == Around(Here.node)
       IN  Telling([k \in DOMAIN chain |-> DOMAIN chain[k].symbols])
             = Telling([k \in DOMAIN groups |-> NamesIn(groups[k])])

Resolved == unit = 0 /\ runs > 0
(* A name never means a declaration of an outer region that an inner one    *)
(* hides, of a region that is already over, or of another name: what is     *)
(* found on the stack of scopes is what the nesting of the text says.       *)
InnermostDeclarationIsMeant ==
  Resolved => \A s \in SimpleNames :
    refs[s] # None /\ Competing(s) # <<>>
      => ToSet(refs[s].of) \subseteq {Meaning(d) : d \in ToSet(Competing(s))}

(* A name that one declaration competes for, or only declarations of        *)
(* subprograms, is never left unresolved; and ambiguity is reported only    *)
(* where there are two declarations that are not overloads.                 *)
CompetitionIsDecided ==
  Resolved => \A s \in SimpleNames :
    LET decls == Competing(s) IN
    /\ Len(decls) = 1 \/ (decls # <<>> /\ Overloaded(decls)) => refs[s] # None
    /\ s \in ambiguous => Len(decls) > 1 /\ ~Overloaded(decls)
    /\ decls # <<>> /\ refs[s] = None => s \in ambiguous

(* The regions a configuration specification is resolved in, by the text:   *)
(* its own, and that of each instance for which it is the first of the      *)
(* innermost region that has one that matches.                              *)
SpecificationsFor(n) ==
  Among(FlattenSeq(Around(ParentOf(n))),
        {spec \in OfKind({"configuration_specification"}) : Matches(spec, n)})
AppliesTo(spec) ==
  {n \in OfKind({"component_instantiation"}) :
     SpecificationsFor(n) # <<>> /\ Head(SpecificationsFor(n)) = spec}
RegionsOf(spec) == {ParentOf(n) : n \in AppliesTo(spec) \cup {spec}}
Offered == ToSet(Units) \cup UNION {ToSet(DeclaredBy(p)) : p \in OfKind({"package"})}

(* An actual of a configuration specification is resolved anew for every    *)
(* instance that matches.  In the end it means what its name means in the   *)
(* region of one of those or of the specification, never what it means at   *)
(* an instance that another specification nearer to it is for.  It has no   *)
(* meaning only if it is ambiguous in one of these regions, or none around  *)
(* it declares the name, and then it may also be that of a used package.    *)
SpecificationsMeanWhereTheyApply ==
  Resolved => \A s \in Slots :
    IsA(s[1], {"configuration_specification"}) /\ N(s[1]).aspect = "entity" /\ IsName(s) =>
      \E r \in RegionsOf(s[1]) :
        LET decls == CompetingIn(r, NameOf(s)[1]) IN
        \/ decls = <<>> /\ (refs[s] = None \/ ToSet(refs[s].of) \subseteq Offered)
        \/ refs[s] = None /\ Len(decls) > 1 /\ ~Overloaded(decls)
        \/ refs[s] # None /\ ToSet(refs[s].of) \subseteq {Meaning(d) : d \in ToSet(decls)}

(* The references a later run leaves as they are: not the formals and the   *)
(* entity of a component instance, which the linker has bound in between,   *)
(* nor a configuration specification, resolved wherever it matches.         *)
Rebound(s) ==
  \/ s[2] = "formal"
  \/ s[2] = "unit" /\ IsA(s[1], {"component_instantiation"})
  \/ IsA(s[1], {"configuration_specification"})

Lasting == [s \in {t \in DOMAIN refs : ~Rebound(t)} |-> refs[s]]

Resolution == INSTANCE NameResolution WITH
  resolving <- unit # 0,
  meaning <- Lasting,
  ambiguous <- ambiguous \cap SimpleNames

(* The walk with its scopes, lookups and runs is a resolution of names: at  *)
(* every step a name is given what the text lets it mean, or is called      *)
(* ambiguous where the text is; no call returns before each name that has   *)
(* a declaration is decided; and no later run decides otherwise.            *)
RefinesNameResolution == Resolution!Spec

(* A formal of a component instance that names a port of the component is   *)
(* resolved when elaboration is done.                                       *)
FormalsAreResolved ==
  Resolved => \A s \in DOMAIN refs :
    s[2] = "formal" /\ IsA(s[1], {"component_instantiation"})
      => \/ refs[s] # None
         \/ \A p \in ToSet(InterfacesOf(NodeOf(refs[<<s[1], "component", 0>>]))) :
              <<N(p).id>> # NameOf(s)

(* A subprogram that is declared and then defined, in one region or in a    *)
(* package and its body, has a meaning where it is called.                  *)
DefinedSubprogramsAreResolved ==
  Resolved => \A s \in SimpleNames :
    LET decls == Competing(s) IN
    Len(decls) = 2 /\ IsA(decls[1], {"subprogram_declaration"})
                   /\ IsA(decls[2], {"subprogram_body"})
      => refs[s] # None

(* The name of a parameter has a meaning in the body of the subprogram. *)
ParametersAreResolved ==
  Resolved => \A s \in SimpleNames :
    LET r == RegionOf(s) IN
    IsA(r, {"subprogram_body"})
      /\ (\E p \in ToSet(N(N(r).specification).interfaces) : <<N(p).id>> = NameOf(s))
      => refs[s] # None

================================================================================
