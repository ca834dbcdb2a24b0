------------------------------- MODULE Visibility -------------------------------
(***************************************************************************)
(* The AST of the files a client has, as far as the resolver looks at it,  *)
(* and what its text says of a name: which regions are around it, and      *)
(* which declarations of these compete for it.  A node of the AST keeps    *)
(* the names that are looked up at it, in order: the types, expressions    *)
(* and sequential statements inside a declaration or statement open no     *)
(* scope, and their names are listed with it.                              *)
(***************************************************************************)
EXTENDS Naturals, FiniteSets, Lists

CONSTANT None    \* a null pointer, an empty declaration_ref

VARIABLE design  \* the nodes and the registered units; resolving adds and removes no node

--------------------------------------------------------------------------------
N(n) == design.node[n]
Nodes == DOMAIN design.node
Units == design.units
IsA(n, kinds) == n # None /\ N(n).kind \in kinds

(* Declarations that add no symbol, and nodes that open a region. *)
Unnamed == {"configuration_specification", "attribute_specification",
            "disconnection_specification", "use_clause", "package_body"}
Regions == {"package", "entity", "package_instantiation", "architecture",
            "package_body", "block", "generate", "process", "subprogram_body"}
Instantiations == {"component_instantiation", "entity_instantiation"}

OfKind(kinds) == {n \in Nodes : IsA(n, kinds)}

--------------------------------------------------------------------------------
(* A slot is a reference member: that of the i-th name of one of the parts  *)
(* of a node, or of the unit or the component the node stands for.  The     *)
(* parts are names that stand in the region the node opens or is in, those  *)
(* that stand outside it (a guard, a condition, a sensitivity list), and of *)
(* the i-th association the formal_name, the actual_name, which only the    *)
(* form f(y) has, and the name in the act_designator.                       *)
Parts == {"names", "outer", "formal", "actual", "designator"}
Numbered(n, part, seq) == {<<n, part, i>> : i \in {j \in DOMAIN seq : seq[j] # <<>>}}
NameSlots(n) == UNION {Numbered(n, part, N(n)[part]) : part \in Parts}
UnitSlots(n) ==
  IF N(n).aspect = "entity"
     \/ IsA(n, Instantiations \cup {"architecture", "package_body", "package_instantiation"})
  THEN {<<n, "unit", 0>>} ELSE {}
ComponentSlots(n) ==
  IF IsA(n, {"component_instantiation", "configuration_specification"})
  THEN {<<n, "component", 0>>} ELSE {}
SlotsOf(n) == NameSlots(n) \cup UnitSlots(n) \cup ComponentSlots(n)
Slots == UNION {SlotsOf(n) : n \in Nodes}

--------------------------------------------------------------------------------
(* elaborator::find_entity, find_package: the unit registered under a name. *)
FindUnit(kind, lib, name) ==
  LET key == IF Len(name) = 1 THEN <<lib, name[1]>> ELSE <<name[1], name[2]>>
      found == {u \in ToSet(Units) :
                  IsA(u, {kind}) /\ <<N(u).lib, N(u).id>> = key}
  IN  IF found = {} THEN None ELSE CHOOSE u \in found : TRUE

(* The declarations of the primary unit a secondary unit belongs to. *)
Primary(n) ==
  FindUnit(IF IsA(n, {"architecture"}) THEN "entity" ELSE "package", N(n).lib,
           IF IsA(n, {"package_body"}) THEN <<N(n).id>> ELSE N(n).of)
DeclaredBy(n) == IF n = None THEN <<>> ELSE N(n).interfaces \o N(n).declarations
Items(n) == N(n).declarations \o N(n).statements

(* The tree the nodes form, independent of the walk. *)
Children(n) == ToSet(Items(n))
ParentOf(n) ==
  IF \E r \in Nodes : n \in Children(r)
  THEN CHOOSE r \in Nodes : n \in Children(r) ELSE None
UnitOf(n) ==
  LET Above[m \in Nodes] ==
        IF ParentOf(m) = None THEN m ELSE Above[ParentOf(m)]
  IN  Above[n]

--------------------------------------------------------------------------------
(* The declarations visible around a node, by the text: those of the        *)
(* innermost region first.  A package and a unit see nothing around them.   *)
Groups(r) ==
  CASE IsA(r, {"architecture"}) -> <<N(r).declarations, DeclaredBy(Primary(r))>>
    [] IsA(r, {"package_body"}) -> <<DeclaredBy(Primary(r)) \o N(r).declarations>>
    [] OTHER -> <<DeclaredBy(r)>>
Around(n) ==
  LET G[r \in Nodes] ==
        IF IsA(r, {"block", "generate", "process", "subprogram_body"})
        THEN Groups(r) \o G[ParentOf(r)] ELSE Groups(r)
  IN  G[n]
Under(group, id) == Among(group, {d \in Nodes : N(d).id = id /\ ~IsA(d, Unnamed)})

(* The region a slot's name stands in.  The actuals of a block belong to the *)
(* region around it; those of a package or of an instantiation of one to it, *)
(* which sees nothing around it.                                             *)
Owner(n) == CHOOSE r \in Nodes : n \in ToSet(N(r).interfaces)
Owned == UNION {ToSet(N(r).interfaces) : r \in Nodes}
RegionOf(s) ==
  LET n == IF s[1] \in Owned THEN Owner(s[1]) ELSE s[1]
      specified == {b \in Nodes : IsA(b, {"subprogram_body"}) /\ N(b).specification = n}
  IN  CASE specified # {} -> ParentOf(CHOOSE b \in specified : TRUE)
        [] IsA(n, Regions) /\ s[2] = "names" -> n
        [] IsA(n, {"package", "package_instantiation"}) -> n
        [] OTHER -> ParentOf(n)

(* The declarations that compete for a name in a region: all of that name   *)
(* in the innermost region around that has one.                             *)
CompetingIn(r, id) ==
  LET groups == Around(r)
      having == {k \in DOMAIN groups : Under(groups[k], id) # <<>>}
  IN  IF having = {} THEN <<>> ELSE Under(groups[Min(having)], id)

NameOf(s) == N(s[1])[s[2]][s[3]]
Competing(s) == CompetingIn(RegionOf(s), NameOf(s)[1])

LooksLikeLiteral(name) == name \in {<<"null">>, <<"Null">>}
IsName(s) ==
  /\ s[2] \in {"names", "outer", "actual", "designator"}
  /\ Len(NameOf(s)) = 1 /\ ~LooksLikeLiteral(NameOf(s))

(* The designators of a block's actuals are looked up inside the block: what *)
(* the block itself declares captures them.                                  *)
Captured(s) ==
  /\ s[2] = "designator" /\ IsA(s[1], {"block"})
  /\ Under(DeclaredBy(s[1]), NameOf(s)[1]) # <<>>

(* The simple names the resolver looks up for good where they stand: not in *)
(* a use clause, nor in a configuration specification, which is resolved    *)
(* wherever it matches, and none that a block captures.                     *)
IsSimpleName(s) ==
  /\ IsName(s)
  /\ ~IsA(s[1], {"use_clause", "configuration_specification"})
  /\ ~Captured(s)
SimpleNames == {s \in Slots : IsSimpleName(s)}

(* What a declaration stands for: a body for its specification.  Only       *)
(* declarations of subprograms may stand beside each other under a name.    *)
Meaning(d) == IF IsA(d, {"subprogram_body"}) THEN N(d).specification ELSE d
Overloaded(decls) ==
  \A k \in DOMAIN decls : IsA(decls[k], {"subprogram_declaration"})
================================================================================
