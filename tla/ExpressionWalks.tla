---------------------------- MODULE ExpressionWalks ----------------------------
(***************************************************************************)
(* The two walks over the nodes of an expression: the resolver looks names *)
(* up (resolver.h), the validator asks for the references of what it meets *)
(* (validator.cpp).  A walk is the set of what it looks up or asks for.    *)
(***************************************************************************)
EXTENDS Expressions

Ask(what, string) == {[what |-> what, name |-> string]}
AskIfNamed(what, string) == IF string = <<>> THEN {} ELSE Ask(what, string)

LooksLikeLiteral(string) == string = <<>> \/ string[1] \in {"10", "null", "'c'"}

(* lookup(scope, name_node): only a slice is looked up by what is before it. *)
LookedUpAs(n) == IF n.kind = "SLICE" THEN n.prefix.value ELSE n.value
--------------------------------------------------------------------------------
RECURSIVE Lookups(_), ConstraintLookups(_)

\* Mutant: the right bound of a range is forgotten.
RangeLookupsLeft(range) ==
  IF range.node = "attribute_range" THEN Ask("range prefix", range.name)
  ELSE Lookups(range.left)

RangeLookups(range) ==
  IF range.node = "attribute_range" THEN Ask("range prefix", range.name)
  ELSE Lookups(range.left) \cup Lookups(range.right)

SubtypeLookups(si) ==
  (IF si.resolution = <<>> THEN {} ELSE Ask("resolution", si.resolution))
  \cup Ask("type mark", LookedUpAs(si.type.name))
  \cup ConstraintLookups(si.constr)

DiscreteRangeLookups(range) ==
  IF range.node = "subtype_indication" THEN SubtypeLookups(range) ELSE RangeLookups(range)

ConstraintLookups(constraint) ==
  CASE IsNil(constraint) -> {}
    [] constraint.node = "array_constraint" ->
         UNION {DiscreteRangeLookups(r) : r \in ToSet(constraint.index_constraint)}
    [] constraint.node = "record_constraint" ->
         UNION {ConstraintLookups(e.constr) : e \in ToSet(constraint.constraint)}
    [] OTHER -> RangeLookups(constraint)

AssociationLookups(assoc, formals) ==
  (IF formals THEN AskIfNamed("formal", assoc.formal_name) ELSE {})
  \cup AskIfNamed("actual", assoc.actual_name)
  \cup Lookups(assoc.act_designator.expr)
  \cup (IF IsNil(assoc.act_designator.indication) THEN {}
        ELSE SubtypeLookups(assoc.act_designator.indication))

(* A name without a value is left before its slice or arguments are seen;   *)
(* no other name has any.                                                  *)
NameLookups(n) ==
  IF n.value = <<>> \/ n.value[1] = "'c'" THEN {} ELSE Ask("name", n.value)

Lookups(item) ==
  CASE item.node = "nil" -> {}
    [] item.node = "literal_node" ->
         IF LooksLikeLiteral(item.text) THEN {} ELSE Ask("literal", item.text)
    [] item.node = "name_node" -> NameLookups(item)
    [] item.node = "allocator" ->
         IF IsNil(item.si) THEN {} ELSE SubtypeLookups(item.si)
    [] item.node = "aggregate" -> UNION {Lookups(e.expr) : e \in ToSet(item.elem_assoc)}
    [] item.node = "qualified_expression" ->
         Ask("qualified type", item.type.name.value) \cup Lookups(item.aggr)
    [] item.node = "simple_expression" -> UNION {Lookups(i) : i \in ToSet(item.args)}
    [] item.node = "conditional_primary" -> Lookups(item.prim)
    [] item.node = "binary_expression" -> Lookups(item.lhs) \cup Lookups(item.rhs)
    [] item.node = "subtype_indication" -> SubtypeLookups(item)
    [] item.node = "explicit_range" -> RangeLookups(item)
    [] item.node = "association_list" ->
         UNION {AssociationLookups(assoc, item.bound) : assoc \in ToSet(item.associations)}
--------------------------------------------------------------------------------
RECURSIVE Asked(_), ConstraintAsked(_)

RangeAsked(range) ==
  IF range.node = "attribute_range" THEN AskIfNamed("range prefix", range.name)
  ELSE Asked(range.left) \cup Asked(range.right)

(* A type mark without a value, a sliced one, is not asked for. *)
SubtypeAsked(si) ==
  AskIfNamed("resolution", si.resolution) \cup AskIfNamed("type mark", si.type.name.value)
    \cup ConstraintAsked(si.constr)

DiscreteRangeAsked(range) ==
  IF range.node = "subtype_indication" THEN SubtypeAsked(range) ELSE RangeAsked(range)

ConstraintAsked(constraint) ==
  CASE IsNil(constraint) -> {}
    [] constraint.node = "array_constraint" ->
         UNION {DiscreteRangeAsked(r) : r \in ToSet(constraint.index_constraint)}
    [] constraint.node = "record_constraint" ->
         UNION {ConstraintAsked(e.constr) : e \in ToSet(constraint.constraint)}
    [] OTHER -> RangeAsked(constraint)

AssociationAsked(assoc, formals) ==
  (IF formals THEN AskIfNamed("formal", assoc.formal_name) ELSE {})
  \cup AskIfNamed("actual", assoc.actual_name)
  \cup Asked(assoc.act_designator.expr)
  \cup (IF IsNil(assoc.act_designator.indication) THEN {}
        ELSE SubtypeAsked(assoc.act_designator.indication))

NameAsked(n) ==
  IF n.value = <<>> \/ n.value[1] = "'c'" THEN {} ELSE Ask("name", n.value)

Asked(item) ==
  CASE item.node = "nil" -> {}
    [] item.node = "literal_node" ->
         IF LooksLikeLiteral(item.text) THEN {} ELSE Ask("literal", item.text)
    [] item.node = "name_node" -> NameAsked(item)
    [] item.node = "allocator" -> IF IsNil(item.si) THEN {} ELSE SubtypeAsked(item.si)
    [] item.node = "aggregate" -> UNION {Asked(e.expr) : e \in ToSet(item.elem_assoc)}
    [] item.node = "qualified_expression" ->
         Ask("qualified type", item.type.name.value) \cup Asked(item.aggr)
    [] item.node = "simple_expression" -> UNION {Asked(i) : i \in ToSet(item.args)}
    [] item.node = "conditional_primary" -> Asked(item.prim)
    [] item.node = "binary_expression" -> Asked(item.lhs) \cup Asked(item.rhs)
    [] item.node = "subtype_indication" -> SubtypeAsked(item)
    [] item.node = "explicit_range" -> RangeAsked(item)
    [] item.node = "association_list" ->
         UNION {AssociationAsked(assoc, item.bound) : assoc \in ToSet(item.associations)}
================================================================================
