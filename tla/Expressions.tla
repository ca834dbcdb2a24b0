------------------------------ MODULE Expressions ------------------------------
(***************************************************************************)
(* Names, ranges, subtypes, associations and expressions:                  *)
(* context_parser.cpp builds their nodes from the contexts of the parse    *)
(* tree, ast_helper.h (to_string) writes the text of a node.  A string is  *)
(* the sequence of the tokens and blanks it is put together from.          *)
(***************************************************************************)
EXTENDS ParseTree, TLC

Nil == [node |-> "nil"]  \* a null pointer, an item nobody set
IsNil(node) == node = Nil

\* get_text: the tokens with a blank between them.
Spaced(texts) ==
  Concatenated([k \in DOMAIN texts |->
    IF k = 1 THEN <<texts[k]>> ELSE <<" ", texts[k]>>])

LogicalOperators == {"and", "or", "nand", "nor", "xor", "xnor"}
RelationalOperators == {"=", "/=", "<", "<=", ">", ">=",
                        "?=", "?/=", "?<", "?<=", "?>", "?>="}
ShiftOperators == {"sll", "srl", "sla", "sra", "rol", "ror"}
AddingOperators == {"+", "-", "&"}
MultiplyingOperators == {"*", "/", "mod", "rem"}
Signs == {"+", "-"}

(* The operation of an operator token; a sign has one of its own. *)
BinaryOperation ==
  [and |-> "AND", or |-> "OR", nand |-> "NAND", nor |-> "NOR", xor |-> "XOR",
   xnor |-> "XNOR", sll |-> "SLL", srl |-> "SRL", sla |-> "SLA", sra |-> "SRA",
   rol |-> "ROL", ror |-> "ROR", mod |-> "MOD", rem |-> "REM"]
  @@ ("=" :> "EQ" @@ "/=" :> "NE" @@ "<" :> "LT" @@ "<=" :> "CONASGN"
      @@ ">" :> "GT" @@ ">=" :> "GE" @@ "?=" :> "EQ_MATCH" @@ "?/=" :> "NE_MATCH"
      @@ "?<" :> "LT_MATCH" @@ "?<=" :> "LE_MATCH" @@ "?>" :> "GT_MATCH"
      @@ "?>=" :> "GE_MATCH" @@ "+" :> "PLUS" @@ "-" :> "MINUS"
      @@ "&" :> "AMPERSAND" @@ "*" :> "MUL" @@ "/" :> "DIV" @@ "**" :> "DOUBLESTAR")
SignOperation == "+" :> "SIGN_PLUS" @@ "-" :> "SIGN_MINUS"
PrefixOperation ==
  [abs |-> "ABS", not |-> "NOT"]
  @@ [op \in LogicalOperators |-> BinaryOperation[op]] @@ SignOperation

(* to_string(operation_kind_e) *)
OperationText ==
  [NONE |-> "", PLUS |-> "+", MINUS |-> "-", AMPERSAND |-> "&", MUL |-> "*",
   DIV |-> "/", MOD |-> "mod", REM |-> "rem", DOUBLESTAR |-> "**", ABS |-> "abs",
   NOT |-> "not", SIGN_PLUS |-> "+", SIGN_MINUS |-> "-", AND |-> "and",
   OR |-> "or", NAND |-> "nand", NOR |-> "nor", XOR |-> "xor", XNOR |-> "xnor",
   SLL |-> "sll", SRL |-> "srl", SLA |-> "sla", SRA |-> "sra", ROL |-> "rol",
   ROR |-> "ror", EQ |-> "=", NE |-> "/=", LT |-> "<", CONASGN |-> "<=",
   GT |-> ">", GE |-> ">=", EQ_MATCH |-> "?=", NE_MATCH |-> "?/=",
   LT_MATCH |-> "?<", LE_MATCH |-> "?<=", GT_MATCH |-> "?>", GE_MATCH |-> "?>="]
--------------------------------------------------------------------------------
(* context_parser.cpp: from contexts to nodes.                             *)
RECURSIVE NameNode(_), Subtype(_), Expression(_), SimpleExpression(_),
          ElementConstraint(_)

TypeMark(ctx) ==
  IF Present(ctx) THEN [node |-> "type_mark", name |-> NameNode(Kid(ctx, "name"))]
  ELSE Nil

\* Mutant: the last type mark is a parameter even after RETURN.
SignatureAllParameters(ctx) ==
  IF ~Present(ctx) THEN Nil
  ELSE LET marks == Evaluated([k \in DOMAIN Kids(ctx, "type_mark") |->
                                 TypeMark(Kids(ctx, "type_mark")[k])])
       IN  [node |-> "signature", type_marks |-> marks, return_type_mark |-> Nil]

\* The type mark after RETURN is the last of the list the rule gives.
Signature(ctx) ==
  IF ~Present(ctx) THEN Nil
  ELSE LET marks == Evaluated([k \in DOMAIN Kids(ctx, "type_mark") |->
                                 TypeMark(Kids(ctx, "type_mark")[k])])
           returns == Has(ctx, {"return"}) /\ marks # <<>>
       IN  [node |-> "signature",
            type_marks |-> IF returns THEN Front(marks) ELSE marks,
            return_type_mark |-> IF returns THEN Last(marks) ELSE Nil]

ExplicitRange(ctx) ==
  [node |-> "explicit_range",
   left |-> SimpleExpression(Nth(ctx, "simple_expression", 0)),
   direction |-> IF Has(Kid(ctx, "direction"), {"downto"}) THEN "downto" ELSE "to",
   right |-> SimpleExpression(Nth(ctx, "simple_expression", 1))]

AttributeRange(ctx) ==
  [node |-> "attribute_range", name |-> GetText(Kid(ctx, "name")),
   attribute_designator |->
     GetText(Kid(Kid(ctx, "name_attribute_part"), "attribute_designator"))]

\* range: attribute_name | explicit_range
RangeOf(ctx) ==
  IF Present(Kid(ctx, "attribute_name")) THEN AttributeRange(Kid(ctx, "attribute_name"))
  ELSE ExplicitRange(Kid(ctx, "explicit_range"))

DiscreteRange(ctx) ==
  IF Present(Kid(ctx, "subtype_indication")) THEN Subtype(Kid(ctx, "subtype_indication"))
  ELSE RangeOf(Kid(ctx, "range"))

(* The constraint of the elements of an array is left unread. *)
ArrayConstraint(ctx) ==
  LET ranges == Kids(Kid(ctx, "index_constraint"), "discrete_range") IN
  [node |-> "array_constraint", is_open |-> Has(ctx, {"open"}),
   index_constraint |-> Evaluated([k \in DOMAIN ranges |-> DiscreteRange(ranges[k])])]

RecordConstraint(ctx) ==
  LET elements == Kids(ctx, "record_element_constraint") IN
  [node |-> "record_constraint",
   constraint |-> Evaluated([k \in DOMAIN elements |->
     [identifier |-> GetText(Kid(elements[k], "identifier")),
      constr |-> ElementConstraint(Kid(elements[k], "element_constraint"))]])]

ElementConstraint(ctx) ==
  IF Present(Kid(ctx, "array_constraint"))
  THEN ArrayConstraint(Kid(ctx, "array_constraint"))
  ELSE RecordConstraint(Kid(ctx, "record_constraint"))

Constraint(ctx) ==
  CASE ~Present(ctx) -> Nil
    [] Present(Kid(ctx, "range_constraint")) ->
         RangeOf(Kid(Kid(ctx, "range_constraint"), "range"))
    [] OTHER -> ElementConstraint(Kid(ctx, "element_constraint"))

\* A resolution is the name of a function: the parenthesized resolution of elements,
\* elem_resolution, is left out.
Subtype(ctx) ==
  [node |-> "subtype_indication",
   resolution |-> GetText(Kid(Kid(ctx, "resolution_indication"), "name")),
   type |-> TypeMark(Kid(ctx, "type_mark")),
   constr |-> Constraint(Kid(ctx, "constraint"))]

ActualDesignator(ctx) ==
  [node |-> "actual_designator", is_inertial |-> Has(ctx, {"inertial"}),
   expr |-> Expression(Kid(ctx, "expression")),
   indication |-> IF Present(Kid(ctx, "subtype_indication"))
                  THEN Subtype(Kid(ctx, "subtype_indication")) ELSE Nil,
   is_open |-> Has(ctx, {"open"})]

Association(ctx) ==
  LET formal == Kid(ctx, "formal_part")
      actual == Kid(ctx, "actual_part")
  IN  [node |-> "association_element",
       formal_name |-> GetText(Nth(formal, "name", 0)),
       formal_paren_name |-> GetText(Nth(formal, "name", 1)),
       actual_name |-> GetText(Kid(actual, "name")),
       act_designator |-> ActualDesignator(Kid(actual, "actual_designator"))]

Associations(ctx) ==
  LET elements == Kids(ctx, "association_element") IN
  Evaluated([k \in DOMAIN elements |-> Association(elements[k])])

(* A name is its last part and the name before it.  The parts that are     *)
(* neither a literal, a suffix nor an attribute leave value empty.         *)
NameNode(ctx) ==
  LET part(kind, value, more) ==
        [node |-> "name_node", kind |-> kind, value |-> value,
         prefix |-> NameNode(Kid(ctx, "name")), part |-> more]
      attribute == Kid(ctx, "name_attribute_part")
      designator == GetText(Kid(attribute, "attribute_designator"))
  IN  CASE ~Present(ctx) -> Nil
        [] Present(Kid(ctx, "name_literal")) ->
             part("SIMPLE", GetText(Kid(ctx, "name_literal")), Nil)
        [] Present(Kid(ctx, "external_name")) ->
             part("EXTERNAL", Spaced(GetText(Kid(ctx, "external_name"))), Nil)
        [] Present(Kid(ctx, "name_slice_part")) ->
             part("SLICE", <<>>,
                  ExplicitRange(Kid(Kid(ctx, "name_slice_part"), "explicit_range")))
        [] Present(attribute) ->
             part("ATTRIBUTE", designator,
                  [node |-> "name_attribute", designator |-> designator,
                   signature |-> Signature(Kid(attribute, "signature"))])
        [] Present(Kid(ctx, "association_list")) ->
             part("CALL", <<>>,
                  [node |-> "name_arguments",
                   associations |-> Associations(Kid(ctx, "association_list"))])
        [] OTHER -> part("SELECTED", GetText(Kid(ctx, "suffix")), Nil)

Literal(texts) == [node |-> "literal_node", text |-> texts]

\* Mutant: the elements of an aggregate are filled in.
AggregateInFull(ctx) ==
  LET elements == Kids(ctx, "element_association") IN
  [node |-> "aggregate",
   elem_assoc |-> Evaluated([k \in DOMAIN elements |->
     [choices |-> <<>>, expr |-> Expression(Kid(elements[k], "expression"))]])]

(* Only the node: its elements are never read. *)
Aggregate(ctx) == [node |-> "aggregate", elem_assoc |-> <<>>]

NumericLiteral(ctx) ==
  LET name == Kid(ctx, "name") IN
  IF /\ Present(name)
     /\ ~Present(Kid(ctx, "DECIMAL_LITERAL")) /\ ~Present(Kid(ctx, "BASED_LITERAL"))
     /\ ~Present(Kid(Kid(name, "name_literal"), "CHARACTER_LITERAL"))
  THEN NameNode(name)
  ELSE Literal(Spaced(GetText(ctx)))

(* A qualified expression after NEW is not read. *)
Allocator(ctx) ==
  [node |-> "allocator",
   si |-> IF Present(Kid(ctx, "subtype_indication"))
          THEN Subtype(Kid(ctx, "subtype_indication")) ELSE Nil,
   qe |-> Nil]

Qualified(ctx) ==
  [node |-> "qualified_expression", type |-> TypeMark(Kid(ctx, "type_mark")),
   aggr |-> Aggregate(Kid(ctx, "aggregate"))]

Primary(ctx) ==
  CASE Present(Kid(ctx, "numeric_literal")) -> NumericLiteral(Kid(ctx, "numeric_literal"))
    [] Present(Kid(ctx, "allocator")) -> Allocator(Kid(ctx, "allocator"))
    [] Present(Kid(ctx, "aggregate")) -> Aggregate(Kid(ctx, "aggregate"))
    [] Present(Kid(ctx, "qualified_expression")) ->
         Qualified(Kid(ctx, "qualified_expression"))
    [] OTHER -> Literal(GetText(ctx))

Operator(ctx, rule) == GetText(Kid(ctx, rule))[1]

Simple(kind, op, args) ==
  [node |-> "simple_expression", kind |-> kind, op |-> op, args |-> args]

\* Mutant: the two operands change places.
SimpleExpressionSwapped(ctx) ==
  LET operand(i) == SimpleExpression(Nth(ctx, "simple_expression", i))
      primary(i) == Primary(Nth(ctx, "primary", i))
  IN  IF Present(Kid(ctx, "multiplying_operator"))
      THEN Simple("MUL_DIV", BinaryOperation[Operator(ctx, "multiplying_operator")],
                  <<operand(1), operand(0)>>)
      ELSE Simple("PRIMARY", "NONE", <<primary(0)>>)

SimpleExpression(ctx) ==
  LET operand(i) == SimpleExpression(Nth(ctx, "simple_expression", i))
      primary(i) == Primary(Nth(ctx, "primary", i))
  IN  CASE Has(ctx, {"abs", "not"}) ->
             Simple("PREFIX", PrefixOperation[TokenOf(ctx, {"abs", "not"})], <<operand(0)>>)
        [] Present(Kid(ctx, "logical_operator")) ->
             Simple("PREFIX", PrefixOperation[Operator(ctx, "logical_operator")],
                    <<operand(0)>>)
        [] Present(Kid(ctx, "sign")) ->
             Simple("PREFIX", SignOperation[Operator(ctx, "sign")], <<operand(0)>>)
        [] Present(Kid(ctx, "multiplying_operator")) ->
             Simple("MUL_DIV", BinaryOperation[Operator(ctx, "multiplying_operator")],
                    <<operand(0), operand(1)>>)
        [] Present(Kid(ctx, "adding_operator")) ->
             Simple("ADD_SUB", BinaryOperation[Operator(ctx, "adding_operator")],
                    <<operand(0), operand(1)>>)
        [] Has(ctx, {"**"}) ->
             Simple("POWER", "DOUBLESTAR", <<primary(0), primary(1)>>)
        [] OTHER -> Simple("PRIMARY", "NONE", <<primary(0)>>)

Expression(ctx) ==
  LET operators == {r \in {"shift_operator", "relational_operator", "logical_operator"} :
                      Present(Kid(ctx, r))}
  IN  CASE ~Present(ctx) -> Nil
        [] Has(ctx, {"??"}) ->
             [node |-> "conditional_primary", prim |-> Primary(Kid(ctx, "primary"))]
        [] Present(Kid(ctx, "simple_expression")) ->
             SimpleExpression(Kid(ctx, "simple_expression"))
        [] OTHER ->
             [node |-> "binary_expression",
              op |-> BinaryOperation[Operator(ctx, CHOOSE r \in operators : TRUE)],
              lhs |-> Expression(Nth(ctx, "expression", 0)),
              rhs |-> Expression(Nth(ctx, "expression", 1))]
--------------------------------------------------------------------------------
(* ast_helper.h: the text of a node.                                       *)
RECURSIVE NameText(_), ItemText(_)

Parenthesized(text) == <<"(">> \o text \o <<")">>
CommaSeparated(texts) ==
  Concatenated([k \in DOMAIN texts |->
    IF k = 1 THEN texts[k] ELSE <<",", " ">> \o texts[k]])

JoinBinary(lhs, op, rhs) ==
  CASE lhs = <<>> -> rhs
    [] rhs = <<>> -> lhs
    [] OTHER -> lhs \o <<" ", op, " ">> \o rhs

TypeText(type) == IF IsNil(type) THEN <<>> ELSE NameText(type.name)

SignatureText(signature) ==
  IF IsNil(signature) THEN <<>>
  ELSE LET marks == CommaSeparated([k \in DOMAIN signature.type_marks |->
                                      TypeText(signature.type_marks[k])])
           return == IF IsNil(signature.return_type_mark) THEN <<>>
                     ELSE (IF marks = <<>> THEN <<>> ELSE <<" ">>)
                            \o <<"return", " ">> \o TypeText(signature.return_type_mark)
       IN  <<"[">> \o marks \o return \o <<"]">>

RangeText(range) == JoinBinary(ItemText(range.left), range.direction, ItemText(range.right))

(* The constraint is not part of the text. *)
SubtypeText(si) ==
  (IF si.resolution = <<>> THEN <<>> ELSE si.resolution \o <<" ">>) \o TypeText(si.type)

DesignatorText(designator) ==
  IF designator.is_open THEN <<"open">>
  ELSE (IF designator.is_inertial THEN <<"inertial", " ">> ELSE <<>>)
         \o (IF IsNil(designator.indication) THEN ItemText(designator.expr)
             ELSE SubtypeText(designator.indication))

AssociationText(assoc) ==
  LET designator == DesignatorText(assoc.act_designator)
      actual == CASE assoc.actual_name = <<>> -> designator
                  [] designator = <<>> -> assoc.actual_name
                  [] OTHER -> assoc.actual_name \o Parenthesized(designator)
      formal == assoc.formal_name
                  \o (IF assoc.formal_paren_name = <<>> THEN <<>>
                      ELSE Parenthesized(assoc.formal_paren_name))
  IN  IF assoc.formal_name = <<>> THEN actual
      ELSE formal \o <<" ", "=>", " ">> \o actual

AggregateText(aggr) ==
  Parenthesized(CommaSeparated([k \in DOMAIN aggr.elem_assoc |->
                                  ItemText(aggr.elem_assoc[k].expr)]))

QualifiedText(qe) == TypeText(qe.type) \o <<"'">> \o AggregateText(qe.aggr)

AllocatorText(alloc) ==
  <<"new">> \o (IF IsNil(alloc.si) THEN <<>> ELSE <<" ">> \o SubtypeText(alloc.si))

\* Mutant: a blank after the sign.
SimpleTextSignApart(node) ==
  LET text(i) == ItemText(node.args[i]) IN
  CASE node.kind = "PRIMARY" -> text(1)
    [] node.kind = "PREFIX" -> <<OperationText[node.op], " ">> \o text(1)
    [] OTHER -> JoinBinary(text(1), OperationText[node.op], text(2))

(* A sign stands before its operand without a blank. *)
SimpleText(node) ==
  LET text(i) == ItemText(node.args[i]) IN
  CASE node.kind = "PRIMARY" -> text(1)
    [] node.kind = "PREFIX" ->
         (IF node.op \in {"SIGN_PLUS", "SIGN_MINUS"} THEN <<OperationText[node.op]>>
          ELSE <<OperationText[node.op], " ">>) \o text(1)
    [] OTHER -> JoinBinary(text(1), OperationText[node.op], text(2))

ItemText(item) ==
  CASE item.node = "nil" -> <<>>
    [] item.node = "simple_expression" -> SimpleText(item)
    [] item.node = "conditional_primary" -> <<"??", " ">> \o ItemText(item.prim)
    [] item.node = "literal_node" -> item.text
    [] item.node = "allocator" -> AllocatorText(item)
    [] item.node = "aggregate" -> AggregateText(item)
    [] item.node = "qualified_expression" -> QualifiedText(item)
    [] item.node = "binary_expression" ->
         JoinBinary(ItemText(item.lhs), OperationText[item.op], ItemText(item.rhs))
    [] item.node = "name_node" -> NameText(item)

NameText(n) ==
  LET prefix == NameText(n.prefix) IN
  CASE n.node = "nil" -> <<>>
    [] n.kind \in {"SIMPLE", "EXTERNAL"} -> n.value
    [] n.kind = "SELECTED" -> prefix \o <<".">> \o n.value
    [] n.kind = "SLICE" -> prefix \o Parenthesized(RangeText(n.part))
    [] n.kind = "ATTRIBUTE" ->
         prefix \o SignatureText(n.part.signature) \o <<"'">> \o n.part.designator
    [] n.kind = "CALL" ->
         prefix \o Parenthesized(CommaSeparated(
           [k \in DOMAIN n.part.associations |-> AssociationText(n.part.associations[k])]))
================================================================================
