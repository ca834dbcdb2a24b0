------------------------------ MODULE NameContexts ------------------------------
(***************************************************************************)
(* Names as vhdlParser.g4 parses them.  The rule name is left-recursive: a *)
(* name grows by a suffix, a slice, an attribute or arguments, and may     *)
(* itself become an argument, a formal or a bound.                         *)
(***************************************************************************)
EXTENDS Expressions

LiteralName(rule, id) ==
  Context("name", <<Context("name_literal", <<Context(rule, <<Token(id)>>)>>)>>)
Identifier(id) == LiteralName("identifier", id)

Primary1(ctx) == Context("primary", <<ctx>>)
PrimaryOf(n) == Primary1(Context("numeric_literal", <<n>>))
SimpleOf(primary) == Context("simple_expression", <<primary>>)
ExpressionOf(primary) == Context("expression", <<SimpleOf(primary)>>)
PhysicalLiteral ==
  Primary1(Context("numeric_literal",
    <<Context("DECIMAL_LITERAL", <<Token("10")>>), Identifier("ns")>>))

RangeFrom(left, direction, right) ==
  Context("explicit_range",
    <<SimpleOf(PrimaryOf(left)), Context("direction", <<Token(direction)>>),
      SimpleOf(PrimaryOf(right))>>)
TypeMarkOf(n) == Context("type_mark", <<n>>)
AggregateOf(n) ==
  Context("aggregate",
    <<Token("("), Context("element_association", <<ExpressionOf(PrimaryOf(n))>>),
      Token(")")>>)
QualifiedOf(n) ==
  Context("qualified_expression",
    <<TypeMarkOf(Identifier("t")), Token("'"), AggregateOf(n)>>)
SubtypeOf(resolution, n, constraint) ==
  Context("subtype_indication",
    Optional(resolution) \o <<TypeMarkOf(n)>> \o Optional(constraint))
RangeConstraint ==
  Context("constraint", <<Context("range_constraint",
    <<Token("range"), Context("range",
      <<RangeFrom(Identifier("lo"), "to", Identifier("hi"))>>)>>)>>)
ArrayConstraintOn(n) ==
  Context("constraint", <<Context("element_constraint", <<Context("array_constraint",
    <<Context("index_constraint",
      <<Token("("), Context("discrete_range", <<Context("range",
           <<RangeFrom(Identifier("lo"), "to", Identifier("hi"))>>)>>),
        Token(","), Context("discrete_range", <<SubtypeOf(Absent, n, Absent)>>),
        Token(")")>>)>>)>>)>>)
ResolvedBy(id) == Context("resolution_indication", <<Identifier(id)>>)

Designator(kids) == Context("actual_designator", kids)
ExpressionActual(primary) == Designator(<<ExpressionOf(primary)>>)

PlainActual(designator) == Context("actual_part", <<designator>>)
ListOf(elements) ==
  Context("association_list", <<Token("(")>> \o Separated(",", elements) \o <<Token(")")>>)
\* The association list of a map; bound says whether its formals are known.
Mapped(bound, elements) ==
  [rule |-> "association_list", text |-> "", bound |-> bound,
   kids |-> ListOf(elements).kids]
Element(formal, actual) ==
  Context("association_element",
    IF Present(formal) THEN <<Context("formal_part", <<formal>>), Token("=>"), actual>>
    ELSE <<actual>>)
Call(n, elements) == Context("name", <<n, ListOf(elements)>>)

\* A call of one argument without a formal.
IsConversion(n) ==
  LET elements == Kids(Kid(n, "association_list"), "association_element") IN
  Len(elements) = 1 /\ ~Present(Kid(elements[1], "formal_part"))

(* The text n as an actual_part: name ( designator ) is the alternative the *)
(* rule tries first.                                                       *)
ActualPart(n) ==
  LET inner == Kid(Kid(Kid(n, "association_list"), "association_element"), "actual_part")
      argument == IF Present(Kid(inner, "name"))
                  THEN ExpressionActual(PrimaryOf(
                         Call(Kid(inner, "name"),
                              <<Element(Absent,
                                  PlainActual(Kid(inner, "actual_designator")))>>)))
                  ELSE Kid(inner, "actual_designator")
  IN  IF IsConversion(n)
      THEN Context("actual_part", <<Kid(n, "name"), Token("("), argument, Token(")")>>)
      ELSE PlainActual(ExpressionActual(PrimaryOf(n)))

f == Identifier("f")
x == Identifier("x")
Positional(designator) == Call(f, <<Element(Absent, PlainActual(designator))>>)

(* What one step makes of the name n. *)
WithPart(n) ==
  { Context("name", <<n, Token("."), Context("suffix", <<Token(s)>>)>>) : s \in {"b", "all"} }
  \cup
  { Context("name", <<n, Context("name_slice_part",
      <<Token("("), RangeFrom(Identifier("lo"), "downto", Identifier("hi")), Token(")")>>)>>) }
  \cup
  { Context("name", <<n, Context("name_attribute_part",
      signature \o <<Token("'"), Context("attribute_designator", <<Token("d")>>)>>)>>) :
      signature \in
        { <<>> } \cup
        { << Context("signature", <<Token("[")>> \o marks \o <<Token("]")>>) >> :
            marks \in { <<TypeMarkOf(Identifier("t"))>>,
                        <<Token("return"), TypeMarkOf(Identifier("u"))>>,
                        <<TypeMarkOf(Identifier("t")), Token(","),
                          TypeMarkOf(Identifier("u")), Token("return"),
                          TypeMarkOf(Identifier("v"))>> } } }
  \cup
  { Call(n, <<Element(Absent, ActualPart(x)),
              Element(Absent, PlainActual(ExpressionActual(PhysicalLiteral)))>>),
    Call(n, <<Element(Absent, PlainActual(Designator(<<Token("open")>>)))>>) }

WithinAnother(n) ==
  { Call(f, <<Element(Absent, ActualPart(n))>>),
    Call(f, <<Element(n, ActualPart(x))>>),
    Call(f, <<Element(x, ActualPart(x)), Element(Identifier("y"), ActualPart(n))>>),
    Context("name", <<f, Context("name_slice_part",
      <<Token("("), RangeFrom(n, "to", x), Token(")")>>)>>),
    Positional(Designator(<<Token("inertial"), ExpressionOf(PrimaryOf(n))>>)),
    Positional(Designator(<<SubtypeOf(Absent, n, RangeConstraint)>>)),
    Positional(Designator(<<SubtypeOf(ResolvedBy("r"), n, Absent)>>)),
    Positional(ExpressionActual(Primary1(AggregateOf(n)))),
    Positional(ExpressionActual(Primary1(QualifiedOf(n)))),
    Positional(ExpressionActual(Primary1(Context("allocator",
      <<Token("new"), SubtypeOf(Absent, n, RangeConstraint)>>)))),
    Positional(ExpressionActual(Primary1(Context("allocator",
      <<Token("new"), QualifiedOf(n)>>)))) }

ExternalName ==
  Context("name", <<Context("external_name",
    <<Token("<<"), Token("signal"), Token("."), Token("u"), Token(":"),
      SubtypeOf(Absent, Identifier("t"), Absent), Token(">>")>>)>>)

(* Where a name stands. *)
Uses(n) ==
  { ExpressionOf(PrimaryOf(n)),
    Context("expression",
      <<ExpressionOf(PrimaryOf(x)), Context("relational_operator", <<Token("=")>>),
        Context("expression", <<Context("simple_expression",
          <<Context("sign", <<Token("-")>>), SimpleOf(PrimaryOf(n))>>)>>)>>),
    Context("expression", <<Token("??"), PrimaryOf(n)>>),
    ExpressionOf(Primary1(Context("allocator", <<Token("new"), SubtypeOf(Absent, n, Absent)>>))),
    ExpressionOf(Primary1(Context("qualified_expression",
      <<TypeMarkOf(n), Token("'"), AggregateOf(x)>>))),
    ExpressionOf(PhysicalLiteral),
    SubtypeOf(Absent, n, RangeConstraint),
    SubtypeOf(Absent, Identifier("t"), ArrayConstraintOn(n)),
    SubtypeOf(ResolvedBy("r"), n, Absent),
    RangeFrom(x, "to", n) }
  \cup
  { Mapped(bound, elements) : bound \in BOOLEAN, elements \in
      { <<Element(x, ActualPart(n)),
          Element(Identifier("y"), PlainActual(Designator(<<Token("open")>>)))>>,
        <<Element(n, ActualPart(x))>> } }
================================================================================
