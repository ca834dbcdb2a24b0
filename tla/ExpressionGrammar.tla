--------------------------- MODULE ExpressionGrammar ---------------------------
(***************************************************************************)
(* The rules expression, simple_expression and primary of vhdlParser.g4    *)
(* on a text of tokens: which tree the generated parser finds, its         *)
(* alternatives giving the operators their precedence.                     *)
(***************************************************************************)
EXTENDS Expressions, Integers

CONSTANTS
  Operators,  \* the operator tokens a text is written with
  Operands    \* its operands, a sequence of identifiers

ASSUME OperatorsAssumption == Operators \subseteq
         (LogicalOperators \cup RelationalOperators \cup ShiftOperators
            \cup AddingOperators \cup MultiplyingOperators
            \cup {"abs", "not", "**", "??"})
--------------------------------------------------------------------------------
(* A left-recursive rule calls itself with a level and takes a binary      *)
(* operator of at least that level; the levels are those of the            *)
(* alternatives, the last one the lowest.  A parse is the context and the  *)
(* tokens left; Absent is a syntax error.                                  *)
RECURSIVE SimpleParse(_, _), SimpleLoop(_, _), ExpressionParse(_, _),
          ExpressionLoop(_, _)

Parsed(ctx, rest) == [ctx |-> ctx, rest |-> rest]
Failure == Parsed(Absent, <<>>)

PrefixLevel == 4
MultiplyingLevel == 3
\* Mutant: the alternative of the sign stands before that of the prefixes.
SignLevelFirst == 4
SignLevel == 2
AddingLevel == 1

ExpressionRule(op) ==
  CASE op \in ShiftOperators -> [rule |-> "shift_operator", level |-> 3]
    [] op \in RelationalOperators -> [rule |-> "relational_operator", level |-> 2]
    [] op \in LogicalOperators -> [rule |-> "logical_operator", level |-> 1]
    [] OTHER -> [rule |-> "", level |-> -1]

SimpleRule(op) ==
  CASE op \in MultiplyingOperators ->
         [rule |-> "multiplying_operator", level |-> MultiplyingLevel]
    [] op \in AddingOperators -> [rule |-> "adding_operator", level |-> AddingLevel]
    [] OTHER -> [rule |-> "", level |-> -1]

NameContext(id) == Context("name", <<Context("name_literal", <<Token(id)>>)>>)
PrimaryName(id) ==
  Context("primary", <<Context("numeric_literal", <<NameContext(id)>>)>>)

PrimaryParse(tokens) ==
  CASE tokens = <<>> -> Failure
    [] tokens[1] \in ToSet(Operands) -> Parsed(PrimaryName(tokens[1]), Tail(tokens))
    [] tokens[1] = "(" ->
         LET inner == ExpressionParse(Tail(tokens), 0) IN
         IF Present(inner.ctx) /\ inner.rest # <<>> /\ inner.rest[1] = ")"
         THEN Parsed(Context("primary", <<Context("aggregate",
                      <<Token("("), Context("element_association", <<inner.ctx>>),
                        Token(")")>>)>>), Tail(inner.rest))
         ELSE Failure
    [] OTHER -> Failure

PowerParse(tokens) ==
  LET first == PrimaryParse(tokens)
      second == PrimaryParse(Tail(first.rest))
  IN  CASE ~Present(first.ctx) -> Failure
        [] first.rest = <<>> -> Parsed(Context("simple_expression", <<first.ctx>>), <<>>)
        [] first.rest[1] # "**" ->
             Parsed(Context("simple_expression", <<first.ctx>>), first.rest)
        [] Present(second.ctx) ->
             Parsed(Context("simple_expression",
                     <<first.ctx, Token("**"), second.ctx>>), second.rest)
        [] OTHER -> Failure

PrefixParse(operator, operand) ==
  IF Present(operand.ctx)
  THEN Parsed(Context("simple_expression", <<operator, operand.ctx>>), operand.rest)
  ELSE Failure

SimpleParse(tokens, level) ==
  LET first == IF tokens = <<>> THEN "" ELSE tokens[1] IN
  SimpleLoop(
    CASE first \in {"abs", "not"} ->
           PrefixParse(Token(first), SimpleParse(Tail(tokens), PrefixLevel))
      [] first \in LogicalOperators ->
           PrefixParse(Context("logical_operator", <<Token(first)>>),
                       SimpleParse(Tail(tokens), PrefixLevel))
      [] first \in Signs ->
           PrefixParse(Context("sign", <<Token(first)>>),
                       SimpleParse(Tail(tokens), SignLevel))
      [] OTHER -> PowerParse(tokens),
    level)

\* Mutant: the right operand takes operators of its own level.
SimpleLoopRight(parse, level) ==
  IF parse.rest = <<>> THEN parse
  ELSE LET op == SimpleRule(parse.rest[1])
           right == SimpleParse(Tail(parse.rest), op.level)
       IN  IF op.level < level \/ op.level < 0 THEN parse
           ELSE IF ~Present(right.ctx) THEN Failure
           ELSE SimpleLoop(
                  Parsed(Context("simple_expression",
                          <<parse.ctx, Context(op.rule, <<Token(parse.rest[1])>>),
                            right.ctx>>), right.rest), level)

SimpleLoop(parse, level) ==
  IF parse.rest = <<>> THEN parse
  ELSE LET op == SimpleRule(parse.rest[1])
           right == SimpleParse(Tail(parse.rest), op.level + 1)
       IN  IF op.level < level \/ op.level < 0 THEN parse
           ELSE IF ~Present(right.ctx) THEN Failure
           ELSE SimpleLoop(
                  Parsed(Context("simple_expression",
                          <<parse.ctx, Context(op.rule, <<Token(parse.rest[1])>>),
                            right.ctx>>), right.rest), level)

ExpressionLoop(parse, level) ==
  IF parse.rest = <<>> THEN parse
  ELSE LET op == ExpressionRule(parse.rest[1])
           right == ExpressionParse(Tail(parse.rest), op.level + 1)
       IN  IF op.level < level \/ op.level < 0 THEN parse
           ELSE IF ~Present(right.ctx) THEN Failure
           ELSE ExpressionLoop(
                  Parsed(Context("expression",
                          <<parse.ctx, Context(op.rule, <<Token(parse.rest[1])>>),
                            right.ctx>>), right.rest), level)

ExpressionParse(tokens, level) ==
  LET conditional == PrimaryParse(Tail(tokens))
      simple == SimpleParse(tokens, 0)
  IN  CASE tokens = <<>> -> Failure
        [] tokens[1] = "??" /\ Present(conditional.ctx) ->
             ExpressionLoop(
               Parsed(Context("expression", <<Token("??"), conditional.ctx>>),
                     conditional.rest), level)
        [] tokens[1] # "??" /\ Present(simple.ctx) ->
             ExpressionLoop(Parsed(Context("expression", <<simple.ctx>>), simple.rest),
                            level)
        [] OTHER -> Failure

Tree(tokens) ==
  LET parse == ExpressionParse(tokens, 0) IN
  IF parse.rest = <<>> THEN parse.ctx ELSE Absent

(* A text that can still become an expression. *)
OpenIn(tokens) ==
  Len(SelectSeq(tokens, LAMBDA t : t = "(")) - Len(SelectSeq(tokens, LAMBDA t : t = ")"))
Viable(tokens) ==
  /\ OpenIn(tokens) >= 0
  /\ \E operand \in {<<>>, <<Operands[1]>>} :
       Present(Tree(tokens \o operand \o [k \in 1..OpenIn(tokens) |-> ")"]))
--------------------------------------------------------------------------------
OperandsOf(tokens) == SelectSeq(tokens, LAMBDA t : t \in ToSet(Operands))

(* How deep in parentheses each token is. *)
DepthAt(tokens, k) ==
  OpenIn(SubSeq(tokens, 1, k)) + (IF tokens[k] = ")" THEN 1 ELSE 0)

(* The text without what is in its parentheses. *)
Erased(tokens) ==
  LET kept == SelectSeq([k \in DOMAIN tokens |-> k], LAMBDA k :
                DepthAt(tokens, k) = 0 \/ (DepthAt(tokens, k) = 1 /\ tokens[k] \in {"(", ")"}))
  IN  [n \in DOMAIN kept |-> tokens[kept[n]]]

PrefixPosition(tokens, k) ==
  k = 1 \/ ~(tokens[k - 1] \in ToSet(Operands) \cup {")"})

(* The reference: a text is divided at the last of its weakest binary       *)
(* operators; a sign takes the whole term, another prefix its factor.       *)
RECURSIVE Grouping(_)
Grouping(tokens) ==
  LET binary(class) == {k \in DOMAIN tokens : tokens[k] \in class
                          /\ DepthAt(tokens, k) = 0 /\ ~PrefixPosition(tokens, k)}
      last(class) == CHOOSE k \in binary(class) : \A other \in binary(class) : k >= other
      divided(class) == <<"{">> \o Grouping(SubSeq(tokens, 1, last(class) - 1))
                          \o <<tokens[last(class)]>>
                          \o Grouping(SubSeq(tokens, last(class) + 1, Len(tokens))) \o <<"}">>
      prefixed == <<"{", tokens[1]>> \o Grouping(Tail(tokens)) \o <<"}">>
  IN  CASE binary(LogicalOperators) # {} -> divided(LogicalOperators)
        [] binary(RelationalOperators) # {} -> divided(RelationalOperators)
        [] binary(ShiftOperators) # {} -> divided(ShiftOperators)
        [] binary(AddingOperators) # {} -> divided(AddingOperators)
        [] tokens[1] \in Signs -> prefixed
        [] binary(MultiplyingOperators) # {} -> divided(MultiplyingOperators)
        [] tokens[1] \in Operators -> prefixed
        [] binary({"**"}) # {} -> divided({"**"})
        [] OTHER -> tokens
================================================================================
