---------------------------- MODULE ExpressionTexts ----------------------------
(***************************************************************************)
(* An expression on its way through the front end.  Its source is a text   *)
(* written token by token, whose operators the grammar has to group, or a  *)
(* name grown part by part and put where names stand.  It is parsed,       *)
(* printed (to_string), resolved and validated.                            *)
(***************************************************************************)
EXTENDS ExpressionGrammar, NameContexts, ExpressionWalks

CONSTANTS
  MaxTokens,    \* bound: the tokens of a text
  MaxParts,     \* bound: how often a name grows
  Declarations  \* sets of identifiers, one of which the scope declares

VARIABLES
  pc,
  text, name,          \* the text, or the context of the name; one of them is empty
  parts,
  source,              \* the context that is parsed
  node, printed,
  lookups,             \* what the resolver looked up
  declared, reports    \* the scope, and what the validator reports

vars == <<pc, text, name, parts, source, node, printed, lookups, declared, reports>>
--------------------------------------------------------------------------------
NodeOf(ctx) ==
  CASE ctx.rule = "expression" -> Expression(ctx)
    [] ctx.rule = "subtype_indication" -> Subtype(ctx)
    [] ctx.rule = "explicit_range" -> ExplicitRange(ctx)
    [] ctx.rule = "association_list" ->
         [node |-> "association_list", bound |-> ctx.bound, associations |-> Associations(ctx)]

TextOf(item) ==
  CASE item.node = "subtype_indication" -> SubtypeText(item)
    [] item.node = "explicit_range" -> RangeText(item)
    [] item.node = "association_list" ->
         Parenthesized(CommaSeparated(
           [k \in DOMAIN item.associations |-> AssociationText(item.associations[k])]))
    [] OTHER -> ItemText(item)

(* lookup(scope, string): a string of several tokens is no key of the scope. *)
Found(string, scope) == Len(string) = 1 /\ string[1] \in scope

Init ==
  /\ pc = "writing"
  /\ text = <<>> /\ name = Absent /\ parts = 0
  /\ source = Absent
  /\ node = Nil
  /\ printed = <<>>
  /\ lookups = {}
  /\ declared = {}
  /\ reports = {}

Write ==
  /\ pc = "writing"
  /\ ~Present(name)
  /\ Len(text) < MaxTokens
  /\ \E token \in Operators \cup {"(", ")"} \cup
          (IF Len(OperandsOf(text)) < Len(Operands)
           THEN {Operands[Len(OperandsOf(text)) + 1]} ELSE {}) :
       /\ Viable(Append(text, token))
       /\ text' = Append(text, token)
  /\ UNCHANGED <<pc, name, parts, source, node, printed, lookups, declared, reports>>

Name ==
  /\ pc = "writing"
  /\ text = <<>> /\ ~Present(name)
  /\ name' \in {Identifier("a"), LiteralName("CHARACTER_LITERAL", "'c'"), ExternalName}
  /\ UNCHANGED <<pc, text, parts, source, node, printed, lookups, declared, reports>>

Grow ==
  /\ pc = "writing"
  /\ Present(name)
  /\ parts < MaxParts
  /\ name' \in WithPart(name) \cup WithinAnother(name)
  /\ parts' = parts + 1
  /\ UNCHANGED <<pc, text, source, node, printed, lookups, declared, reports>>

ParseSource ==
  /\ pc = "writing"
  /\ \E ctx \in IF Present(name) THEN Uses(name)
                ELSE IF text = <<>> THEN {} ELSE {Tree(text)} \ {Absent} :
       /\ source' = ctx
       /\ node' = NodeOf(ctx)
  /\ pc' = "parsed"
  /\ UNCHANGED <<text, name, parts, printed, lookups, declared, reports>>

PrintNode ==
  /\ pc = "parsed"
  /\ printed' = TextOf(node)
  /\ pc' = "printed"
  /\ UNCHANGED <<text, name, parts, source, node, lookups, declared, reports>>

Resolve ==
  /\ pc = "printed"
  /\ lookups' = Lookups(node)
  /\ pc' = "resolved"
  /\ UNCHANGED <<text, name, parts, source, node, printed, declared, reports>>

Validate ==
  /\ pc = "resolved"
  /\ declared' \in Declarations
  /\ reports' = {ask \in Asked(node) : ~Found(ask.name, declared')}
  /\ pc' = "validated"
  /\ UNCHANGED <<text, name, parts, source, node, printed, lookups>>

Next == Write \/ Name \/ Grow \/ ParseSource \/ PrintNode \/ Resolve \/ Validate

Spec == Init /\ [][Next]_vars
--------------------------------------------------------------------------------
(* A text the language allows: signs stand at the beginning of a simple     *)
(* expression only.                                                        *)
WellSigned ==
  \A k \in DOMAIN text :
    text[k] \in Signs /\ PrefixPosition(text, k) =>
      k = 1 \/ text[k - 1] \in {"("} \cup ShiftOperators \cup RelationalOperators
      \/ (text[k - 1] \in LogicalOperators /\ ~PrefixPosition(text, k - 1))

(* The grouping of the nodes. *)
RECURSIVE NodeGrouping(_)
NodeGrouping(item) ==
  LET braces(s) == <<"{">> \o s \o <<"}">> IN
  CASE item.node = "binary_expression" ->
         braces(NodeGrouping(item.lhs) \o <<OperationText[item.op]>> \o NodeGrouping(item.rhs))
    [] item.node = "conditional_primary" -> braces(<<"??">> \o NodeGrouping(item.prim))
    [] item.node = "simple_expression" /\ item.kind = "PRIMARY" -> NodeGrouping(item.args[1])
    [] item.node = "simple_expression" /\ item.kind = "PREFIX" ->
         braces(<<OperationText[item.op]>> \o NodeGrouping(item.args[1]))
    [] item.node = "simple_expression" ->
         braces(NodeGrouping(item.args[1]) \o <<OperationText[item.op]>>
                  \o NodeGrouping(item.args[2]))
    [] OTHER -> ItemText(item)

(* The tree of an expression has the grouping of the language: operators of  *)
(* one class from left to right, the logical ones weakest, a sign weaker    *)
(* than the multiplying operators and stronger than the adding ones.        *)
GroupingFollowsPrecedence ==
  pc = "parsed" /\ text # <<>> /\ WellSigned =>
    NodeGrouping(node) = Grouping(Erased(text))

Punctuation ==
  {"(", ")", "[", "]", ",", ".", "'", "=>", " ", "<<", ">>", ":", "'c'",
   "+", "-", "&", "*", "/", "**", "??"} \cup RelationalOperators
Word(token) == token \notin Punctuation

(* Two words with nothing between them are one. *)
Joined(tokens) ==
  FoldLeft(LAMBDA read, token :
             IF read # <<>> /\ Word(Last(read)) /\ Word(token)
             THEN Append(Front(read), Last(read) \o token)
             ELSE Append(read, token),
           <<>>, tokens)

Until(tokens, ends) ==
  IF ends = {} THEN tokens
  ELSE SubSeq(tokens, 1, (CHOOSE k \in ends : \A e \in ends : k <= e) - 1)

(* What the lexer makes of a printed text: two minus signs together begin a *)
(* comment, blanks separate.                                               *)
Read(string) ==
  SelectSeq(
    Joined(Until(string, {k \in 1..(Len(string) - 1) :
                            string[k] = "-" /\ string[k + 1] = "-"})),
    LAMBDA token : token # " ")

(* What of a source is kept: not the contents of an aggregate, which is     *)
(* any text in parentheses, not a constraint, nothing of an allocator with *)
(* a qualified expression; the words of a formal, and those of a name      *)
(* called with one actual, run together.                                   *)
RECURSIVE Kept(_)
Kept(ctx) ==
  LET kept == Concatenated([k \in DOMAIN ctx.kids |-> Kept(ctx.kids[k])]) IN
  CASE ctx.rule = "token" -> <<ctx.text>>
    [] ctx.rule = "aggregate" -> <<"(", ")">>
    [] ctx.rule = "constraint" -> <<>>
    [] ctx.rule = "allocator" /\ Present(Kid(ctx, "qualified_expression")) -> <<"new">>
    [] ctx.rule = "formal_part" -> Joined(GetText(ctx))
    [] ctx.rule = "actual_part" /\ Present(Kid(ctx, "name")) ->
         Joined(GetText(Kid(ctx, "name"))) \o <<"(">>
           \o Kept(Kid(ctx, "actual_designator")) \o <<")">>
    [] OTHER -> kept

(* A sign is printed without a blank after it: one minus after another      *)
(* would begin a comment.                                                  *)
UncommentedPart(tokens) ==
  Until(tokens, {k \in 1..(Len(tokens) - 1) :
                   tokens[k] = "-" /\ tokens[k + 1] = "-" /\ PrefixPosition(tokens, k)})

(* What is printed reads as the source did, token for token and in order,   *)
(* but for what Kept leaves out and what a minus after a minus hides.      *)
PrintedTextIsTheSource ==
  pc = "printed" => Read(printed) = UncommentedPart(Kept(source))

RECURSIVE HasConstrainedType(_)
HasConstrainedType(ctx) ==
  \/ /\ ctx.rule = "type_mark"
     /\ \/ Present(Kid(Kid(ctx, "name"), "name_slice_part"))
        \/ Present(Kid(Kid(ctx, "name"), "association_list"))
  \/ \E k \in DOMAIN ctx.kids : HasConstrainedType(ctx.kids[k])

(* What the validator reports is what the resolver looked up in vain: the   *)
(* two walks see the same references, whatever an expression is made of.   *)
(* A type mark with a slice or arguments is the exception: it is looked up *)
(* and never reported.                                                     *)
ReportsMatchLookups ==
  pc = "validated" =>
    LET missed == {ask \in lookups : ~Found(ask.name, declared)} IN
    /\ reports \subseteq missed
    /\ \A ask \in missed \ reports : ask.what = "type mark" /\ HasConstrainedType(source)

RECURSIVE NameLiterals(_)
NameLiterals(ctx) ==
  IF ctx.rule = "name_literal" THEN {GetText(ctx)}
  ELSE UNION {NameLiterals(ctx.kids[k]) : k \in DOMAIN ctx.kids}

(* tests/test.cpp:177 "validator_reports_unresolved_names": a name of an    *)
(* expression, an external one left aside, that the scope does not declare *)
(* is reported.                                                            *)
UnresolvedNamesAreReported ==
  pc = "validated" /\ source.rule = "expression" =>
    \A string \in NameLiterals(source) :
      \/ Found(string, declared) \/ LooksLikeLiteral(string) \/ string = <<"ns">>
      \/ "<<" \in ToSet(GetText(source))
      \/ \E report \in reports : report.name = string

TypeOK ==
  /\ pc \in {"writing", "parsed", "printed", "resolved", "validated"}
  /\ text = <<>> \/ ~Present(name)
  /\ (pc = "writing") = (node = Nil)
  /\ lookups # {} => pc \in {"resolved", "validated"}
  /\ reports # {} => pc = "validated"
================================================================================
