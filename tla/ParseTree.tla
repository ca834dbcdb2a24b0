------------------------------- MODULE ParseTree -------------------------------
(***************************************************************************)
(* What the handlers of context_parser.cpp see of a source text: the tree  *)
(* of rule contexts the generated parser builds, its leaves the tokens,    *)
(* through the accessors the generated classes give them (ctx->name(),     *)
(* ctx->expression(1), ctx->KW_OPEN(), getText()).                         *)
(***************************************************************************)
EXTENDS Naturals, SequencesExt

Token(text) == [rule |-> "token", text |-> text, kids |-> <<>>]
Context(rule, kids) == [rule |-> rule, text |-> "", kids |-> kids]
Absent == [rule |-> "absent", text |-> "", kids |-> <<>>]

Present(ctx) == ctx.rule # "absent"

\* ctx->rule(): the children made by a rule, in the order of the text.
Kids(ctx, rule) == SelectSeq(ctx.kids, LAMBDA kid : kid.rule = rule)

\* ctx->rule(i), a null pointer when there are not that many.
Nth(ctx, rule, i) ==
  IF i < Len(Kids(ctx, rule)) THEN Kids(ctx, rule)[i + 1] ELSE Absent

Kid(ctx, rule) == Nth(ctx, rule, 0)

\* ctx->KW_...(): is one of these tokens a child?
Has(ctx, texts) == \E k \in DOMAIN ctx.kids :
                     ctx.kids[k].rule = "token" /\ ctx.kids[k].text \in texts

\* The first child that is one of these tokens.
TokenOf(ctx, texts) ==
  LET ks == {k \in DOMAIN ctx.kids :
               ctx.kids[k].rule = "token" /\ ctx.kids[k].text \in texts}
  IN  ctx.kids[CHOOSE k \in ks : \A other \in ks : k <= other].text

\* The same sequence: TLC evaluates each of its elements once.
Evaluated(seq) == seq \o <<>>

Concatenated(seqs) == FlattenSeq(Evaluated(seqs))

\* Each: Walk over the elements of a sequence, one after another.
Each(seq, Walk(_)) == Concatenated([k \in DOMAIN seq |-> Walk(seq[k])])

\* getText(): the tokens, with nothing between them.
RECURSIVE GetText(_)
GetText(ctx) ==
  IF ctx.rule = "token" THEN <<ctx.text>>
  ELSE Concatenated([k \in DOMAIN ctx.kids |-> GetText(ctx.kids[k])])

\* rule ( COMMA rule )*
Separated(separator, kids) ==
  Concatenated([k \in DOMAIN kids |->
    IF k = 1 THEN <<kids[k]>> ELSE <<Token(separator), kids[k]>>])

\* ( rule )?
Optional(ctx) == IF Present(ctx) THEN <<ctx>> ELSE <<>>
================================================================================
