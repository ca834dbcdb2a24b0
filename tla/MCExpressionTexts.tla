--------------------------- MODULE MCExpressionTexts ---------------------------
(***************************************************************************)
(* Texts of up to seven tokens: four operands and an operator of each      *)
(* class, the sign and the adding operator with the same token.  Scopes    *)
(* that declare nothing, two of the operands, or all but a few names.      *)
(***************************************************************************)
EXTENDS ExpressionTexts

MCOperands == <<"a", "b", "c", "d">>
MCOperators == {"and", "=", "sll", "-", "*", "**", "not", "??"}
MCDeclarations ==
  { {}, {"a", "x", "t"}, {"a", "b", "d", "f", "x", "y", "t", "r", "lo", "hi"} }
================================================================================
