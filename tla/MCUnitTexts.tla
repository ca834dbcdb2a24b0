------------------------------- MODULE MCUnitTexts -------------------------------
(***************************************************************************)
(* Every statement, declaration and unit that holds no others, by itself   *)
(* and in another one; an exit, an instance, an assignment and some        *)
(* declarations in two.                                                    *)
(***************************************************************************)
EXTENDS UnitTexts

MCNested ==
  { Statement1("s", Exit), OneInstance, OneAssignment, UseOf("x1"),
    Context("attribute_declaration", <<Id("q"), TypeMarkNamed("y")>>),
    Context("subprogram_declaration", <<Procedure>>) }
==================================================================================
