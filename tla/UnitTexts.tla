-------------------------------- MODULE UnitTexts --------------------------------
(***************************************************************************)
(* A statement, a declaration or a design unit on its way through the      *)
(* front end: written, put inside others, parsed, then resolved, validated *)
(* and listed.                                                             *)
(***************************************************************************)
EXTENDS DeclarationContexts, ConcurrentWalks

CONSTANTS
  MaxNesting,  \* bound: how many others one of Nested is put inside of,
  Nested       \* any other source inside of one

VARIABLES
  pc,
  source, room,    \* the text, and how often it may still be put inside another
  node,
  lookups, asked,  \* the names the resolver looked up, the validator asked for
  printed          \* what print_ast listed

vars == <<pc, source, room, node, lookups, asked, printed>>
--------------------------------------------------------------------------------
IsSequential(ctx) == ctx.rule = "sequential_statement"
IsConcurrent(ctx) == ctx.rule = "concurrent_statement"
\* A package, which may be either, counts as a declaration.
IsUnit(ctx) == ~IsSequential(ctx) /\ ~IsConcurrent(ctx) /\ ~IsDeclaration(ctx)

Leaves == { Statement1(label, inner) : label \in {"", "s"}, inner \in SequentialLeaves }
            \cup ConcurrentLeaves \cup DeclarationLeaves \cup UnitLeaves

Init ==
  /\ pc = "writing"
  /\ source \in Leaves
  /\ room = IF source \in Nested THEN MaxNesting ELSE 1
  /\ node = <<>>
  /\ lookups = <<>> /\ asked = <<>> /\ printed = <<>>

Nest(sources) ==
  /\ pc = "writing"
  /\ room > 0
  /\ source' \in sources
  /\ room' = room - 1
  /\ UNCHANGED <<pc, node, lookups, asked, printed>>

NestSequential ==
  /\ IsSequential(source)
  /\ Nest({ Statement1("s", outer) : outer \in Ifs(source) \cup Cases(source) \cup Loops(source) })
NestInProcess == IsSequential(source) /\ Nest(Processes(source))
NestInSubprogram ==
  /\ IsSequential(source)
  /\ Nest({ SubprogramBodies(<<Declared("process_declarative_item")>>, <<source>>) })
NestConcurrent ==
  /\ IsConcurrent(source)
  /\ Nest(Blocks(source) \cup ForGenerates(source) \cup IfGenerates(source)
            \cup CaseGenerates(source))
NestInArchitecture ==
  /\ IsConcurrent(source)
  /\ Nest({ ArchitectureOf(<<Declared("block_declarative_item")>>, <<source, OneAssignment>>) })
NestDeclaration ==
  /\ IsDeclaration(source)
  /\ Nest(RegionsOf(source) \cup BodiesOf(source) \cup BlocksOf(source) \cup GeneratesOf(source)
            \cup UnitsOf(source))

ParseSource ==
  /\ pc = "writing"
  /\ node' = CASE IsSequential(source) -> <<SequentialStatement(source)>>
               [] IsConcurrent(source) -> <<ConcurrentStatement(source)>>
               [] IsDeclaration(source) -> DeclarativeItem(source)
               [] IsUnit(source) -> <<DesignUnit(source)>>
  /\ pc' = "parsed"
  /\ UNCHANGED <<source, room, lookups, asked, printed>>

Resolve ==
  /\ pc = "parsed"
  /\ lookups' = CASE IsSequential(source) -> SequentialLookups(node[1].stmt)
                  [] IsConcurrent(source) -> ConcurrentLookups(node[1].statement)
                  [] IsDeclaration(source) -> DeclarationsLookups(node)
                  [] IsUnit(source) -> UnitLookups(node[1])
  /\ pc' = "resolved"
  /\ UNCHANGED <<source, room, node, asked, printed>>

Validate ==
  /\ pc = "resolved"
  /\ asked' = CASE IsSequential(source) -> SequentialAsked(node[1].stmt)
                [] IsConcurrent(source) -> ConcurrentAsked(node[1].statement)
                [] IsDeclaration(source) -> DeclarationsAsked(node)
                [] IsUnit(source) -> UnitAsked(node[1])
  /\ pc' = "validated"
  /\ UNCHANGED <<source, room, node, lookups, printed>>

PrintAst ==
  /\ pc = "validated"
  /\ IsConcurrent(source) \/ IsUnit(source)
  /\ printed' = IF IsUnit(source) THEN UnitLines(node[1]) ELSE StatementComponents(node[1])
  /\ pc' = "printed"
  /\ UNCHANGED <<source, room, node, lookups, asked>>

Next == \/ NestSequential \/ NestInProcess \/ NestInSubprogram
        \/ NestConcurrent \/ NestInArchitecture \/ NestDeclaration
        \/ ParseSource \/ Resolve \/ Validate \/ PrintAst

Spec == Init /\ [][Next]_vars
--------------------------------------------------------------------------------
NameRules ==
  {"expression", "name", "discrete_range", "simple_expression", "actual_part",
   "subtype_indication", "type_mark", "range", "unit_ref", "selected_name", "entity_tag",
   "group_constituent", "generate_specification"}
RepeatedRules ==
  {"constant_declaration", "variable_declaration", "signal_declaration", "file_declaration",
   "interface_constant_declaration", "interface_signal_declaration",
   "interface_variable_declaration", "interface_file_declaration", "element_declaration"}

(* What a context has and no walk looks up: <<rule, child>>. *)
Unread ==
  { <<"target", "aggregate">>,
    <<"for_generate_statement", "parameter_specification">>,
    <<"case_generate_statement", "expression">>, <<"case_generate_alternative", "choices">>,
    <<"signal_declaration", "expression">>,
    <<"unbounded_array_definition", "subtype_indication">>,
    <<"physical_type_definition", "secondary_unit_declaration">>,
    <<"interface_subprogram_declaration", "interface_subprogram_default">>,
    <<"subprogram_instantiation_declaration", "signature">>,
    <<"subprogram_instantiation_declaration", "generic_map_aspect">>,
    <<"entity_designator", "signature">>,
    <<"entity_declaration", "entity_statement">> }

\* And a use clause among declarations, the maps of a binding that names no entity,
\* a specification for a list of signals.
Dropped(ctx, kid) ==
  \/ <<ctx.rule, kid.rule>> \in Unread
  \/ kid.rule = "use_clause" /\ ctx.rule \notin {"block_configuration", "context_item"}
  \/ /\ ctx.rule = "binding_indication" /\ ~Has(Kid(ctx, "entity_aspect"), {"entity"})
     /\ kid.rule # "entity_aspect"
  \/ /\ ctx.rule = "disconnection_specification"
     /\ ~Has(Kid(ctx, "signal_list"), Words)

\* The lists of a block are looked up before its maps.
HeaderOrder == <<"generic_clause", "port_clause", "generic_map_aspect", "port_map_aspect">>

RECURSIVE SourceNames(_)
SourceNames(ctx) ==
  LET names == Each(ctx.kids, LAMBDA kid :
                 IF Dropped(ctx, kid) THEN <<>> ELSE SourceNames(kid))
      word == Each(ctx.kids, LAMBDA kid : IF kid.text \in Words THEN <<kid.text>> ELSE <<>>)
  IN  CASE ctx.rule \in NameRules -> GetText(ctx)
        [] ctx.rule = "choice" /\ Has(ctx, Words) -> <<"OTHERS">>
        [] ctx.rule \in {"entity_name_list", "signal_list"} /\ Has(ctx, Words) -> word
        [] ctx.rule = "package_body" -> GetText(Kid(ctx, "identifier")) \o names
        [] ctx.rule = "block_header" ->
             Each(HeaderOrder, LAMBDA rule : Each(Kids(ctx, rule), SourceNames))
        [] ctx.rule \in RepeatedRules -> Each(Kids(ctx, "identifier"), LAMBDA id : names)
        [] OTHER -> names

(* Every name of a source is looked up, once, in the order of the text, the *)
(* type and the value of a declaration once for each of its objects.  Not  *)
(* so what is Unread or Dropped, of which no reference is made; and the    *)
(* words all and others that stand for names are looked up as names.       *)
NamesAreLookedUp ==
  pc = "resolved" => lookups = SourceNames(Context("text", <<source>>))

(* What the validator asks for and nothing ever looked up: a use clause     *)
(* among declarations, the maps of a binding to a configuration.           *)
RECURSIVE Unresolvable(_)
Unresolvable(ctx) ==
  CASE ctx.rule = "use_clause" -> ToSet(GetText(ctx))
    [] ctx.rule = "binding_indication" /\ Has(Kid(ctx, "entity_aspect"), {"configuration"}) ->
         ToSet(Each(Kids(ctx, "generic_map_aspect") \o Kids(ctx, "port_map_aspect"), GetText))
    [] OTHER -> UNION {Unresolvable(ctx.kids[k]) : k \in DOMAIN ctx.kids}

(* The validator asks for what the resolver looked up, in the same order,   *)
(* however deep in which statements and declarations: the two walks are    *)
(* written by hand.  What it asks for beyond that is always reported.      *)
WalksAgree ==
  pc = "validated" =>
    LET resolved == ToSet(lookups) IN
    /\ SelectSeq(asked, LAMBDA name : name \in resolved) = lookups
    /\ ToSet(asked) \ resolved \subseteq Unresolvable(source)

RECURSIVE SourceInstances(_)
SourceInstances(ctx) ==
  LET instance == Kid(ctx, "component_instantiation_statement")
      unit == Kid(instance, "instantiated_unit")
  IN  IF Present(instance)
      THEN << [label |-> GetText(Kid(ctx, "label")), unit |-> GetText(Kid(unit, "name")),
               arch |-> GetText(Kid(unit, "identifier"))] >>
      ELSE Each(ctx.kids, SourceInstances)

\* A line for each object, an empty one for any other element.
SourceElements(entity) ==
  Each(Kids(entity, "generic_clause") \o Kids(entity, "port_clause"), LAMBDA clause :
    Each(clause.kids, LAMBDA element :
      IF element.kids[1].rule \in RepeatedRules
      THEN [k \in DOMAIN Kids(element.kids[1], "identifier") |->
              GetText(Kids(element.kids[1], "identifier")[k])]
      ELSE << <<>> >>))

(* print_ast lists every instance of an architecture under its label, in    *)
(* order, from whatever blocks and branches of generates, a labelled       *)
(* procedure call being one of them; and the generics and ports of an      *)
(* entity, of which only the objects have a name.                          *)
UnitsAreListed ==
  pc = "printed" =>
    printed = IF source.rule = "entity_declaration" THEN SourceElements(source)
              ELSE SourceInstances(source)

\* Rules that declare nothing, whatever names are in them.
Undeclaring ==
  {"token", "component_instantiation_statement", "component_specification", "binding_indication",
   "block_specification", "entity_statement", "secondary_unit_declaration"}

RECURSIVE SourceLabels(_)
SourceLabels(ctx) ==
  LET ends == {k \in DOMAIN ctx.kids : ctx.kids[k] = Token("end")}
      kids == IF ends = {} \/ ctx.rule = "block_statement" THEN ctx.kids
              ELSE SubSeq(ctx.kids, 1, Min(ends) - 1)
      branch(kid) == ctx.rule = "if_generate_statement" /\ kid.text \in {"if", "elsif", "else"}
  IN  CASE ctx.rule \in {"label", "identifier", "designator", "alias_designator",
                         "enumeration_literal"} -> GetText(ctx)
        [] ctx.rule \in Undeclaring -> <<>>
        [] ctx.rule = "sequence_of_statements" ->
             Each(ctx.kids, LAMBDA kid : SourceLabels(Last(SelectSeq(kid.kids,
               LAMBDA part : part.rule # "token"))))
        [] ctx.rule = "case_generate_alternative" -> <<"branch">> \o Each(kids, SourceLabels)
        [] OTHER -> Each(kids, LAMBDA kid : IF branch(kid) THEN <<"branch">> ELSE SourceLabels(kid))

RECURSIVE SequentialLabels(_), InterfaceLabels(_), DeclarationLabels(_), ConcurrentLabels(_)

NestedLabels(statements) == Each(statements, SequentialLabels)
SequentialLabels(item) ==
  CASE item.node = "if_statement" ->
         Each(item.if_clauses, LAMBDA clause : NestedLabels(clause.statements))
           \o NestedLabels(item.else_clauses)
    [] item.node = "case_statement" ->
         Each(item.alternatives, LAMBDA alternative : NestedLabels(alternative.statements))
    [] item.node = "loop_statement" ->
         item.iteration_scheme.for_identifier \o NestedLabels(item.statements)
    [] item.node \in {"next_statement", "exit_statement"} -> item.label
    [] OTHER -> <<>>
StatementsLabels(statements) == Each(statements, LAMBDA s : s.label \o SequentialLabels(s.stmt))

InterfacesLabels(interfaces) == Each(interfaces, InterfaceLabels)
InterfaceLabels(item) ==
  IF item.node = "interface_subprogram_declaration"
  THEN item.designator \o InterfacesLabels(item.formal_parameter_list)
  ELSE item.identifier

ItemsLabels(declarations) == Each(declarations, DeclarationLabels)
TypeLabels(type) ==
  CASE type.node = "enumeration_type_definition" -> type.enumeration_literals
    [] type.node = "numeric_type_definition" -> type.physical_unit
    [] type.node = "record_type_definition" ->
         Each(type.element_declarations, LAMBDA elem : elem.identifier)
    [] type.node = "protected_type_definition" ->
         ItemsLabels(type.declarations) \o ItemsLabels(type.body_declarations)
    [] OTHER -> <<>>
SubprogramLabels(subprogram) ==
  subprogram.designator \o InterfacesLabels(subprogram.generic_list)
    \o InterfacesLabels(subprogram.parameter_list)
DeclarationLabels(item) ==
  CASE item.node = "alias_declaration" -> item.alias_designator
    [] item.node = "component_declaration" ->
         item.identifier \o InterfacesLabels(item.generic_list) \o InterfacesLabels(item.port_list)
    [] item.node = "type_declaration" -> item.identifier \o TypeLabels(item.type)
    [] item.node = "subprogram_declaration" -> SubprogramLabels(item)
    [] item.node = "subprogram_instantiation_declaration" -> item.designator
    [] item.node = "subprogram_body" ->
         SubprogramLabels(item.specification) \o ItemsLabels(item.declarative_items)
           \o StatementsLabels(item.sequential_statements)
    [] item.node = "package_declaration" ->
         item.identifier \o InterfacesLabels(item.generic_list) \o ItemsLabels(item.declarations)
    [] item.node = "package_body" -> item.identifier \o ItemsLabels(item.declarative_items)
    [] item.node \in {"attribute_specification", "use_clause", "disconnection_specification",
                      "configuration_specification"} -> <<>>
    [] OTHER -> item.identifier

BodyLabels(body) ==
  ItemsLabels(body.block_declarative_items) \o Each(body.concurrent_statements, ConcurrentLabels)
BranchLabels(label, body) == <<"branch">> \o label \o BodyLabels(body)
ConcurrentLabels(stmt) ==
  LET item == stmt.statement IN
  stmt.label \o
  CASE item.node = "block_statement" ->
         InterfacesLabels(item.generic_list) \o InterfacesLabels(item.port_list)
           \o BodyLabels(item.body) \o item.label
    [] item.node = "for_generate_statement" -> item.parameter.for_identifier \o BodyLabels(item.body)
    [] item.node = "if_generate_statement" ->
         Each(item.clauses, LAMBDA clause : BranchLabels(clause.label, clause.body))
           \o (IF item.has_else THEN BranchLabels(item.else_label, item.else_body) ELSE <<>>)
    [] item.node = "case_generate_statement" ->
         Each(item.alternatives, LAMBDA branch : BranchLabels(branch.label, branch.body))
    [] item.node = "process_statement" ->
         ItemsLabels(item.declarative_items) \o StatementsLabels(item.sequential_statements)
    [] OTHER -> <<>>

UnitLabels(unit) ==
  unit.identifier \o
  CASE unit.node = "entity_declaration" ->
         InterfacesLabels(unit.generic_list) \o InterfacesLabels(unit.port_list)
           \o ItemsLabels(unit.entity_declarative_items)
    [] unit.node = "architecture_body" -> BodyLabels(unit.body)
    [] unit.node = "configuration_declaration" -> ItemsLabels(unit.declarative_items)
    [] unit.node = "context_declaration" ->
         Each(unit.context_items, LAMBDA item : IF item.node = "library_clause" THEN item.names ELSE <<>>)

(* The AST holds every label, parameter and declared name at its place, the *)
(* label of a branch of a generate at that branch even though the parser   *)
(* finds it by the positions of tokens.  It has not the labels of          *)
(* statements inside sequential statements, nor what is named after END,   *)
(* but for the label of a block, nor the secondary units of a type.        *)
LabelsAreHeld ==
  pc = "parsed" =>
    SourceLabels(source) =
      CASE IsSequential(source) -> StatementsLabels(node)
        [] IsConcurrent(source) -> ConcurrentLabels(node[1])
        [] IsDeclaration(source) -> ItemsLabels(node)
        [] IsUnit(source) -> UnitLabels(node[1])
==================================================================================
