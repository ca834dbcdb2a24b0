------------------------------ MODULE Declarations ------------------------------
(***************************************************************************)
(* The items of declarative regions: context_parser.cpp makes a node of    *)
(* each, or one for every identifier of its list.  The lists of the        *)
(* grammar (identifier_list, interface_list) are left out between a rule   *)
(* and what they list.                                                     *)
(***************************************************************************)
EXTENDS Statements

Actuals(ctx, aspect) == TextsOf(Kid(Kid(ctx, aspect), "association_list"), "actual_part")
Identifier(ctx) == GetText(Kid(ctx, "identifier"))
SubtypeOf(ctx) == GetText(Kid(ctx, "subtype_indication"))
TypeMarkOf(ctx) == GetText(Kid(ctx, "type_mark"))

\* One node for each identifier, each with the type and the value of all.
ForEachIdentifier(ctx, Node(_)) ==
  LET ids == Kids(ctx, "identifier") IN Evaluated([k \in DOMAIN ids |-> Node(GetText(ids[k]))])
--------------------------------------------------------------------------------
RECURSIVE Interfaces(_)

\* interface_{constant, signal, variable, file}_declaration
InterfaceObjects(ctx) ==
  ForEachIdentifier(ctx, LAMBDA id :
    [node |-> ctx.rule, identifier |-> id, subtype_indic |-> SubtypeOf(ctx),
     expression |-> Expr(Kid(ctx, "expression"))])

InterfaceSubprogram(ctx) ==
  LET spec == ctx.kids[1] IN
  [node |-> ctx.rule, designator |-> GetText(Kid(spec, "designator")),
   formal_parameter_list |-> Interfaces(Kid(spec, "formal_parameter_list")),
   return_type_mark |-> TypeMarkOf(spec),
   interface_subprogram_default |->
     GetText(Kid(Kid(ctx, "interface_subprogram_default"), "name"))]

InterfacePackage(ctx) ==
  [node |-> ctx.rule, identifier |-> Identifier(ctx), name |-> GetText(Kid(ctx, "name")),
   generic_map_aspect |->
     Actuals(Kid(ctx, "interface_package_generic_map_aspect"), "generic_map_aspect")]

InterfaceElement(ctx) ==
  CASE ctx.rule = "interface_subprogram_declaration" -> << InterfaceSubprogram(ctx) >>
    [] ctx.rule = "interface_package_declaration" -> << InterfacePackage(ctx) >>
    [] ctx.rule = "interface_type_declaration" ->
         << [node |-> ctx.rule, identifier |-> Identifier(ctx)] >>
    [] OTHER -> InterfaceObjects(ctx)

Interfaces(ctx) ==
  Each(Kids(ctx, "interface_element"), LAMBDA element : InterfaceElement(Last(element.kids)))
--------------------------------------------------------------------------------
RECURSIVE Items(_, _)

\* constant and variable
Objects(ctx) ==
  ForEachIdentifier(ctx, LAMBDA id :
    [node |-> ctx.rule, identifier |-> id, indication |-> SubtypeOf(ctx),
     expr |-> Expr(Kid(ctx, "expression"))])
\* Its value is not read.
SignalDeclaration(ctx) ==
  ForEachIdentifier(ctx, LAMBDA id :
    [node |-> ctx.rule, identifier |-> id, type |-> SubtypeOf(ctx)])
FileDeclaration(ctx) ==
  LET open_info == Kid(ctx, "file_open_information") IN
  ForEachIdentifier(ctx, LAMBDA id :
    [node |-> ctx.rule, identifier |-> id, indication |-> SubtypeOf(ctx),
     open_expression |-> Expr(Kid(open_info, "expression")),
     file_logical_name |-> GetText(Kid(open_info, "file_logical_name"))])

SignatureMarks(ctx) == TextsOf(Kid(ctx, "signature"), "type_mark")
AliasDeclaration(ctx) ==
  [node |-> ctx.rule, alias_designator |-> GetText(Kid(ctx, "alias_designator")),
   indication |-> SubtypeOf(ctx), name |-> GetText(Kid(ctx, "name")),
   signature |-> SignatureMarks(ctx)]

AttributeDeclaration(ctx) ==
  [node |-> ctx.rule, identifier |-> Identifier(ctx), type |-> TypeMarkOf(ctx)]
\* ALL and OTHERS are kept as names.
EntityNames(ctx, rule) ==
  IF Has(ctx, {"all", "others"}) THEN << TokenOf(ctx, {"all", "others"}) >> ELSE TextsOf(ctx, rule)
EntityDesignators(names) ==
  IF Has(names, {"all", "others"}) THEN EntityNames(names, "")
  ELSE Each(Kids(names, "entity_designator"), LAMBDA designator : TextsOf(designator, "entity_tag"))
AttributeSpecification(ctx) ==
  [node |-> ctx.rule, entity_names |-> EntityDesignators(Kid(ctx, "entity_name_list")),
   expr |-> Expr(Kid(ctx, "expression"))]

GroupTemplate(ctx) == [node |-> ctx.rule, identifier |-> Identifier(ctx)]
GroupDeclaration(ctx) ==
  [node |-> ctx.rule, identifier |-> Identifier(ctx), name |-> GetText(Kid(ctx, "name")),
   group_constituent_list |-> TextsOf(ctx, "group_constituent")]

(* A specification for a list of names makes nodes and keeps none of them. *)
Disconnection(ctx) ==
  LET signals == Kid(ctx, "signal_list") IN
  IF Has(signals, {"all", "others"})
  THEN << [node |-> ctx.rule, signal_name |-> EntityNames(signals, "name"),
           type |-> TypeMarkOf(ctx), after_expression |-> Expr(Kid(ctx, "expression"))] >>
  ELSE <<>>

UseClause(ctx) == [node |-> ctx.rule, clauses |-> TextsOf(ctx, "selected_name")]

ComponentDeclaration(ctx) ==
  [node |-> ctx.rule, identifier |-> Identifier(ctx),
   generic_list |-> Interfaces(Kid(ctx, "generic_clause")),
   port_list |-> Interfaces(Kid(ctx, "port_clause"))]

ComponentSpecification(ctx) ==
  [instantiations |-> EntityNames(Kid(ctx, "instantiation_list"), "label"),
   name |-> GetText(Kid(ctx, "name"))]
BindingIndication(ctx) ==
  LET aspect == Kid(ctx, "entity_aspect") IN
  [type |-> CASE Has(aspect, {"entity"}) -> "ENTITY"
              [] Has(aspect, {"configuration"}) -> "CONFIGURATION"
              [] OTHER -> "OPEN",
   unit_ref |-> GetText(Kid(aspect, "unit_ref")),
   generic_map |-> Actuals(ctx, "generic_map_aspect"),
   port_map |-> Actuals(ctx, "port_map_aspect")]
ConfigurationSpecification(ctx) ==
  [node |-> ctx.rule, component_spec |-> ComponentSpecification(Kid(ctx, "component_specification")),
   binding |-> BindingIndication(Kid(ctx, "binding_indication"))]

Subprogram(ctx) ==
  LET spec == ctx.kids[1]
      header == Kid(spec, "subprogram_header")
  IN  [node |-> "subprogram_declaration", designator |-> GetText(Kid(spec, "designator")),
       generic_list |-> Interfaces(Kid(header, "generic_list")),
       generic_map |-> Actuals(header, "generic_map_aspect"),
       parameter_list |-> Interfaces(Kid(spec, "formal_parameter_list")),
       return_type |-> TypeMarkOf(spec)]
SubprogramDeclaration(ctx) == Subprogram(Kid(ctx, "subprogram_specification"))
\* Neither the signature nor the generic map is read.
SubprogramInstantiation(ctx) ==
  [node |-> ctx.rule, designator |-> GetText(Kid(ctx, "designator")),
   target_name |-> GetText(Kid(ctx, "name"))]
SubprogramBody(ctx) ==
  [node |-> ctx.rule, specification |-> Subprogram(Kid(ctx, "subprogram_specification")),
   declarative_items |-> Items(ctx, "process_declarative_item"),
   sequential_statements |-> SequentialStatements(ctx)]

PackageDeclaration(ctx) ==
  [node |-> ctx.rule, identifier |-> Identifier(ctx),
   generic_list |-> Interfaces(Kid(ctx, "generic_clause")),
   generic_map |-> Actuals(ctx, "generic_map_aspect"),
   declarations |-> Items(ctx, "package_declarative_item")]
PackageBody(ctx) ==
  [node |-> ctx.rule, identifier |-> Identifier(ctx),
   declarative_items |-> Items(ctx, "process_declarative_item")]
PackageInstantiation(ctx) ==
  [node |-> ctx.rule, identifier |-> Identifier(ctx), target_name |-> GetText(Kid(ctx, "name")),
   generic_map |-> Actuals(ctx, "generic_map_aspect")]

\* Of the units of a physical type, only the primary one keeps its name.
PhysicalUnit(ctx) == Identifier(Kid(ctx, "primary_unit_declaration"))
NumericType(ctx) ==
  [node |-> "numeric_type_definition",
   range |-> GetText(Kid(Kid(ctx, "range_constraint"), "range")),
   physical_unit |-> PhysicalUnit(ctx)]
RecordElements(ctx) ==
  Each(Kids(ctx, "element_declaration"), LAMBDA declaration :
    ForEachIdentifier(declaration, LAMBDA id :
      [identifier |-> id, element_subtype_definition |-> SubtypeOf(declaration)]))
ProtectedType(ctx) ==
  [node |-> "protected_type_definition",
   declarations |-> Items(ctx, "protected_type_declarative_item"),
   body_declarations |-> Items(ctx, "process_declarative_item")]

(* The subtype of the elements of an unbounded array is not read. *)
TypeDefinition(ctx) ==
  CASE ctx.rule = "enumeration_type_definition" ->
         [node |-> ctx.rule, enumeration_literals |-> TextsOf(ctx, "enumeration_literal")]
    [] ctx.rule \in {"integer_type_definition", "physical_type_definition"} -> NumericType(ctx)
    [] ctx.rule = "unbounded_array_definition" ->
         [node |-> ctx.rule,
          index_subtype_definitions |-> Each(Kids(ctx, "index_subtype_definition"), TypeMarkOf)]
    [] ctx.rule = "constrained_array_definition" ->
         [node |-> ctx.rule,
          index_constraints |-> TextsOf(Kid(ctx, "index_constraint"), "discrete_range"),
          subtype_indication |-> SubtypeOf(ctx)]
    [] ctx.rule = "record_type_definition" ->
         [node |-> ctx.rule, element_declarations |-> RecordElements(ctx)]
    [] ctx.rule = "access_type_definition" -> [node |-> "subtype_indication", type |-> SubtypeOf(ctx)]
    [] ctx.rule = "file_type_definition" -> [node |-> "type_mark", type |-> TypeMarkOf(ctx)]
    [] ctx.rule \in {"protected_type_declaration", "protected_type_body"} -> ProtectedType(ctx)
TypeDeclaration(ctx) ==
  LET full == Kid(ctx, "type_definition") IN
  [node |-> ctx.rule, identifier |-> Identifier(ctx),
   type |-> IF Present(full) THEN TypeDefinition(Last(full.kids)) ELSE [node |-> "none"]]
SubtypeDeclaration(ctx) ==
  [node |-> ctx.rule, identifier |-> Identifier(ctx), indication |-> SubtypeOf(ctx)]

DeclarativeItem(ctx) ==
  CASE ctx.rule \in {"constant_declaration", "variable_declaration"} -> Objects(ctx)
    [] ctx.rule = "signal_declaration" -> SignalDeclaration(ctx)
    [] ctx.rule = "file_declaration" -> FileDeclaration(ctx)
    [] ctx.rule = "disconnection_specification" -> Disconnection(ctx)
    [] ctx.rule = "subprogram_declaration" -> << SubprogramDeclaration(ctx) >>
    [] ctx.rule = "subprogram_instantiation_declaration" -> << SubprogramInstantiation(ctx) >>
    [] ctx.rule = "subprogram_body" -> << SubprogramBody(ctx) >>
    [] ctx.rule = "package_declaration" -> << PackageDeclaration(ctx) >>
    [] ctx.rule = "package_body" -> << PackageBody(ctx) >>
    [] ctx.rule = "package_instantiation_declaration" -> << PackageInstantiation(ctx) >>
    [] ctx.rule = "type_declaration" -> << TypeDeclaration(ctx) >>
    [] ctx.rule = "subtype_declaration" -> << SubtypeDeclaration(ctx) >>
    [] ctx.rule = "alias_declaration" -> << AliasDeclaration(ctx) >>
    [] ctx.rule = "attribute_declaration" -> << AttributeDeclaration(ctx) >>
    [] ctx.rule = "attribute_specification" -> << AttributeSpecification(ctx) >>
    [] ctx.rule = "use_clause" -> << UseClause(ctx) >>
    [] ctx.rule = "group_template_declaration" -> << GroupTemplate(ctx) >>
    [] ctx.rule = "group_declaration" -> << GroupDeclaration(ctx) >>
    [] ctx.rule = "component_declaration" -> << ComponentDeclaration(ctx) >>
    [] ctx.rule = "configuration_specification" -> << ConfigurationSpecification(ctx) >>

Items(ctx, rule) == Each(Kids(ctx, rule), LAMBDA item : DeclarativeItem(Last(item.kids)))
================================================================================
