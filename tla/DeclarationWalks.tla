---------------------------- MODULE DeclarationWalks ----------------------------
(***************************************************************************)
(* The walks over the nodes of declarations and of what they hold: the     *)
(* names the resolver looks up (resolver.h) and those the validator asks   *)
(* for (validator.cpp).                                                    *)
(***************************************************************************)
EXTENDS Declarations, StatementWalks

RECURSIVE InterfaceLookups(_), DeclarationLookups(_)

\* resolve_interfaces, resolve_declarations
InterfacesLookups(interfaces) == Each(interfaces, InterfaceLookups)
DeclarationsLookups(declarations) == Each(declarations, DeclarationLookups)

InterfaceLookups(item) ==
  CASE item.node = "interface_subprogram_declaration" ->
         InterfacesLookups(item.formal_parameter_list) \o item.return_type_mark
    [] item.node = "interface_package_declaration" -> item.name \o item.generic_map_aspect
    [] item.node = "interface_type_declaration" -> <<>>
    [] item.node = "interface_file_declaration" -> item.subtype_indic
    [] OTHER -> item.subtype_indic \o item.expression

SubprogramLookups(subprogram) ==
  InterfacesLookups(subprogram.generic_list) \o subprogram.generic_map
    \o InterfacesLookups(subprogram.parameter_list) \o subprogram.return_type

PackageLookups(package) ==
  InterfacesLookups(package.generic_list) \o package.generic_map
    \o DeclarationsLookups(package.declarations)
PackageBodyLookups(body) == body.identifier \o DeclarationsLookups(body.declarative_items)
PackageInstantiationLookups(inst) == inst.target_name \o inst.generic_map

TypeDefinitionLookups(type) ==
  CASE type.node = "numeric_type_definition" -> type.range
    [] type.node = "unbounded_array_definition" -> type.index_subtype_definitions
    [] type.node = "constrained_array_definition" ->
         type.index_constraints \o type.subtype_indication
    [] type.node = "record_type_definition" ->
         Each(type.element_declarations, LAMBDA elem : elem.element_subtype_definition)
    [] type.node \in {"subtype_indication", "type_mark"} -> type.type
    [] type.node = "protected_type_definition" ->
         DeclarationsLookups(type.declarations) \o DeclarationsLookups(type.body_declarations)
    [] OTHER -> <<>>

ComponentSpecificationLookups(spec) == spec.name
\* Of a configuration only its name, not the maps.
BindingLookups(binding) ==
  CASE binding.type = "OPEN" -> <<>>
    [] binding.type = "ENTITY" -> binding.unit_ref \o binding.generic_map \o binding.port_map
    [] binding.type = "CONFIGURATION" -> binding.unit_ref

(* There is no case for a use clause. *)
DeclarationLookups(item) ==
  CASE item.node = "signal_declaration" -> item.type
    [] item.node = "component_declaration" ->
         InterfacesLookups(item.generic_list) \o InterfacesLookups(item.port_list)
    [] item.node = "configuration_specification" ->
         ComponentSpecificationLookups(item.component_spec) \o BindingLookups(item.binding)
    [] item.node = "type_declaration" -> TypeDefinitionLookups(item.type)
    [] item.node = "subtype_declaration" -> item.indication
    [] item.node \in {"constant_declaration", "variable_declaration"} -> item.indication \o item.expr
    [] item.node = "file_declaration" ->
         item.indication \o item.open_expression \o item.file_logical_name
    [] item.node = "alias_declaration" -> item.indication \o item.name \o item.signature
    [] item.node = "attribute_declaration" -> item.type
    [] item.node = "attribute_specification" -> item.entity_names \o item.expr
    [] item.node = "group_declaration" -> item.name \o item.group_constituent_list
    [] item.node = "disconnection_specification" ->
         item.signal_name \o item.type \o item.after_expression
    [] item.node = "subprogram_declaration" -> SubprogramLookups(item)
    [] item.node = "subprogram_instantiation_declaration" -> item.target_name
    [] item.node = "subprogram_body" ->
         SubprogramLookups(item.specification) \o DeclarationsLookups(item.declarative_items)
           \o Each(item.sequential_statements, LAMBDA s : SequentialLookups(s.stmt))
    [] item.node = "package_declaration" -> PackageLookups(item)
    [] item.node = "package_instantiation_declaration" -> PackageInstantiationLookups(item)
    [] item.node = "package_body" -> PackageBodyLookups(item)
    [] OTHER -> <<>>

UseClauseLookups(use) == use.clauses
--------------------------------------------------------------------------------
RECURSIVE InterfaceAsked(_), DeclarationAsked(_)

UseClauseAsked(use) == use.clauses

\* validate_interfaces, validate_declarations
InterfacesAsked(interfaces) == Each(interfaces, InterfaceAsked)
DeclarationsAsked(declarations) == Each(declarations, DeclarationAsked)

InterfaceAsked(item) ==
  CASE item.node = "interface_subprogram_declaration" ->
         InterfacesAsked(item.formal_parameter_list) \o item.return_type_mark
    [] item.node = "interface_package_declaration" -> item.name \o item.generic_map_aspect
    [] item.node = "interface_type_declaration" -> <<>>
    [] item.node = "interface_file_declaration" -> item.subtype_indic
    [] OTHER -> item.subtype_indic \o item.expression

SubprogramAsked(subprogram) ==
  InterfacesAsked(subprogram.generic_list) \o subprogram.generic_map
    \o InterfacesAsked(subprogram.parameter_list) \o subprogram.return_type

PackageAsked(package) ==
  InterfacesAsked(package.generic_list) \o package.generic_map
    \o DeclarationsAsked(package.declarations)
PackageBodyAsked(body) == body.identifier \o DeclarationsAsked(body.declarative_items)
PackageInstantiationAsked(inst) == inst.target_name \o inst.generic_map

TypeDefinitionAsked(type) ==
  CASE type.node = "numeric_type_definition" -> type.range
    [] type.node = "unbounded_array_definition" -> type.index_subtype_definitions
    [] type.node = "constrained_array_definition" ->
         type.index_constraints \o type.subtype_indication
    [] type.node = "record_type_definition" ->
         Each(type.element_declarations, LAMBDA elem : elem.element_subtype_definition)
    [] type.node \in {"subtype_indication", "type_mark"} -> type.type
    [] type.node = "protected_type_definition" ->
         DeclarationsAsked(type.declarations) \o DeclarationsAsked(type.body_declarations)
    [] OTHER -> <<>>

ComponentSpecificationAsked(spec) == spec.name
BindingAsked(binding) ==
  CASE binding.type = "OPEN" -> <<>>
    [] OTHER -> binding.unit_ref \o binding.generic_map \o binding.port_map

DeclarationAsked(item) ==
  CASE item.node = "signal_declaration" -> item.type
    [] item.node = "component_declaration" ->
         InterfacesAsked(item.generic_list) \o InterfacesAsked(item.port_list)
    [] item.node = "configuration_specification" ->
         ComponentSpecificationAsked(item.component_spec) \o BindingAsked(item.binding)
    [] item.node = "type_declaration" -> TypeDefinitionAsked(item.type)
    [] item.node = "subtype_declaration" -> item.indication
    [] item.node \in {"constant_declaration", "variable_declaration"} -> item.indication \o item.expr
    [] item.node = "file_declaration" ->
         item.indication \o item.open_expression \o item.file_logical_name
    [] item.node = "alias_declaration" -> item.indication \o item.name \o item.signature
    [] item.node = "attribute_declaration" -> item.type
    [] item.node = "attribute_specification" -> item.entity_names \o item.expr
    [] item.node = "group_declaration" -> item.name \o item.group_constituent_list
    [] item.node = "disconnection_specification" ->
         item.signal_name \o item.type \o item.after_expression
    [] item.node = "subprogram_declaration" -> SubprogramAsked(item)
    [] item.node = "subprogram_instantiation_declaration" -> item.target_name
    [] item.node = "subprogram_body" ->
         SubprogramAsked(item.specification) \o DeclarationsAsked(item.declarative_items)
           \o Each(item.sequential_statements, LAMBDA s : SequentialAsked(s.stmt))
    [] item.node = "package_declaration" -> PackageAsked(item)
    [] item.node = "package_instantiation_declaration" -> PackageInstantiationAsked(item)
    [] item.node = "package_body" -> PackageBodyAsked(item)
    [] item.node = "use_clause" -> UseClauseAsked(item)
    [] OTHER -> <<>>
=================================================================================
