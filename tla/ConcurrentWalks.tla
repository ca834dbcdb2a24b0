----------------------------- MODULE ConcurrentWalks -----------------------------
(***************************************************************************)
(* The walks over the nodes of concurrent statements and of design units:  *)
(* the names the resolver looks up (resolver.h), the names the validator   *)
(* asks for (validator.cpp), what print_ast lists (ast_printer.cpp).       *)
(***************************************************************************)
EXTENDS ConcurrentStatements, DeclarationWalks

RECURSIVE ConcurrentLookups(_)

ProcessLookups(process) ==
  process.sensitivity_list \o DeclarationsLookups(process.declarative_items)
    \o Each(process.sequential_statements, LAMBDA s : SequentialLookups(s.stmt))

\* resolve_generate_body
BodyLookups(body) ==
  DeclarationsLookups(body.block_declarative_items)
    \o Each(body.concurrent_statements, LAMBDA s : ConcurrentLookups(s.statement))

(* A component is looked up in the scope, another unit in the elaborator.   *)
(* The binding of a configuration specification that matches an instance   *)
(* is resolved once more with it; here none matches.                       *)
ConcurrentLookups(item) ==
  CASE item.node = "component_instantiation_statement" ->
         item.unit_name \o item.generic_map \o item.port_map
    [] item.node = "block_statement" ->
         item.condition \o InterfacesLookups(item.generic_list) \o InterfacesLookups(item.port_list)
           \o item.generic_map \o item.port_map \o BodyLookups(item.body)
    [] item.node = "for_generate_statement" -> BodyLookups(item.body)
    [] item.node = "if_generate_statement" ->
         Each(item.clauses, LAMBDA clause : clause.condition \o BodyLookups(clause.body))
           \o BodyLookups(item.else_body)
    [] item.node = "case_generate_statement" ->
         Each(item.alternatives, LAMBDA alternative : BodyLookups(alternative.body))
    [] item.node = "process_statement" -> ProcessLookups(item)
    [] item.node = "concurrent_signal_assignment_any" ->
         item.target \o item.delay_mechanism_reject \o WaveformLookups(item.waveform)
           \o ConditionalLookups(item.conditional_waveforms)
    [] OTHER -> SequentialLookups(item)

RECURSIVE BlockConfigurationLookups(_)

ConfigurationItemLookups(item) ==
  CASE item.node = "block_configuration" -> BlockConfigurationLookups(item)
    [] item.node = "component_configuration" ->
         ComponentSpecificationLookups(item.component_spec) \o BindingLookups(item.binding)
           \o BlockConfigurationLookups(item.block_config)
BlockConfigurationLookups(block) ==
  IF block = NoBlock THEN <<>>
  ELSE block.block_spec.generate_specification \o Each(block.use_clauses, UseClauseLookups)
         \o Each(block.configuration_items, ConfigurationItemLookups)

ContextItemLookups(item) ==
  CASE item.node = "library_clause" -> <<>>
    [] item.node = "use_clause" -> UseClauseLookups(item)
    [] item.node = "context_reference" -> item.selected_names

UnitLookups(unit) ==
  CASE unit.node = "entity_declaration" ->
         InterfacesLookups(unit.generic_list) \o InterfacesLookups(unit.port_list)
           \o DeclarationsLookups(unit.entity_declarative_items)
    [] unit.node = "architecture_body" -> unit.primary \o BodyLookups(unit.body)
    [] unit.node = "configuration_declaration" ->
         unit.name \o DeclarationsLookups(unit.declarative_items)
           \o BlockConfigurationLookups(unit.block_config)
    [] unit.node = "context_declaration" -> Each(unit.context_items, ContextItemLookups)
    [] unit.node = "package_declaration" -> PackageLookups(unit)
    [] unit.node = "package_body" -> PackageBodyLookups(unit)
    [] unit.node = "package_instantiation_declaration" -> PackageInstantiationLookups(unit)
--------------------------------------------------------------------------------
RECURSIVE ConcurrentAsked(_)

ProcessAsked(process) ==
  process.sensitivity_list \o DeclarationsAsked(process.declarative_items)
    \o Each(process.sequential_statements, LAMBDA s : SequentialAsked(s.stmt))

BodyAsked(body) ==
  DeclarationsAsked(body.block_declarative_items)
    \o Each(body.concurrent_statements, LAMBDA s : ConcurrentAsked(s.statement))

\* The validator asks for the entity and the architecture, or for the component or the
\* configuration, of one unit_name, each by a report of its own: here they are that name, once.
ConcurrentAsked(item) ==
  CASE item.node = "component_instantiation_statement" ->
         item.unit_name \o item.generic_map \o item.port_map
    [] item.node = "block_statement" ->
         item.condition \o InterfacesAsked(item.generic_list) \o InterfacesAsked(item.port_list)
           \o item.generic_map \o item.port_map \o BodyAsked(item.body)
    [] item.node = "for_generate_statement" -> BodyAsked(item.body)
    [] item.node = "if_generate_statement" ->
         Each(item.clauses, LAMBDA clause : clause.condition \o BodyAsked(clause.body))
           \o BodyAsked(item.else_body)
    [] item.node = "case_generate_statement" ->
         Each(item.alternatives, LAMBDA alternative : BodyAsked(alternative.body))
    [] item.node = "process_statement" -> ProcessAsked(item)
    [] item.node = "concurrent_signal_assignment_any" ->
         item.target \o item.delay_mechanism_reject \o WaveformAsked(item.waveform)
           \o ConditionalAsked(item.conditional_waveforms)
    [] OTHER -> SequentialAsked(item)

RECURSIVE BlockConfigurationAsked(_)

ConfigurationItemAsked(item) ==
  CASE item.node = "block_configuration" -> BlockConfigurationAsked(item)
    [] item.node = "component_configuration" ->
         ComponentSpecificationAsked(item.component_spec) \o BindingAsked(item.binding)
           \o BlockConfigurationAsked(item.block_config)
BlockConfigurationAsked(block) ==
  IF block = NoBlock THEN <<>>
  ELSE block.block_spec.generate_specification \o Each(block.use_clauses, UseClauseAsked)
         \o Each(block.configuration_items, ConfigurationItemAsked)

ContextItemAsked(item) ==
  CASE item.node = "library_clause" -> <<>>
    [] item.node = "use_clause" -> UseClauseAsked(item)
    [] item.node = "context_reference" -> item.selected_names

UnitAsked(unit) ==
  CASE unit.node = "entity_declaration" ->
         InterfacesAsked(unit.generic_list) \o InterfacesAsked(unit.port_list)
           \o DeclarationsAsked(unit.entity_declarative_items)
    [] unit.node = "architecture_body" -> unit.primary \o BodyAsked(unit.body)
    [] unit.node = "configuration_declaration" ->
         unit.name \o DeclarationsAsked(unit.declarative_items)
           \o BlockConfigurationAsked(unit.block_config)
    [] unit.node = "context_declaration" -> Each(unit.context_items, ContextItemAsked)
    [] unit.node = "package_declaration" -> PackageAsked(unit)
    [] unit.node = "package_body" -> PackageBodyAsked(unit)
    [] unit.node = "package_instantiation_declaration" -> PackageInstantiationAsked(unit)
--------------------------------------------------------------------------------
RECURSIVE StatementComponents(_)

BodyComponents(body) ==
  Each(body.concurrent_statements, LAMBDA s : StatementComponents(s))

\* Mutant: the else branch of a generate is not listed.
StatementComponentsWithoutElse(stmt) ==
  LET item == stmt.statement IN
  CASE item.node = "component_instantiation_statement" ->
         << [label |-> stmt.label, unit |-> item.unit_name, arch |-> item.architecture_id] >>
    [] item.node \in {"block_statement", "for_generate_statement"} -> BodyComponents(item.body)
    [] item.node = "if_generate_statement" ->
         Each(item.clauses, LAMBDA clause : BodyComponents(clause.body))
    [] item.node = "case_generate_statement" ->
         Each(item.alternatives, LAMBDA alternative : BodyComponents(alternative.body))
    [] OTHER -> <<>>

StatementComponents(stmt) ==
  LET item == stmt.statement IN
  CASE item.node = "component_instantiation_statement" ->
         << [label |-> stmt.label, unit |-> item.unit_name, arch |-> item.architecture_id] >>
    [] item.node \in {"block_statement", "for_generate_statement"} -> BodyComponents(item.body)
    [] item.node = "if_generate_statement" ->
         Each(item.clauses, LAMBDA clause : BodyComponents(clause.body))
           \o BodyComponents(item.else_body)
    [] item.node = "case_generate_statement" ->
         Each(item.alternatives, LAMBDA alternative : BodyComponents(alternative.body))
    [] OTHER -> <<>>

(* print_object: only an object has a name. *)
ObjectLines(items) ==
  Evaluated([k \in DOMAIN items |->
    IF items[k].node \in {"interface_constant_declaration", "interface_signal_declaration",
                         "interface_variable_declaration", "interface_file_declaration"}
    THEN items[k].identifier ELSE <<>>])

\* What print_ast prints below the heading of a unit.
UnitLines(unit) ==
  CASE unit.node = "entity_declaration" ->
         ObjectLines(unit.generic_list) \o ObjectLines(unit.port_list)
    [] unit.node = "architecture_body" -> BodyComponents(unit.body)
    [] OTHER -> <<>>
==================================================================================
