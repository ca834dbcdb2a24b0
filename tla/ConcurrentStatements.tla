-------------------------- MODULE ConcurrentStatements --------------------------
(***************************************************************************)
(* Concurrent statements, the bodies they have, and the design units:      *)
(* context_parser.cpp builds their nodes.  The flags of a statement        *)
(* (postponed, guarded, process (all)) are left out.                       *)
(***************************************************************************)
EXTENDS Declarations

ProcessStatement(ctx) ==
  LET sensitivity == Kid(ctx, "process_sensitivity_list") IN
  [node |-> ctx.rule, sensitivity_list |-> TextsOf(Kid(sensitivity, "sensitivity_list"), "name"),
   declarative_items |-> Items(ctx, "process_declarative_item"),
   sequential_statements |-> SequentialStatements(ctx)]

ConcurrentProcedureCall(ctx) ==
  [node |-> ctx.rule, name |-> ProcedureCall(Kid(ctx, "procedure_call_statement")).name]
ConcurrentAssertion(ctx) ==
  Assertion(Kid(Kid(ctx, "assertion_statement"), "assertion"), ctx.rule)

ConcurrentSignalAssignmentAny(ctx) ==
  [node |-> ctx.rule, target |-> Target(ctx), delay_mechanism_reject |-> Reject(ctx),
   waveform |-> Waveform(Kid(ctx, "waveform")),
   conditional_waveforms |-> IF Present(Kid(ctx, "waveform")) THEN <<>>
                             ELSE ConditionalWaveforms(ctx)]
ConcurrentSelectedSignalAssignment(ctx) == SelectedWaveformAssignment(ctx)

ComponentInstantiation(ctx) ==
  LET unit == Kid(ctx, "instantiated_unit") IN
  [node |-> ctx.rule,
   unit_kind |-> CASE Has(unit, {"entity"}) -> "ENTITY"
                   [] Has(unit, {"configuration"}) -> "CONFIGURATION"
                   [] OTHER -> "COMPONENT",
   unit_name |-> GetText(Kid(unit, "name")),
   architecture_id |-> IF Has(unit, {"entity"}) THEN Identifier(unit) ELSE <<>>,
   generic_map |-> Actuals(ctx, "generic_map_aspect"),
   port_map |-> Actuals(ctx, "port_map_aspect")]

WithOptionalLabel(ctx) ==
  LET s == Last(ctx.kids) IN
  CASE s.rule = "process_statement" -> ProcessStatement(s)
    [] s.rule = "concurrent_procedure_call_statement" -> ConcurrentProcedureCall(s)
    [] s.rule = "concurrent_assertion_statement" -> ConcurrentAssertion(s)
    [] Present(Kid(s, "concurrent_signal_assignment_any")) ->
         ConcurrentSignalAssignmentAny(Kid(s, "concurrent_signal_assignment_any"))
    [] OTHER ->
         ConcurrentSelectedSignalAssignment(Kid(s, "concurrent_selected_signal_assignment"))

(* getTokenIndex of the first and the last token of the k-th child; an empty *)
(* one starts at the token after it and stops at the token before.         *)
Start(ctx, k) == 1 + Len(Concatenated([i \in 1..(k - 1) |-> GetText(ctx.kids[i])]))
Stop(ctx, k) == (Start(ctx, k) + Len(GetText(ctx.kids[k]))) - 1
Places(ctx, rule) ==
  SelectSeq([k \in DOMAIN ctx.kids |-> k], LAMBDA k : ctx.kids[k].rule = rule)

FindLabelBetween(ctx, after, before) ==
  LET found == SelectSeq(Places(ctx, "label"), LAMBDA k :
                 Start(ctx, k) > after /\ Stop(ctx, k) < before)
  IN  IF found = <<>> THEN <<>> ELSE GetText(ctx.kids[found[1]])

RECURSIVE ConcurrentStatement(_)

Body(ctx) ==
  LET statements == Kids(ctx, "concurrent_statement") IN
  [block_declarative_items |-> Items(ctx, "block_declarative_item"),
   concurrent_statements |->
     Evaluated([k \in DOMAIN statements |-> ConcurrentStatement(statements[k])])]
EmptyBody == [block_declarative_items |-> <<>>, concurrent_statements |-> <<>>]

\* The label of a block is the one after END BLOCK.
BlockStatement(ctx) ==
  LET header == Kid(ctx, "block_header") IN
  [node |-> ctx.rule, label |-> Label(ctx), condition |-> Condition(ctx),
   generic_list |-> Interfaces(Kid(header, "generic_clause")),
   port_list |-> Interfaces(Kid(header, "port_clause")),
   generic_map |-> Actuals(header, "generic_map_aspect"),
   port_map |-> Actuals(header, "port_map_aspect"), body |-> Body(ctx)]

ForGenerate(ctx) ==
  [node |-> ctx.rule, parameter |-> ParameterSpecification(Kid(ctx, "parameter_specification")),
   body |-> Body(Kid(ctx, "generate_statement_body"))]

\* Mutant: a label is looked for from IF on, whichever clause it is.
IfGenerateLabelsFromIf(ctx) ==
  LET conditions == Places(ctx, "condition")
      bodies == Places(ctx, "generate_statement_body")
      has_else == Len(bodies) > Len(conditions)
      else == CHOOSE k \in DOMAIN ctx.kids : ctx.kids[k] = Token("else")
  IN  [node |-> ctx.rule,
       clauses |-> Evaluated([k \in DOMAIN conditions |->
         [label |-> FindLabelBetween(ctx, 1, Start(ctx, conditions[k])),
          condition |-> GetText(ctx.kids[conditions[k]]), body |-> Body(ctx.kids[bodies[k]])]]),
       has_else |-> has_else,
       else_label |-> IF has_else
                      THEN FindLabelBetween(ctx, Start(ctx, else), Start(ctx, Last(bodies)))
                      ELSE <<>>,
       else_body |-> IF has_else THEN Body(ctx.kids[Last(bodies)]) ELSE EmptyBody]

IfGenerate(ctx) ==
  LET conditions == Places(ctx, "condition")
      bodies == Places(ctx, "generate_statement_body")
      previous(k) == IF k = 1 THEN 1 ELSE Stop(ctx, bodies[k - 1])
      has_else == Len(bodies) > Len(conditions)
      else == CHOOSE k \in DOMAIN ctx.kids : ctx.kids[k] = Token("else")
  IN  [node |-> ctx.rule,
       clauses |-> Evaluated([k \in DOMAIN conditions |->
         [label |-> FindLabelBetween(ctx, previous(k), Start(ctx, conditions[k])),
          condition |-> GetText(ctx.kids[conditions[k]]), body |-> Body(ctx.kids[bodies[k]])]]),
       has_else |-> has_else,
       else_label |-> IF has_else
                      THEN FindLabelBetween(ctx, Start(ctx, else), Start(ctx, Last(bodies)))
                      ELSE <<>>,
       else_body |-> IF has_else THEN Body(ctx.kids[Last(bodies)]) ELSE EmptyBody]

CaseGenerate(ctx) ==
  LET alternatives == Kids(ctx, "case_generate_alternative") IN
  [node |-> ctx.rule, expression |-> GetText(Kid(ctx, "expression")),
   alternatives |-> Evaluated([k \in DOMAIN alternatives |->
     [label |-> Label(alternatives[k]), choices |-> ParsedChoices(Kid(alternatives[k], "choices")),
      body |-> Body(Kid(alternatives[k], "generate_statement_body_with_begin_end"))]])]

ConcurrentStatement(ctx) ==
  LET s == Last(ctx.kids)
      generate == Last(s.kids)
  IN  [label |-> Label(ctx),
       statement |->
         CASE s.rule = "block_statement" -> BlockStatement(s)
           [] s.rule = "component_instantiation_statement" -> ComponentInstantiation(s)
           [] s.rule = "concurrent_statement_with_optional_label" -> WithOptionalLabel(s)
           [] generate.rule = "for_generate_statement" -> ForGenerate(generate)
           [] generate.rule = "if_generate_statement" -> IfGenerate(generate)
           [] generate.rule = "case_generate_statement" -> CaseGenerate(generate)]
--------------------------------------------------------------------------------
\* The statements of an entity are not read.
EntityDeclaration(ctx) ==
  [node |-> ctx.rule, identifier |-> Identifier(ctx),
   generic_list |-> Interfaces(Kid(ctx, "generic_clause")),
   port_list |-> Interfaces(Kid(ctx, "port_clause")),
   entity_declarative_items |-> Items(ctx, "entity_declarative_item")]

ArchitectureBody(ctx) ==
  [node |-> ctx.rule, identifier |-> Identifier(ctx), primary |-> GetText(Kid(ctx, "name")),
   body |-> Body(ctx)]

\* A label is read as any other name.
BlockSpecification(ctx) ==
  [label |-> Label(ctx), generate_specification |-> GetText(Kid(ctx, "generate_specification"))]

RECURSIVE BlockConfiguration(_)

NoBlock == [node |-> "none"]
ComponentConfiguration(ctx) ==
  LET block == Kid(ctx, "block_configuration") IN
  [node |-> ctx.rule,
   component_spec |-> ComponentSpecification(Kid(ctx, "component_specification")),
   binding |-> BindingIndication(Kid(ctx, "binding_indication")),
   block_config |-> IF Present(block) THEN BlockConfiguration(block) ELSE NoBlock]
ConfigurationItem(ctx) ==
  IF ctx.rule = "block_configuration" THEN BlockConfiguration(ctx) ELSE ComponentConfiguration(ctx)
BlockConfiguration(ctx) ==
  [node |-> ctx.rule, block_spec |-> BlockSpecification(Kid(ctx, "block_specification")),
   use_clauses |-> Each(Kids(ctx, "use_clause"), LAMBDA use : << UseClause(use) >>),
   configuration_items |-> Each(Kids(ctx, "configuration_item"),
                                LAMBDA item : << ConfigurationItem(Last(item.kids)) >>)]

ConfigurationDeclaration(ctx) ==
  [node |-> ctx.rule, identifier |-> Identifier(ctx), name |-> GetText(Kid(ctx, "name")),
   declarative_items |-> Items(ctx, "configuration_declarative_item"),
   block_config |-> BlockConfiguration(Kid(ctx, "block_configuration"))]

ContextReference(ctx) == [node |-> ctx.rule, selected_names |-> TextsOf(ctx, "selected_name")]
LibraryClause(ctx) == [node |-> ctx.rule, names |-> TextsOf(ctx, "identifier")]
ContextItem(ctx) ==
  CASE ctx.rule = "library_clause" -> LibraryClause(ctx)
    [] ctx.rule = "use_clause" -> UseClause(ctx)
    [] ctx.rule = "context_reference" -> ContextReference(ctx)
ContextDeclaration(ctx) ==
  [node |-> ctx.rule, identifier |-> Identifier(ctx),
   context_items |-> Each(Kids(ctx, "context_item"), LAMBDA item : << ContextItem(Last(item.kids)) >>)]

\* A library unit.
DesignUnit(ctx) ==
  CASE ctx.rule = "entity_declaration" -> EntityDeclaration(ctx)
    [] ctx.rule = "architecture_body" -> ArchitectureBody(ctx)
    [] ctx.rule = "configuration_declaration" -> ConfigurationDeclaration(ctx)
    [] ctx.rule = "context_declaration" -> ContextDeclaration(ctx)
    [] ctx.rule = "package_declaration" -> PackageDeclaration(ctx)
    [] ctx.rule = "package_body" -> PackageBody(ctx)
    [] ctx.rule = "package_instantiation_declaration" -> PackageInstantiation(ctx)
================================================================================
