------------------------------- MODULE Statements -------------------------------
(***************************************************************************)
(* Sequential statements: context_parser.cpp builds their nodes.  The node *)
(* of an expression is the sequence of the names it refers to, that of a   *)
(* called name one text with its arguments.  The flags of a statement (the *)
(* force mode, the kind of delay, the ? of a matching one) are left out.   *)
(***************************************************************************)
EXTENDS ParseTree

Expr(ctx) == GetText(ctx)
Condition(ctx) == GetText(Kid(ctx, "condition"))

\* get_optional_name and get_identifier of each child.
TextsOf(ctx, rule) == Each(Kids(ctx, rule), GetText)
Label(ctx) == GetText(Kid(ctx, "label"))

(* The names in an aggregate are not read. *)
Target(ctx) == GetText(Kid(Kid(ctx, "target"), "name"))
Reject(ctx) == GetText(Kid(Kid(ctx, "delay_mechanism"), "expression"))

ParsedChoices(ctx) ==
  Each(Kids(ctx, "choice"), LAMBDA choice :
    IF Has(choice, {"others"}) THEN <<"OTHERS">> ELSE GetText(choice))

Values(value, after) == [value |-> value, after |-> after]
Waveform(ctx) ==
  LET elements == Kids(ctx, "waveform_element") IN
  Evaluated([k \in DOMAIN elements |->
    Values(Expr(Nth(elements[k], "expression", 0)), Expr(Nth(elements[k], "expression", 1)))])

ValuesOf(ctx) ==
  IF ctx.rule = "waveform" THEN Waveform(ctx) ELSE << Values(Expr(ctx), <<>>) >>

(* Each condition goes with the value at its place; a value more is the     *)
(* one after the last else.                                                *)
Conditional(ctx, rule) ==
  LET conditions == Kids(ctx, "condition") IN
  Evaluated([k \in DOMAIN Kids(ctx, rule) |->
    [waveform |-> ValuesOf(Nth(ctx, rule, k - 1)),
     condition |-> IF k \in DOMAIN conditions THEN GetText(conditions[k]) ELSE <<>>]])
ConditionalWaveforms(ctx) == Conditional(Kid(ctx, "conditional_waveforms"), "waveform")
ConditionalExpressions(ctx) == Conditional(Kid(ctx, "conditional_expressions"), "expression")

Selected(ctx, rule) ==
  Evaluated([k \in 1..Min({Len(Kids(ctx, rule)), Len(Kids(ctx, "choices"))}) |->
    [waveform |-> ValuesOf(Kids(ctx, rule)[k]), choices |-> ParsedChoices(Kids(ctx, "choices")[k])]])
SelectedWaveforms(ctx) == Selected(Kid(ctx, "selected_waveforms"), "waveform")
SelectedExpressions(ctx) == Selected(Kid(ctx, "selected_expressions"), "expression")
--------------------------------------------------------------------------------
WaitStatement(ctx) ==
  [node |-> ctx.rule,
   sensitivity_list |-> TextsOf(Kid(Kid(ctx, "sensitivity_clause"), "sensitivity_list"), "name"),
   condition_clause |-> Condition(Kid(ctx, "condition_clause")),
   timeout_clause |-> Expr(Kid(Kid(ctx, "timeout_clause"), "expression"))]

\* Mutant: the severity is the first expression, report or not.
AssertionSeverityFirst(ctx, node) ==
  [node |-> node, condition |-> Condition(ctx),
   report |-> IF Has(ctx, {"report"}) THEN Expr(Nth(ctx, "expression", 0)) ELSE <<>>,
   severity |-> IF Has(ctx, {"severity"}) THEN Expr(Nth(ctx, "expression", 0)) ELSE <<>>]

Assertion(ctx, node) ==
  LET second == Has(ctx, {"report"}) /\ Len(Kids(ctx, "expression")) > 1 IN
  [node |-> node, condition |-> Condition(ctx),
   report |-> IF Has(ctx, {"report"}) THEN Expr(Nth(ctx, "expression", 0)) ELSE <<>>,
   severity |-> IF Has(ctx, {"severity"})
                THEN Expr(Nth(ctx, "expression", IF second THEN 1 ELSE 0)) ELSE <<>>]
AssertionStatement(ctx) == Assertion(Kid(ctx, "assertion"), ctx.rule)

ReportStatement(ctx) ==
  [node |-> ctx.rule, report |-> Expr(Nth(ctx, "expression", 0)),
   severity |-> Expr(Nth(ctx, "expression", 1))]

SimpleWaveformAssignment(ctx) ==
  [node |-> ctx.rule, target |-> Target(ctx), delay_mechanism_reject |-> Reject(ctx),
   waveform |-> Waveform(Kid(ctx, "waveform"))]
SimpleForceAssignment(ctx) ==
  [node |-> ctx.rule, target |-> Target(ctx), waveform |-> ValuesOf(Kid(ctx, "expression"))]
SimpleReleaseAssignment(ctx) == [node |-> ctx.rule, target |-> Target(ctx)]
ConditionalWaveformAssignment(ctx) ==
  [node |-> ctx.rule, target |-> Target(ctx), delay_mechanism_reject |-> Reject(ctx),
   conditional_waveforms |-> ConditionalWaveforms(ctx)]
ConditionalForceAssignment(ctx) ==
  [node |-> ctx.rule, target |-> Target(ctx),
   conditional_expressions |-> ConditionalExpressions(ctx)]
SelectedWaveformAssignment(ctx) ==
  [node |-> ctx.rule, with_expression |-> Expr(Kid(ctx, "expression")),
   target |-> Target(ctx), delay_mechanism_reject |-> Reject(ctx),
   selected_waveforms |-> SelectedWaveforms(ctx)]
SelectedForceAssignment(ctx) ==
  [node |-> ctx.rule, with_expression |-> Expr(Kid(ctx, "expression")),
   target |-> Target(ctx), selected_expressions |-> SelectedExpressions(ctx)]
SignalAssignment(ctx) ==
  LET assignment == Last(Last(ctx.kids).kids) IN
  CASE assignment.rule = "simple_waveform_assignment" -> SimpleWaveformAssignment(assignment)
    [] assignment.rule = "simple_force_assignment" -> SimpleForceAssignment(assignment)
    [] assignment.rule = "simple_release_assignment" -> SimpleReleaseAssignment(assignment)
    [] assignment.rule = "conditional_waveform_assignment" ->
         ConditionalWaveformAssignment(assignment)
    [] assignment.rule = "conditional_force_assignment" ->
         ConditionalForceAssignment(assignment)
    [] assignment.rule = "selected_waveform_assignment" ->
         SelectedWaveformAssignment(assignment)
    [] assignment.rule = "selected_force_assignment" -> SelectedForceAssignment(assignment)

SimpleVariableAssignment(ctx) ==
  [node |-> ctx.rule, target |-> Target(ctx), value |-> Expr(Kid(ctx, "expression"))]
ConditionalVariableAssignment(ctx) == ConditionalForceAssignment(ctx)
SelectedVariableAssignment(ctx) == SelectedForceAssignment(ctx)
VariableAssignment(ctx) ==
  LET assignment == Last(ctx.kids) IN
  CASE assignment.rule = "simple_variable_assignment" -> SimpleVariableAssignment(assignment)
    [] assignment.rule = "conditional_variable_assignment" ->
         ConditionalVariableAssignment(assignment)
    [] assignment.rule = "selected_variable_assignment" ->
         SelectedVariableAssignment(assignment)

ProcedureCall(ctx) ==
  [node |-> ctx.rule, name |-> GetText(Kid(Kid(ctx, "procedure_call"), "name"))]

\* next and exit
ExitStatement(ctx) ==
  [node |-> ctx.rule, label |-> Label(ctx), exit_expression |-> Condition(ctx)]
ReturnStatement(ctx) ==
  [node |-> ctx.rule, return_expression |-> Expr(Kid(ctx, "expression"))]
NullStatement(ctx) == [node |-> ctx.rule]
--------------------------------------------------------------------------------
RECURSIVE ParseStatement(_)

(* The statements in another have no node of their own for their label. *)
Sequence(ctx) ==
  LET statements == Kids(ctx, "sequential_statement") IN
  Evaluated([k \in DOMAIN statements |-> ParseStatement(statements[k])])

IfStatement(ctx) ==
  LET conditions == Kids(ctx, "condition")
      blocks == Kids(ctx, "sequence_of_statements")
  IN  [node |-> ctx.rule,
       if_clauses |-> Evaluated([k \in DOMAIN conditions |->
         [condition |-> GetText(conditions[k]), statements |-> Sequence(blocks[k])]]),
       else_clauses |-> IF Has(ctx, {"else"}) /\ Len(blocks) > Len(conditions)
                        THEN Sequence(blocks[Len(conditions) + 1]) ELSE <<>>]

CaseStatement(ctx) ==
  LET alternatives == Kids(ctx, "case_statement_alternative") IN
  [node |-> ctx.rule, expression |-> Expr(Kid(ctx, "expression")),
   alternatives |-> Evaluated([k \in DOMAIN alternatives |->
     [choices |-> ParsedChoices(Kid(alternatives[k], "choices")),
      statements |-> Sequence(Kid(alternatives[k], "sequence_of_statements"))]])]

ParameterSpecification(ctx) ==
  [for_identifier |-> GetText(Kid(ctx, "identifier")),
   range |-> GetText(Kid(ctx, "discrete_range"))]

LoopStatement(ctx) ==
  LET iteration == Kid(ctx, "iteration_scheme") IN
  [node |-> ctx.rule,
   iteration_scheme |-> IF Present(Kid(iteration, "parameter_specification"))
                        THEN ParameterSpecification(Kid(iteration, "parameter_specification"))
                        ELSE [for_identifier |-> <<>>, range |-> Condition(iteration)],
   statements |-> Sequence(Kid(ctx, "sequence_of_statements"))]

ParseStatement(ctx) ==
  LET s == Last(ctx.kids) IN
  CASE s.rule = "wait_statement" -> WaitStatement(s)
    [] s.rule = "assertion_statement" -> AssertionStatement(s)
    [] s.rule = "report_statement" -> ReportStatement(s)
    [] s.rule = "signal_assignment_statement" -> SignalAssignment(s)
    [] s.rule = "variable_assignment_statement" -> VariableAssignment(s)
    [] s.rule = "procedure_call_statement" -> ProcedureCall(s)
    [] s.rule = "if_statement" -> IfStatement(s)
    [] s.rule = "case_statement" -> CaseStatement(s)
    [] s.rule = "loop_statement" -> LoopStatement(s)
    [] s.rule \in {"next_statement", "exit_statement"} -> ExitStatement(s)
    [] s.rule = "return_statement" -> ReturnStatement(s)
    [] s.rule = "null_statement" -> NullStatement(s)

SequentialStatement(ctx) == [label |-> Label(ctx), stmt |-> ParseStatement(ctx)]
SequentialStatements(ctx) ==
  LET statements == Kids(ctx, "sequential_statement") IN
  Evaluated([k \in DOMAIN statements |-> SequentialStatement(statements[k])])
================================================================================
