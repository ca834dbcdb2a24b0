----------------------------- MODULE StatementWalks -----------------------------
(***************************************************************************)
(* The walks over the nodes of sequential statements, each the sequence of *)
(* what it meets: the names the resolver looks up (resolver.h) and those   *)
(* the validator asks for (validator.cpp).                                 *)
(***************************************************************************)
EXTENDS Statements

(* resolve_waveform, resolve_conditional_expression, resolve_selected_... *)
WaveformLookups(waveform) == Each(waveform, LAMBDA element : element.value \o element.after)
ConditionalLookups(elements) ==
  Each(elements, LAMBDA element : WaveformLookups(element.waveform) \o element.condition)
SelectedLookups(elements) ==
  Each(elements, LAMBDA element : WaveformLookups(element.waveform) \o element.choices)

RECURSIVE SequentialLookups(_)

ItemsLookups(statements) == Each(statements, LAMBDA item : SequentialLookups(item))

SequentialLookups(item) ==
  CASE item.node = "wait_statement" ->
         item.sensitivity_list \o item.condition_clause \o item.timeout_clause
    [] item.node \in {"assertion_statement", "concurrent_assertion_statement"} ->
         item.condition \o item.report \o item.severity
    [] item.node = "report_statement" -> item.report \o item.severity
    [] item.node = "simple_waveform_assignment" ->
         item.target \o item.delay_mechanism_reject \o WaveformLookups(item.waveform)
    [] item.node = "simple_force_assignment" -> item.target \o WaveformLookups(item.waveform)
    [] item.node = "simple_release_assignment" -> item.target
    [] item.node = "conditional_waveform_assignment" ->
         item.target \o item.delay_mechanism_reject
           \o ConditionalLookups(item.conditional_waveforms)
    [] item.node \in {"conditional_force_assignment", "conditional_variable_assignment"} ->
         item.target \o ConditionalLookups(item.conditional_expressions)
    [] item.node \in {"selected_waveform_assignment", "concurrent_selected_signal_assignment"} ->
         item.with_expression \o item.target \o item.delay_mechanism_reject
           \o SelectedLookups(item.selected_waveforms)
    [] item.node \in {"selected_force_assignment", "selected_variable_assignment"} ->
         item.with_expression \o item.target \o SelectedLookups(item.selected_expressions)
    [] item.node = "simple_variable_assignment" -> item.target \o item.value
    [] item.node \in {"procedure_call_statement", "concurrent_procedure_call_statement"} ->
         item.name
    [] item.node = "if_statement" ->
         Each(item.if_clauses,
              LAMBDA clause : clause.condition \o ItemsLookups(clause.statements))
           \o ItemsLookups(item.else_clauses)
    [] item.node = "case_statement" ->
         item.expression \o Each(item.alternatives,
           LAMBDA alternative : alternative.choices \o ItemsLookups(alternative.statements))
    [] item.node = "loop_statement" ->
         item.iteration_scheme.range \o ItemsLookups(item.statements)
    [] item.node \in {"next_statement", "exit_statement"} -> item.exit_expression
    [] item.node = "return_statement" -> item.return_expression
    [] item.node = "null_statement" -> <<>>

--------------------------------------------------------------------------------
WaveformAsked(waveform) == Each(waveform, LAMBDA element : element.value \o element.after)
ConditionalAsked(elements) ==
  Each(elements, LAMBDA element : WaveformAsked(element.waveform) \o element.condition)
\* Mutant: the choices of a selected assignment are taken for granted.
SelectedAskedWithoutChoices(elements) ==
  Each(elements, LAMBDA element : WaveformAsked(element.waveform))
SelectedAsked(elements) ==
  Each(elements, LAMBDA element : WaveformAsked(element.waveform) \o element.choices)

RECURSIVE SequentialAsked(_)

ItemsAsked(statements) == Each(statements, LAMBDA item : SequentialAsked(item))

SequentialAsked(item) ==
  CASE item.node = "wait_statement" ->
         item.sensitivity_list \o item.condition_clause \o item.timeout_clause
    [] item.node \in {"assertion_statement", "concurrent_assertion_statement"} ->
         item.condition \o item.report \o item.severity
    [] item.node = "report_statement" -> item.report \o item.severity
    [] item.node = "simple_waveform_assignment" ->
         item.target \o item.delay_mechanism_reject \o WaveformAsked(item.waveform)
    [] item.node = "simple_force_assignment" -> item.target \o WaveformAsked(item.waveform)
    [] item.node = "simple_release_assignment" -> item.target
    [] item.node = "conditional_waveform_assignment" ->
         item.target \o item.delay_mechanism_reject
           \o ConditionalAsked(item.conditional_waveforms)
    [] item.node \in {"conditional_force_assignment", "conditional_variable_assignment"} ->
         item.target \o ConditionalAsked(item.conditional_expressions)
    [] item.node \in {"selected_waveform_assignment", "concurrent_selected_signal_assignment"} ->
         item.with_expression \o item.target \o item.delay_mechanism_reject
           \o SelectedAsked(item.selected_waveforms)
    [] item.node \in {"selected_force_assignment", "selected_variable_assignment"} ->
         item.with_expression \o item.target \o SelectedAsked(item.selected_expressions)
    [] item.node = "simple_variable_assignment" -> item.target \o item.value
    [] item.node \in {"procedure_call_statement", "concurrent_procedure_call_statement"} ->
         item.name
    [] item.node = "if_statement" ->
         Each(item.if_clauses,
              LAMBDA clause : clause.condition \o ItemsAsked(clause.statements))
           \o ItemsAsked(item.else_clauses)
    [] item.node = "case_statement" ->
         item.expression \o Each(item.alternatives,
           LAMBDA alternative : alternative.choices \o ItemsAsked(alternative.statements))
    [] item.node = "loop_statement" ->
         item.iteration_scheme.range \o ItemsAsked(item.statements)
    [] item.node \in {"next_statement", "exit_statement"} -> item.exit_expression
    [] item.node = "return_statement" -> item.return_expression
    [] item.node = "null_statement" -> <<>>
================================================================================
