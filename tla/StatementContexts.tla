--------------------------- MODULE StatementContexts ---------------------------
(***************************************************************************)
(* Statements as vhdlParser.g4 parses them: every form of the statements   *)
(* that hold no others, and what a statement becomes the part of.          *)
(***************************************************************************)
EXTENDS ParseTree

E(id) == Context("expression", <<Token(id)>>)
C(id) == Context("condition", <<E(id)>>)
NameOf(id) == Context("name", <<Token(id)>>)
LabelOf(id) == Context("label", <<Token(id)>>)
Labelled(id) == IF id = "" THEN <<>> ELSE <<LabelOf(id), Token(":")>>
Or(kids) == {<<>>, kids}

Sensitivity == Context("sensitivity_list", <<NameOf("s1"), Token(","), NameOf("s2")>>)

Target1 == Context("target", <<NameOf("t")>>)
TargetAggregate ==
  Context("target", <<Context("aggregate", <<Token("("), E("t1"), Token(","), E("t2"), Token(")")>>)>>)
Delays == Or(<<Context("delay_mechanism", <<Token("reject"), E("r"), Token("inertial")>>)>>)
WaveformOf(elements) == Context("waveform", elements)
ElementOf(id) == Context("waveform_element", <<E(id)>>)
ElementAfter(id, time) == Context("waveform_element", <<E(id), Token("after"), E(time)>>)

W == << WaveformOf(<<ElementOf("v1")>>),
        WaveformOf(<<ElementAfter("v2", "d2"), Token(","), ElementOf("v3")>>),
        WaveformOf(<<Token("unaffected")>>) >>
V == << E("v1"), E("v2"), E("v3") >>
Conditions == << C("c1"), C("c2") >>
ChoicesOf == << Context("choices",
                  << Context("choice", <<Context("discrete_range", <<Token("h1")>>)>>), Token("|"),
                     Context("choice", <<Context("simple_expression", <<Token("h2")>>)>>) >>),
                Context("choices", << Context("choice", <<Token("others")>>) >>) >>

\* value when condition else value when condition else value
ConditionalOf(rule, values, n, else) ==
  Context(rule, Concatenated([k \in 1..n |->
      (IF k = 1 THEN <<>> ELSE <<Token("else")>>)
        \o <<values[k], Token("when"), Conditions[k]>>])
    \o (IF else THEN <<Token("else"), values[n + 1]>> ELSE <<>>))
Conditionals(rule, values) == { ConditionalOf(rule, values, n, else) : n \in 1..2, else \in BOOLEAN }
Selecteds(rule, values) ==
  { Context(rule, Concatenated([k \in 1..n |->
      (IF k = 1 THEN <<>> ELSE <<Token(",")>>)
        \o <<values[k], Token("when"), ChoicesOf[k]>>])) : n \in 1..2 }
With == <<Token("with"), E("w"), Token("select")>>

Assertions ==
  { Context("assertion_statement", <<Context("assertion",
      <<Token("assert"), C("c")>> \o report \o severity)>>) :
      report \in Or(<<Token("report"), E("m")>>), severity \in Or(<<Token("severity"), E("e")>>) }
Calls ==
  { Context("procedure_call_statement", <<Context("procedure_call", <<NameOf(id)>>)>>) :
      id \in {"p", "p(a)"} }

WaveformAssignments(target) ==
  { Context("simple_signal_assignment", <<Context("simple_waveform_assignment",
      <<target, Token("<=")>> \o delay \o <<W[k]>>)>>) : delay \in Delays, k \in 1..3 }
SignalAssignments ==
  WaveformAssignments(Target1) \cup WaveformAssignments(TargetAggregate)
  \cup { Context("simple_signal_assignment", <<a>>) : a \in
           { Context("simple_force_assignment", <<Target1, Token("<="), Token("force"), E("v")>>),
             Context("simple_release_assignment", <<Target1, Token("<="), Token("release")>>) } }
  \cup { Context("conditional_signal_assignment", <<Context("conditional_waveform_assignment",
           <<Target1, Token("<=")>> \o delay \o <<waveforms>>)>>) :
           delay \in Delays, waveforms \in Conditionals("conditional_waveforms", W) }
  \cup { Context("conditional_signal_assignment", <<Context("conditional_force_assignment",
           <<Target1, Token("<="), Token("force"), values>>)>>) :
           values \in Conditionals("conditional_expressions", V) }
  \cup { Context("selected_signal_assignment", <<Context("selected_waveform_assignment",
           With \o <<Target1, Token("<=")>> \o delay \o <<waveforms>>)>>) :
           delay \in Delays, waveforms \in Selecteds("selected_waveforms", W) }
  \cup { Context("selected_signal_assignment", <<Context("selected_force_assignment",
           With \o <<Target1, Token("<="), Token("force"), values>>)>>) :
           values \in Selecteds("selected_expressions", V) }
VariableAssignments ==
  { Context("simple_variable_assignment", <<target, Token(":="), E("v")>>) :
      target \in {Target1, TargetAggregate} }
  \cup { Context("conditional_variable_assignment", <<Target1, Token(":="), values>>) :
           values \in Conditionals("conditional_expressions", V) }
  \cup { Context("selected_variable_assignment", With \o <<Target1, Token(":="), values>>) :
           values \in Selecteds("selected_expressions", V) }

Statement1(label, inner) == Context("sequential_statement", Labelled(label) \o <<inner>>)
Exit == Context("exit_statement", <<Token("exit"), LabelOf("k"), Token("when"), C("c")>>)

SequentialLeaves ==
  { Context("wait_statement", <<Token("wait")>> \o on \o until \o for) :
      on \in Or(<<Context("sensitivity_clause", <<Token("on"), Sensitivity>>)>>),
      until \in Or(<<Context("condition_clause", <<Token("until"), C("c")>>)>>),
      for \in Or(<<Context("timeout_clause", <<Token("for"), E("d")>>)>>) }
  \cup Assertions
  \cup { Context("report_statement", <<Token("report"), E("m")>> \o severity) :
           severity \in Or(<<Token("severity"), E("e")>>) }
  \cup { Context("signal_assignment_statement", <<a>>) : a \in SignalAssignments }
  \cup { Context("variable_assignment_statement", <<a>>) : a \in VariableAssignments }
  \cup Calls
  \cup { Exit, Context("next_statement", <<Token("next")>>), Context("null_statement", <<Token("null")>>),
         Context("return_statement", <<Token("return")>>),
         Context("return_statement", <<Token("return"), E("v")>>) }

Block1(statements) == Context("sequence_of_statements", statements)
Others == Or(<<Statement1("o", Exit)>>)

\* if or if generate: the clauses, the n-th with its condition, then else.
Branches(n, else, head(_), then, bodies) ==
  Concatenated([k \in 1..(n + (IF else THEN 1 ELSE 0)) |->
    <<Token(IF k = 1 THEN "if" ELSE IF k <= n THEN "elsif" ELSE "else")>> \o head(k)
      \o (IF k <= n THEN <<Conditions[k]>> ELSE <<>>)
      \o (IF k <= n \/ then = "generate" THEN <<Token(then)>> ELSE <<>>) \o <<bodies[k]>>])

\* The number of conditions, whether there is an else, and one of the branches.
Shapes == { shape \in (1..2) \X BOOLEAN \X (1..3) :
              shape[3] <= shape[1] + (IF shape[2] THEN 1 ELSE 0) }

Ifs(s) ==
  { Context("if_statement",
      Branches(n, else, LAMBDA k : <<>>, "then",
               [k \in 1..3 |-> Block1(IF k = at THEN <<s>> ELSE other)])
        \o <<Token("end"), Token("if")>>) :
      <<n, else, at>> \in Shapes, other \in Others }
Cases(s) ==
  { Context("case_statement", <<Token("case"), E("e"), Token("is")>>
      \o [k \in 1..2 |-> Context("case_statement_alternative",
           <<Token("when"), ChoicesOf[k], Token("=>"),
             Block1(IF k = at THEN <<s>> ELSE other)>>)]
      \o <<Token("end"), Token("case")>>) : at \in 1..2, other \in Others }
Loops(s) ==
  { Context("loop_statement", scheme \o <<Token("loop"), Block1(<<s, Statement1("o", Exit)>>),
                                          Token("end"), Token("loop"), LabelOf("z")>>) :
      scheme \in { <<>>,
        <<Context("iteration_scheme", <<Token("while"), C("c")>>)>>,
        <<Context("iteration_scheme", <<Token("for"), Context("parameter_specification",
            <<Context("identifier", <<Token("i")>>), Token("in"),
              Context("discrete_range", <<Token("lo"), Token("hi")>>)>>)>>)>> } }
--------------------------------------------------------------------------------
Optionally(inner) == Context("concurrent_statement_with_optional_label", <<inner>>)
Concurrent(label, inner) == Context("concurrent_statement", Labelled(label) \o <<inner>>)

Declared(rule) ==
  Context(rule, <<Context("constant_declaration",
    <<Context("identifier", <<Token("q1")>>), Context("identifier", <<Token("q2")>>),
      Context("subtype_indication", <<Token("y")>>), E("u")>>)>>)

ActualsOf(aspect, ids) ==
  Context(aspect, <<Context("association_list",
    [k \in DOMAIN ids |-> Context("actual_part", <<Token(ids[k])>>)])>>)
Maps == { generics \o ports : generics \in Or(<<ActualsOf("generic_map_aspect", <<"a1">>)>>),
                              ports \in Or(<<ActualsOf("port_map_aspect", <<"a2", "a3">>)>>) }
Instance(unit, maps) ==
  Context("component_instantiation_statement", <<Context("instantiated_unit", unit)>> \o maps)
Units == { <<NameOf("u")>>, <<Token("entity"), NameOf("u")>>, <<Token("configuration"), NameOf("u")>>,
           <<Token("entity"), NameOf("u"), Token("("), Context("identifier", <<Token("x")>>), Token(")")>> }

(* A labelled procedure call is an instance: the rule                       *)
(* component_instantiation_statement is tried first and takes any name.    *)
CallOrInstance(label, call) ==
  IF label = ""
  THEN Optionally(Context("concurrent_procedure_call_statement", <<call>>))
  ELSE Instance(<<Kid(Kid(call, "procedure_call"), "name")>>, <<>>)

OneInstance == Concurrent("l", Instance(<<NameOf("u")>>, <<>>))
OneAssignment ==
  Concurrent("", Optionally(Context("concurrent_signal_assignment_statement",
    <<Context("concurrent_signal_assignment_any", <<Target1, Token("<="), W[1]>>)>>)))

ConcurrentLeaves ==
  { Concurrent("l", Instance(unit, maps)) : unit \in Units, maps \in Maps }
  \cup { Concurrent(label, CallOrInstance(label, call)) : label \in {"", "l"}, call \in Calls }
  \cup { Concurrent(label, Optionally(inner)) : label \in {"", "l"}, inner \in
           { Context("concurrent_assertion_statement", <<a>>) : a \in Assertions }
           \cup { Context("concurrent_signal_assignment_statement", <<a>>) : a \in
                  { Context("concurrent_signal_assignment_any",
                      <<target, Token("<=")>> \o delay \o <<waveforms>>) :
                      target \in {Target1, TargetAggregate}, delay \in Delays,
                      waveforms \in ToSet(W) \cup Conditionals("conditional_waveforms", W) }
                  \cup { Context("concurrent_selected_signal_assignment",
                           With \o <<Target1, Token("<=")>> \o delay \o <<waveforms>>) :
                           delay \in Delays, waveforms \in Selecteds("selected_waveforms", W) } } }

Processes(s) ==
  { Concurrent("l", Optionally(Context("process_statement",
      <<Token("process")>> \o sensitivity \o <<Declared("process_declarative_item"), Token("begin"), s,
        Statement1("o", Exit), Token("end"), Token("process"), LabelOf("z")>>))) :
      sensitivity \in { <<>>,
        <<Context("process_sensitivity_list", <<Token("all")>>)>>,
        <<Context("process_sensitivity_list", <<Sensitivity>>)>> } }

Declaring == <<Declared("block_declarative_item"), Token("begin")>>
Blocks(s) ==
  { Concurrent("l", Context("block_statement",
      <<Token("block"), Token("("), C("c"), Token(")"), Context("block_header", maps)>>
        \o Declaring \o <<s, Token("end"), Token("block")>> \o end)) :
      maps \in Maps, end \in Or(<<LabelOf("z")>>) }

Generate(inner) == Concurrent("l", Context("generate_statement", <<inner>>))
ForGenerates(s) ==
  { Generate(Context("for_generate_statement",
      <<Token("for"), Context("parameter_specification",
          <<Context("identifier", <<Token("i")>>), Token("in"),
            Context("discrete_range", <<Token("lo"), Token("hi")>>)>>), Token("generate"),
        Context("generate_statement_body", declarations \o <<s>>), Token("end"), Token("generate")>>)) :
      declarations \in Or(Declaring) }
IfGenerates(s) ==
  { Generate(Context("if_generate_statement",
      Branches(n, else, LAMBDA k : IF k \in labels THEN Labelled(<<"g1", "g2", "g3">>[k]) ELSE <<>>,
               "generate", [k \in 1..3 |-> Context("generate_statement_body",
                                             IF k = at THEN <<s>> ELSE other)])
        \o <<Token("end"), Token("generate"), LabelOf("z")>>)) :
      <<n, else, at>> \in Shapes, labels \in SUBSET (1..3), other \in {<<>>, <<OneInstance>>} }
CaseGenerates(s) ==
  { Generate(Context("case_generate_statement", <<Token("case"), E("e"), Token("generate")>>
      \o [k \in 1..2 |-> Context("case_generate_alternative",
           <<Token("when")>> \o (IF k \in labels THEN Labelled(<<"g1", "g2">>[k]) ELSE <<>>)
             \o <<ChoicesOf[k], Token("=>"), Context("generate_statement_body_with_begin_end",
                  IF k = at THEN Declaring \o <<s, Token("end"), LabelOf("z")>>
                  ELSE <<OneInstance>>)>>)]
      \o <<Token("end"), Token("generate")>>)) :
      labels \in SUBSET (1..2), at \in 1..2 }
================================================================================
