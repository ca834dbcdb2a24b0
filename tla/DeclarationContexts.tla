-------------------------- MODULE DeclarationContexts --------------------------
(***************************************************************************)
(* Declarations and design units as vhdlParser.g4 parses them: every form  *)
(* of the declarations that hold no others, and the regions a declaration  *)
(* or a statement may stand in.  A rule that only lists others or chooses  *)
(* one of them is left out between the rules around it.                    *)
(***************************************************************************)
EXTENDS StatementContexts

Id(id) == Context("identifier", <<Token(id)>>)
TwoIds == <<Id("q1"), Id("q2")>>
SubtypeNamed(id) == Context("subtype_indication", <<Token(id)>>)
TypeMarkNamed(id) == Context("type_mark", <<Token(id)>>)
DesignatorOf(id) == Context("designator", <<Token(id)>>)
SignatureOf(id) == Context("signature", <<Token("["), TypeMarkNamed(id), Token("]")>>)
RangeOf(lo, hi) == Context("range", <<Token(lo), Token(hi)>>)
GenericMapOf(ids) == ActualsOf("generic_map_aspect", ids)
Words == {"all", "others"}
--------------------------------------------------------------------------------
InterfacesOf(rule, elements) ==
  Context(rule, [k \in DOMAIN elements |-> Context("interface_element", <<elements[k]>>)])

InterfaceObject(rule, ids, type, value) ==
  Context(rule, ids \o <<SubtypeNamed(type)>> \o value)
OneParameter ==
  InterfacesOf("formal_parameter_list",
    <<InterfaceObject("interface_variable_declaration", <<Id("o")>>, "ot", <<>>)>>)

InterfaceElements ==
  { InterfaceObject(rule, ids, "it", value) :
      rule \in {"interface_constant_declaration", "interface_signal_declaration",
                "interface_variable_declaration"},
      ids \in {<<Id("i1")>>, <<Id("i1"), Id("i2")>>}, value \in Or(<<E("iv")>>) }
  \cup { InterfaceObject("interface_file_declaration", <<Id("i1"), Id("i2")>>, "it", <<>>),
         Context("interface_type_declaration", <<Token("type"), Id("i1")>>) }
  \cup { Context("interface_package_declaration",
           <<Id("i1"), NameOf("ip"), Context("interface_package_generic_map_aspect", generics)>>) :
           generics \in { <<GenericMapOf(<<"ia">>)>>, <<Token("generic"), Token("map"), Token("<>")>> } }
  \cup { Context("interface_subprogram_declaration", <<spec>> \o default) :
           spec \in { Context("interface_procedure_specification", <<DesignatorOf("i1")>>),
                      Context("interface_procedure_specification",
                        <<DesignatorOf("i1"), OneParameter>>),
                      Context("interface_function_specification",
                        <<DesignatorOf("i1"), OneParameter, TypeMarkNamed("ir")>>) },
           default \in Or(<<Context("interface_subprogram_default", <<NameOf("id")>>)>>) }

\* Two lists of interfaces: one has the element, the other one an object.
InterfaceLists(first, second) ==
  LET object == InterfaceObject("interface_signal_declaration", <<Id("j1"), Id("j2")>>, "jt", <<>>)
      lists == { InterfacesOf(first, <<element, object>>) : element \in InterfaceElements }
      others == { InterfacesOf(second, <<element>>) : element \in InterfaceElements }
  IN  { <<list>> : list \in lists }
      \cup { <<InterfacesOf(first, <<object>>), list>> : list \in others }
      \cup { <<>>, <<InterfacesOf(second, <<object>>)>> }
--------------------------------------------------------------------------------
Value == Or(<<E("u")>>)

ObjectDeclarations ==
  { Context(rule, TwoIds \o <<SubtypeNamed("y")>> \o value) :
      rule \in {"constant_declaration", "variable_declaration", "signal_declaration"},
      value \in Value }
  \cup { Context("file_declaration", TwoIds \o <<SubtypeNamed("y")>> \o open) :
           open \in { <<>> } \cup
             { <<Context("file_open_information",
                 kind \o <<Token("is"), Context("file_logical_name", <<E("fn")>>)>>)>> :
                 kind \in Or(<<Token("open"), E("fk")>>) } }

EntityTags ==
  { Context("entity_name_list", <<Token(word)>>) : word \in Words }
  \cup { Context("entity_name_list",
           <<Context("entity_designator", <<Context("entity_tag", <<Token("n1")>>)>> \o signature),
             Token(","), Context("entity_designator", <<Context("entity_tag", <<Token("n2")>>)>>)>>) :
           signature \in Or(<<SignatureOf("nt")>>) }
NameDeclarations ==
  { Context("alias_declaration", <<Context("alias_designator", <<Token("q")>>)>> \o subtype
      \o <<NameOf("an")>> \o signature) :
      subtype \in Or(<<SubtypeNamed("y")>>), signature \in Or(<<SignatureOf("nt")>>) }
  \cup { Context("attribute_specification",
           <<Context("attribute_designator", <<Token("ad")>>), tags, E("u")>>) : tags \in EntityTags }
  \cup { Context("attribute_declaration", <<Id("q"), TypeMarkNamed("y")>>),
         Context("group_template_declaration", <<Id("q")>>),
         Context("group_declaration", <<Id("q"), NameOf("gn"),
           Context("group_constituent", <<Token("g1")>>), Token(","),
           Context("group_constituent", <<Token("g2")>>)>>),
         Context("use_clause", <<Context("selected_name", <<Token("x1")>>), Token(","),
                                 Context("selected_name", <<Token("x2")>>)>>) }
  \cup { Context("disconnection_specification",
           <<Context("signal_list", signals), TypeMarkNamed("y"), E("d")>>) :
           signals \in { <<Token(word)>> : word \in Words }
                       \cup {<<NameOf("n1"), Token(","), NameOf("n2")>>} }

TypeOf(definition) ==
  Context("type_declaration", <<Id("q"), Context("type_definition", <<definition>>)>>)
RangeConstraintOf == Context("range_constraint", <<RangeOf("lo", "hi")>>)
IndexOf(id) == Context("index_subtype_definition", <<TypeMarkNamed(id), Token("range"), Token("<>")>>)
TypeDeclarations ==
  { Context("type_declaration", <<Id("q")>>),
    Context("subtype_declaration", <<Id("q"), SubtypeNamed("y")>>) }
  \cup { TypeOf(definition) : definition \in
    { Context("enumeration_type_definition",
        <<Context("enumeration_literal", <<Token("l1")>>), Token(","),
          Context("enumeration_literal", <<Token("l2")>>)>>),
      Context("integer_type_definition", <<RangeConstraintOf>>),
      Context("physical_type_definition",
        <<RangeConstraintOf, Context("primary_unit_declaration", <<Id("p1")>>),
          Context("secondary_unit_declaration", <<Id("p2"), Token("="), E("p1")>>)>>),
      Context("unbounded_array_definition",
        <<IndexOf("m1"), Token(","), IndexOf("m2"), SubtypeNamed("y")>>),
      Context("constrained_array_definition",
        <<Context("index_constraint",
            <<Context("discrete_range", <<Token("lo")>>), Token(","),
              Context("discrete_range", <<Token("hi")>>)>>), SubtypeNamed("y")>>),
      Context("record_type_definition",
        <<Context("element_declaration", TwoIds \o <<SubtypeNamed("y")>>),
          Context("element_declaration", <<Id("q3"), SubtypeNamed("z")>>)>>),
      Context("access_type_definition", <<SubtypeNamed("y")>>),
      Context("file_type_definition", <<TypeMarkNamed("y")>>) } }

\* The specification of a procedure without a return type, of a function with.
SpecificationOf(id, header, parameters, return) ==
  Context("subprogram_specification",
    <<Context(IF return = "" THEN "procedure_specification" ELSE "function_specification",
        <<DesignatorOf(id)>> \o header \o parameters
          \o (IF return = "" THEN <<>> ELSE <<TypeMarkNamed(return)>>))>>)
Procedure == SpecificationOf("sp", <<>>, <<>>, "")
Instantiations ==
  { Context("subprogram_instantiation_declaration", <<DesignatorOf("q"), NameOf("sn")>> \o rest) :
      rest \in { <<>>, <<SignatureOf("nt"), GenericMapOf(<<"na">>)>> } }
  \cup { Context("package_instantiation_declaration", <<Id("q"), NameOf("pn")>> \o generics) :
           generics \in Or(<<GenericMapOf(<<"a1", "a2">>)>>) }
Subprograms ==
  { Context("subprogram_declaration", <<SpecificationOf("q", header, list, return)>>) :
      header \in { <<>> } \cup
        { <<Context("subprogram_header", <<InterfacesOf("generic_list",
              <<InterfaceObject("interface_constant_declaration", <<Id("h1"), Id("h2")>>, "ht", <<>>)>>)>>
              \o generics)>> : generics \in Or(<<GenericMapOf(<<"a1">>)>>) },
      list \in { <<InterfacesOf("formal_parameter_list", <<element>>)>> : element \in InterfaceElements }
                 \cup {<<>>},
      return \in {"", "rt"} }

Components ==
  { Context("component_declaration", <<Id("q")>> \o lists) :
      lists \in InterfaceLists("generic_clause", "port_clause") }

InstancesOf(kids) ==
  Context("component_specification", <<Context("instantiation_list", kids), NameOf("cn")>>)
Bindings ==
  { Context("binding_indication", aspect \o maps) : maps \in Maps, aspect \in
      { <<>> } \cup
      { <<Context("entity_aspect", unit)>> : unit \in
          { <<Token("open")>>, <<Token("configuration"), Context("unit_ref", <<Token("br")>>)>>,
            <<Token("entity"), Context("unit_ref", <<Token("br")>>), Id("ba")>> } } }
ConfigurationSpecifications ==
  { Context("configuration_specification", <<InstancesOf(instances), binding>>) :
      instances \in {<<Token("all")>>, <<LabelOf("k1"), LabelOf("k2")>>}, binding \in Bindings }

DeclarationLeaves ==
  ObjectDeclarations \cup NameDeclarations \cup TypeDeclarations \cup Instantiations
    \cup Subprograms \cup Components \cup ConfigurationSpecifications
--------------------------------------------------------------------------------
(* What each region may declare. *)
ProcessOrPackageItems ==
  {"subprogram_declaration", "subprogram_instantiation_declaration", "package_declaration",
   "package_instantiation_declaration", "type_declaration", "subtype_declaration",
   "constant_declaration", "variable_declaration", "file_declaration", "alias_declaration",
   "attribute_declaration", "attribute_specification", "use_clause",
   "group_template_declaration", "group_declaration"}
Declarable ==
  [process_declarative_item |-> ProcessOrPackageItems \cup {"subprogram_body", "package_body"},
   package_declarative_item |-> ProcessOrPackageItems \cup
     {"signal_declaration", "component_declaration", "disconnection_specification"},
   entity_declarative_item |-> ProcessOrPackageItems \cup
     {"subprogram_body", "package_body", "signal_declaration", "disconnection_specification"},
   block_declarative_item |-> ProcessOrPackageItems \cup
     {"subprogram_body", "package_body", "signal_declaration", "disconnection_specification",
      "component_declaration", "configuration_specification"},
   protected_type_declarative_item |->
     {"subprogram_declaration", "subprogram_instantiation_declaration",
      "attribute_specification", "use_clause"},
   configuration_declarative_item |->
     {"use_clause", "attribute_specification", "group_declaration"}]
IsDeclaration(ctx) == ctx.rule \in Declarable["block_declarative_item"]

Object(id) == Context("variable_declaration", <<Id(id), SubtypeNamed("y"), E("u")>>)
\* A declaration between two others.
Region(rule, ctx) == [k \in 1..3 |-> Context(rule, << <<Object("o1"), ctx, Object("o2")>>[k] >>)]

SubprogramBodies(declarations, statements) ==
  Context("subprogram_body", <<Procedure>> \o declarations \o <<Token("begin")>> \o statements
    \o <<Token("end"), DesignatorOf("z")>>)

\* The declarations that hold the declaration ctx.
RegionsOf(ctx) ==
  LET region(rule) == Region(rule, ctx)
      items(rule) == IF ctx.rule \in Declarable[rule] THEN {region(rule)} ELSE {}
  IN  { SubprogramBodies(declarations, <<Statement1("s", Exit)>>) :
          declarations \in items("process_declarative_item") }
      \cup { Context("package_body", <<Id("q")>> \o declarations) :
               declarations \in items("process_declarative_item") }
      \cup { TypeOf(Context("protected_type_body", declarations)) :
               declarations \in items("process_declarative_item") }
      \cup { TypeOf(Context("protected_type_declaration", << declarations[2] >>)) :
               declarations \in items("protected_type_declarative_item") }
      \cup { Context("package_declaration", <<Id("q")>> \o generics \o declarations) :
               declarations \in items("package_declarative_item"), generics \in
                 { <<InterfacesOf("generic_clause",
                       <<InterfaceObject("interface_constant_declaration", <<Id("h1"), Id("h2")>>,
                                         "ht", <<>>)>>), GenericMapOf(<<"ha1">>)>>, <<>> } }

\* The statements and the units that hold it.
BodiesOf(ctx) ==
  IF ctx.rule \notin Declarable["process_declarative_item"] THEN {}
  ELSE { Concurrent("l", Optionally(Context("process_statement",
           Region("process_declarative_item", ctx)
             \o <<Token("begin"), Statement1("s", Exit), Token("end")>>))) }
\* mapped generics and ports of a block
BlocksOf(ctx) ==
  { Concurrent("l", Context("block_statement",
      <<Token("block"), Context("block_header", header)>> \o Region("block_declarative_item", ctx)
        \o <<Token("begin"), OneInstance, Token("end")>>)) :
      header \in { <<>> } \cup
        { << InterfacesOf("generic_clause", <<InterfaceObject("interface_constant_declaration",
                 <<Id("h1"), Id("h2")>>, "ht", <<>>)>>), GenericMapOf(<<"ha1">>),
             InterfacesOf("port_clause", <<InterfaceObject("interface_signal_declaration",
                 <<Id("h3")>>, "hu", <<E("hv")>>)>>), ActualsOf("port_map_aspect", <<"ha2">>) >> } }
GeneratesOf(ctx) ==
  { Generate(Context("for_generate_statement",
      <<Token("for"), Context("parameter_specification", <<Id("i"), Token("in"),
          Context("discrete_range", <<Token("lo"), Token("hi")>>)>>), Token("generate"),
        Context("generate_statement_body",
          Region("block_declarative_item", ctx) \o <<Token("begin"), OneInstance>>)>>)) }

UnitOf(rule, kids) == Context(rule, <<Id("q")>> \o kids)
ArchitectureOf(declarations, statements) ==
  UnitOf("architecture_body",
    <<NameOf("en")>> \o declarations \o <<Token("begin")>> \o statements \o <<Token("end"), Id("z")>>)
EntityOf(lists, declarations) ==
  UnitOf("entity_declaration", lists \o declarations
    \o <<Token("begin"), Context("entity_statement", <<CHOOSE a \in Assertions : TRUE>>), Token("end")>>)
BlockOf(spec, uses, items) ==
  Context("block_configuration",
    <<Context("block_specification", <<LabelOf("b")>> \o spec)>> \o uses
      \o [k \in DOMAIN items |-> Context("configuration_item", <<items[k]>>)])
ConfigurationOf(declarations, block) ==
  UnitOf("configuration_declaration", <<NameOf("en")>> \o declarations \o <<block>>)
UnitsOf(ctx) ==
  { ArchitectureOf(Region("block_declarative_item", ctx), <<OneInstance>>) }
  \cup (IF ctx.rule \in Declarable["entity_declarative_item"]
        THEN { EntityOf(<<>>, Region("entity_declarative_item", ctx)) } ELSE {})
  \cup (IF ctx.rule \in Declarable["configuration_declarative_item"]
        THEN { ConfigurationOf(<<Context("configuration_declarative_item", <<ctx>>)>>,
                               BlockOf(<<>>, <<>>, <<>>)) } ELSE {})

UseOf(id) == Context("use_clause", <<Context("selected_name", <<Token(id)>>)>>)
\* Block configurations in block configurations and in component configurations.
BlockConfigurations ==
  LET inner == BlockOf(<<Context("generate_specification", <<Token("w")>>)>>, <<UseOf("x3")>>, <<>>)
      components == { Context("component_configuration", <<InstancesOf(<<LabelOf("k1")>>)>>
                        \o binding \o block) :
                        binding \in {<<b>> : b \in Bindings} \cup {<<>>}, block \in Or(<<inner>>) }
  IN  { BlockOf(spec, uses, <<item>>) :
          spec \in Or(<<Context("generate_specification", <<Token("v")>>)>>),
          uses \in { <<>>, <<UseOf("x1"), UseOf("x2")>> }, item \in components \cup {inner} }
UnitLeaves ==
  { EntityOf(lists, <<>>) : lists \in InterfaceLists("generic_clause", "port_clause") }
  \cup { ConfigurationOf(<<>>, block) : block \in BlockConfigurations }
  \cup { UnitOf("context_declaration", <<Context("context_item", <<item1>>), Context("context_item", <<item2>>)>>) :
           item1 \in { Context("library_clause", <<Id("lib1"), Id("lib2")>>), UseOf("x1"),
                       Context("context_reference", <<Context("selected_name", <<Token("r1")>>)>>) },
           item2 \in { UseOf("x2"), Context("context_reference",
                         <<Context("selected_name", <<Token("r2")>>), Token(","),
                           Context("selected_name", <<Token("r3")>>)>>) } }
================================================================================
