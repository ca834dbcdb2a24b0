------------------------------- MODULE MCScopes -------------------------------
(***************************************************************************)
(* A package with its body and an entity with its architecture, in which   *)
(* the kinds of region are nested: a block in the architecture; a process, *)
(* a generate body and a package in the block; a subprogram in the package *)
(* body.  The declarations that may hide each other take the names x and y *)
(* in every way, and so do those a block declares beside the actuals of    *)
(* its map; f is declared as a subprogram, body or object in five ways;    *)
(* with and without a configuration specification and names that have no   *)
(* meaning.                                                                *)
(***************************************************************************)
EXTENDS Scopes

Plain == [kind |-> "", id |-> "", lib |-> "work", uses |-> <<>>, of |-> <<>>,
          target |-> <<>>, aspect |-> "", labels |-> {}, specification |-> "",
          interfaces |-> <<>>, declarations |-> <<>>, statements |-> <<>>,
          names |-> <<>>, outer |-> <<>>,
          formal |-> <<>>, actual |-> <<>>, designator |-> <<>>]
Named(kind, id) == [Plain EXCEPT !.kind = kind, !.id = id]
Object(id) == [Named("signal", id) EXCEPT !.names = << <<"bit">> >>]
Using(names) == [Named("statement", "") EXCEPT !.names = names]

(* An association with one element: formal => f(y), or formal => y. *)
Converted(node, formal, f, y) ==
  [node EXCEPT !.formal = << <<formal>> >>, !.actual = << <<f>> >>,
               !.designator = << <<y>> >>]
Mapped(node, formal, y) ==
  [node EXCEPT !.formal = << <<formal>> >>, !.actual = << <<>> >>,
               !.designator = << <<y>> >>]
Inst(kind, label, of) == [Named(kind, label) EXCEPT !.of = <<of>>]
Subprogram(kind, id) ==
  [Named(kind, id) EXCEPT
     !.specification = IF kind = "subprogram_body" THEN "f_spec" ELSE ""]

(* The ways f is declared in the architecture. *)
Functions ==
  { << <<"f1", "subprogram_declaration">> >>,
    << <<"f1", "subprogram_declaration">>, <<"f2", "subprogram_declaration">>,
       <<"f3", "subprogram_declaration">> >>,
    << <<"f1", "subprogram_declaration">>, <<"f2", "subprogram_body">> >>,
    << <<"f1", "subprogram_body">>, <<"f2", "subprogram_declaration">> >>,
    << <<"f1", "signal">>, <<"f2", "subprogram_declaration">> >> }
FNodes(functions) == [k \in DOMAIN functions |-> functions[k][1]]

(* Written so that no reference stays open, and otherwise. *)
Odd(odd, seq) == IF odd THEN seq ELSE <<>>

TypesAndPackages(names, odd) ==
  ("standard" :> [Named("package", "standard") EXCEPT !.lib = "std",
                    !.declarations = <<"bit">>])
    @@ ("bit" :> Named("signal", "bit"))
    @@ ("pkg" :> [Named("package", "pkg") EXCEPT
                    !.interfaces = <<"generic">>,
                    !.declarations = <<"pkg_object", "g_declared">>])
    @@ ("generic" :> Object("size"))
    @@ ("pkg_object" :> Object(names[1]))
    @@ ("g_declared" :> Subprogram("subprogram_declaration", "g"))
    @@ ("instantiated" :>
          Mapped([Named("package_instantiation", "pi") EXCEPT !.of = <<"pkg">>], "size", "bit"))
    @@ ("pkg_body" :> [Named("package_body", "pkg") EXCEPT
                         !.declarations = <<"h_body">>])
    @@ ("h_body" :> [Named("subprogram_body", "h") EXCEPT
                       !.specification = "h_spec", !.declarations = <<"h_object">>,
                       !.statements = <<"h_statement">>])
    @@ ("h_spec" :> [Subprogram("subprogram_declaration", "h") EXCEPT
                       !.interfaces = <<"h_parameter">>])
    @@ ("h_parameter" :> Object("param"))
    @@ ("h_object" :> Object("y"))
    @@ ("h_statement" :> Using(<< <<"g">>, <<"y">>, <<"size">>, <<"h">> >>
                               \o Odd(odd, << <<"param">> >>)))

Boxes ==
  ("box" :> [Named("entity", "box") EXCEPT !.interfaces = <<"box_port">>])
    @@ ("box_port" :> Object("p"))
    @@ ("top" :> [Named("entity", "top") EXCEPT !.interfaces = <<"port_x", "port_y">>,
                                                !.statements = <<"top_process">>])
    @@ ("port_x" :> Object("x")) @@ ("port_y" :> Object("y"))
    @@ ("top_process" :> [Named("process", "") EXCEPT !.outer = << <<"x">> >>])

Oddities ==
  ("specified" :> Converted([Named("configuration_specification", "") EXCEPT
                               !.of = <<"box">>, !.labels = {"u1", "u3", "u4"},
                               !.aspect = "entity", !.target = <<"box">>], "p", "y", "x"))
    @@ ("attribute" :> [Named("attribute_specification", "") EXCEPT
                      !.names = << <<"others">> >>])
    @@ ("inner_use" :> [Named("use_clause", "") EXCEPT
                      !.names = << <<"work", "pkg", "all">> >>])

Architecture(names, functions, odd) ==
  ("rtl" :> [Named("architecture", "rtl") EXCEPT
               !.of = <<"top">>, !.uses = << <<"work", "pkg", "all">> >>,
               !.declarations = <<"box_component", "rtl_object">> \o FNodes(functions)
                                  \o Odd(odd, <<"specified", "attribute", "inner_use">>),
               !.statements = <<"u1", "u2", "guarded">>])
    @@ ("box_component" :> [Named("component", "box") EXCEPT
                              !.interfaces = <<"component_port">>])
    @@ ("component_port" :> Object("p"))
    @@ ("rtl_object" :> Object(names[2]))
    @@ [n \in ToSet(FNodes(functions)) |->
          Subprogram((CHOOSE f \in ToSet(functions) : f[1] = n)[2], "f")]
    @@ (IF \E f \in ToSet(functions) : f[2] = "subprogram_body"
        THEN ("f_spec" :> [Subprogram("subprogram_declaration", "f") EXCEPT
                             !.interfaces = <<"parameter">>])
               @@ ("parameter" :> Object("param"))
        ELSE <<>>)
    @@ (IF odd THEN Oddities ELSE <<>>)
    @@ ("u1" :> Mapped(Inst("component_instantiation", "u1", "box"), "p", "x"))
    @@ ("u2" :> Converted(Inst("entity_instantiation", "u2", "box"), "p", "x", "y"))

Nested(names, odd) ==
  ("guarded" :> Converted([Named("block", "b") EXCEPT
                             !.interfaces = <<"block_port">>, !.outer = << <<"x">> >>,
                             !.declarations = <<"block_object", "inner_package">>,
                             !.statements = <<"clocked", "u4", "choice">>], "bp", "x", "y"))
    @@ ("block_port" :> Object("bp"))
    @@ ("block_object" :> Object(names[3]))
    @@ ("inner_package" :> [Named("package", "inner") EXCEPT !.declarations = <<"inner_object">>])
    @@ ("inner_object" :> [Object("w") EXCEPT !.names = Odd(odd, << <<"x">> >>)])
    @@ ("clocked" :> [Named("process", "") EXCEPT
                        !.outer = << <<"x">>, <<"y">> >>, !.declarations = <<"variable">>,
                        !.statements = <<"assign">>])
    @@ ("variable" :> Object(names[4]))
    @@ ("assign" :> Using(<< <<"x">>, <<"y">>, <<"f">>, <<"bp">>, <<"work", "pkg", "g">> >>
                            \o Odd(odd, << <<"nowhere">>, <<"Null">> >>)))
    @@ ("choice" :> [Named("generate", "") EXCEPT
                       !.outer = << <<"y">> >>,
                       !.declarations = <<"choice_object", "open_spec">>,
                       !.statements = <<"u3">>])
    @@ ("choice_object" :> Object(names[4]))
    @@ ("open_spec" :> [Named("configuration_specification", "") EXCEPT
                          !.of = <<"box">>, !.labels = {"others"}, !.aspect = "open"])
    @@ ("u3" :> Mapped(Inst("component_instantiation", "u3", "box"), "p", "y"))
    @@ ("u4" :> Mapped(Inst("component_instantiation", "u4", "box"), "p", "x"))

DesignWith(names, functions, odd) ==
  [node |-> TypesAndPackages(names, odd) @@ Boxes @@ Architecture(names, functions, odd)
              @@ Nested(names, odd),
   units |-> <<"top", "rtl", "pkg_body", "instantiated", "box", "pkg", "standard">>]

MCDesigns ==
  {DesignWith(names, functions, odd) :
     names \in {<<"x", a, b, c>> : a, b, c \in {"x", "y"}},
     functions \in Functions, odd \in BOOLEAN}
===============================================================================
