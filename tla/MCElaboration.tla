----------------------------- MODULE MCElaboration -----------------------------
(***************************************************************************)
(* A top with one instance of every kind, its parts in files that may be   *)
(* added in any order, with a run of the resolver anywhere in between: a   *)
(* component bound by default, by two configurations, by an entity aspect, *)
(* left open, declared in a package; an entity with a rival architecture;  *)
(* names that never resolve.                                               *)
(***************************************************************************)
EXTENDS Elaboration

CONSTANTS c1, c2, c3

--------------------------------------------------------------------------------
Plain == [kind |-> "", id |-> "", primary |-> <<>>, of |-> <<>>, block |-> "",
          target |-> <<>>, components |-> <<>>, items |-> <<>>,
          instances |-> <<>>, clauses |-> <<>>, contexts |-> <<>>]
U(kind, id) == [Plain EXCEPT !.kind = kind, !.id = id]
Uses(clauses) == [U("use_clause", "") EXCEPT !.clauses = clauses]

Binding(aspect, name, arch) == [aspect |-> aspect, name |-> name, arch |-> arch]
Item(component, labels, binding) ==
  [component |-> <<component>>, labels |-> labels, binding |-> binding]
Inst(label, kind, name) ==
  [label |-> label, unit_kind |-> kind, name |-> name, arch |-> ""]

--------------------------------------------------------------------------------
Top ==
  << Uses(<< <<"lib", "pkg", "all">>, <<"lib", "pkg", "none">>, <<"work", "leaf">> >>),
     U("entity", "top"),
     [U("architecture", "rtl") EXCEPT
        !.primary = <<"top">>,
        !.components = <<"leaf", "cell", "box", "twice", "twice">>,
        !.items = << Item("cell", {"u2"}, Binding("configuration", <<"outer">>, "")),
                     Item("box", {"others"}, Binding("open", <<>>, "")),
                     Item("cell", {"all"}, Binding("entity", <<"work", "leaf">>, "b")) >>,
        !.instances = << Inst("u1", "component", <<"leaf">>),
                         Inst("u2", "component", <<"cell">>),
                         Inst("u3", "component", <<"cell">>),
                         Inst("u4", "component", <<"box">>),
                         Inst("u5", "entity", <<"work", "leaf">>),
                         Inst("u6", "configuration", <<"work", "cfg">>),
                         Inst("u7", "component", <<"part">>),
                         Inst("u8", "component", <<"twice">>) >>] >>

Leaf ==
  << U("entity", "leaf"),
     [U("architecture", "a") EXCEPT !.primary = <<"work", "leaf">>],
     U("entity", "box") >>

Configurations ==
  << [U("configuration", "outer") EXCEPT
        !.of = <<"top">>, !.block = "rtl",
        !.clauses = << <<"lib", "pkg", "part">>, <<"work", "leaf">> >>,
        !.items = << Item("leaf", {"u1"}, Binding("open", <<>>, "")),
                      Item("part", {"u7"}, Binding("configuration", <<"cfg">>, "")),
                     Item("cell", {"u2"}, Binding("none", <<>>, "")) >>],
     [U("configuration", "cfg") EXCEPT !.of = <<"work", "leaf">>, !.block = "a"],
     [U("configuration", "second") EXCEPT
        !.of = <<"top">>, !.block = "rtl",
        !.items = << Item("part", {"u7"}, Binding("configuration", <<"cfg">>, "")) >>],
     U("entity", "leaf"),
     [U("architecture", "b") EXCEPT !.primary = <<"leaf">>] >>

Package ==
  << [U("context", "ctx") EXCEPT !.clauses = << <<"lib", "pkg", "all">> >>,
                                 !.contexts = << <<"lib", "ctx">> >>],
     [U("context_reference", "") EXCEPT !.contexts = << <<"lib", "ctx">>, <<"ctx">> >>],
     [U("package", "pkg") EXCEPT !.components = <<"part">>],
     U("package_body", "pkg"),
     [U("package_instantiation", "pi") EXCEPT !.target = <<"lib", "pkg">>] >>

MCFile == {"top", "leaf", "configurations", "package", "std"}
MCFileLib ==
  [f \in MCFile |-> CASE f = "package" -> "lib" [] f = "std" -> "std" [] OTHER -> "work"]
MCFileUnits ==
  [f \in MCFile |-> CASE f = "top" -> Top
                      [] f = "leaf" -> Leaf
                      [] f = "configurations" -> Configurations
                      [] f = "package" -> Package
                      [] f = "std" -> <<U("package", "standard")>>]
MCCaller == {c1, c2, c3}
MCFileSets ==
  {<<"top">>, <<"leaf", "package">>, <<"configurations", "std">>}
================================================================================
