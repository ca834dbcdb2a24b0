# VHDL-Frontend: specifications, model checking, proofs

This directory verifies the part of the VHDL front end that decides what a
design means: which unit a name stands for, which entity and architecture an
instance is bound to, what is reported when something is missing, and what a
call does to the calls after it. All paths below are relative to the repository.

## The system

| Component | State | Operations | Talks to |
|---|---|---|---|
| Driver, `src/main.cpp` | argument index, current library, results, error count | `-v`, `-l`, a file, elaborate and return | parser, elaborator |
| Parser session, `src/parser/parser.h`, `syntax_error_logger.cpp` | `_errors`, the node factory | `parse_file`, `parse_str`, `load_standardized_packages` | ANTLR (generated), embedded resources |
| AST construction, `src/parser/context_parser.cpp` | none (a function of the parse tree) | one `parse` per grammar rule | node factory |
| Helpers, `src/ast/ast_helper.h` | none | `to_string` of an expression or name | resolver, validator, printer |
| Printer, `src/ast_printer.cpp` | none | instances, generics and ports of a file | AST after resolving |
| Unit registry, `src/elaboration/elaborator.cpp` | `files_by_lib`, six `*_by_key` maps, `architectures_by_entity_key`, unit vectors, diagnostics, `files_mtx` | `add_design_files`, `find_*`, `get_top_modules` | the AST it is given |
| Resolver, `src/elaboration/resolver.h` | `*_ref` members of the AST, scopes on the stack, diagnostics | four passes over the units | registry (`find_*`) |
| Linker, `src/elaboration/linker.h` | `*_ref` members of instances, `instantiated_entities` | one pass over the architectures | registry |
| Validator, `src/elaboration/validator.cpp` | its own diagnostics | one walk over design files | AST after resolving |
| Encodings, resources, node factory, grammar | none that lasts | conversion, tables, ownership | |

Components share the AST: the parser builds it, the registry keeps pointers to
its units, the resolver and the linker write its reference members, the
validator and the client read them. Nothing is ever freed or reset, so each
call starts from what the calls before it left behind: the error log, the maps,
the members set in an earlier run. That is where the difficult behaviours are:

* order: registration keeps the first unit of a name but the last architecture
  of an entity, passes copy members other passes set later, the use clauses a
  unit sees are those the loop has met;
* repetition: a file added twice, `resolve_references` called again after more
  files came, a parser used again after an exception;
* concurrency: `add_design_files` takes a mutex, so callers may overlap; nothing
  else does;
* partial failure: one missing unit out of several a binding needs, one
  resource out of many that does not parse;
* silence: lookups that return nothing without a diagnostic.

`PROJECT.json` lists each of these under "hazards" with its line and the
properties that cover it.

What makes each component correct:

* Driver: each file argument that parses reaches the elaborator once, in order,
  in the library named to its left; the exit status counts those that do not.
* Parser session: no design file of a faulty source is handed out; a resource
  keeps its library; the standardized packages come all together or not at all.
* Registry: a name stands for the unit registered first, whatever the order in
  which calls get the mutex; each clash is reported once; the default
  architecture is the latest; calls do not mix, and return.
* Resolver and linker between units: the entity and the architecture of an
  instance belong together; what is not bound is reported; back references are
  the inverse of references; top modules are the entities no instance has.
* Resolver inside a unit: a name means a declaration of the innermost region
  that has one, whatever the walk has been through before; one candidate, or a
  set of overloads, is never left unresolved; a second run agrees with the first.
* Validator: it asks for the names the resolver looked up, with the exceptions the
  hazards name.
* AST construction: operators group as the language says; every name, label and
  declared identifier of the source is in the AST at its place; what is printed
  of a node reads as the source did.
* The walks: resolver, validator and printer are three walks over the same nodes,
  written by hand. Each meets every name once, in the order of the text, and the
  validator asks for what the resolver looked up.

## Modules

| Module | Models | State and actions |
|---|---|---|
| `Lists` | what the code does with its vectors: goes through one for some of its members | operators only |
| `ListProofs` | lemmas about such lists, least elements and induction on lengths, used by all proofs | |
| `DesignUnits` | files, units, keys (`file_lib`, `library_and_design_name`, `make_key`) | constants and operators only |
| `DesignRegistry` | `add_design_files` | one variable per member of `elaborator`; one action per branch of the visit, per caller |
| `AnalysisLibrary` | what the registry promises | three variables, one action `Analyse` |
| `DesignRegistryProofs` | theorems about `DesignRegistry` | |
| `Elaboration` | `resolve_references`: resolver and linker, interleaved with further `add_design_files` calls | `EXTENDS DesignRegistry`; a cursor (pass, unit, item) and one variable per family of `*_ref` members; one action per `resolve_*`/`link_*` handler |
| `ElaborationProofs` | theorems about what bindings say, over any number of runs | |
| `RunProofs` | theorems about what a run, and each of its passes, has done when it ends | |
| `ReportProofs` | the types of the references, and what is said of instances left unbound | |
| `Visibility` | an AST as the resolver looks at it, and what its text says of a name: the regions around it, the declarations that compete for it | the design; operators only |
| `NameResolution` | what resolving names comes to | three variables, a call, decisions in any order, a return |
| `Scopes` | the resolver inside a unit and the linker: `scope`, `insert`, `lookup`, every handler that opens a region | the walk's regions, the scope objects on the stack, one reference per slot; one action per kind of node, one to leave a region, one for the linker |
| `ScopesProofs` | theorems about `Scopes` | |
| `ParserSession` | `parser::parser` | error log, returned files, calls that threw |
| `ParserClient` | any program that uses the parser as a library | calls in any order |
| `ParserClientProofs` | theorems about `ParserClient` | |
| `CommandLine` | `main` | the argument loop, on top of `ParserSession` |
| `CommandLineProofs` | theorems about `CommandLine` | |
| `ParseTree` | the rule contexts of the generated parser, through their accessors | operators only |
| `Expressions` | the part of `context_parser.cpp` from names to expressions, `to_string` | one operator per `parse` |
| `ExpressionGrammar`, `NameContexts` | the trees the grammar gives a text of operators and operands, and a name grown part by part | operators only |
| `ExpressionWalks` | lookup and validation of an expression | sets of names |
| `ExpressionTexts` | an expression written, parsed, printed, resolved, validated | one action per step of the way |
| `Statements`, `Declarations`, `ConcurrentStatements` | the rest of `context_parser.cpp`: sequential statements; declarations; concurrent statements and units | one operator per `parse` |
| `StatementWalks`, `DeclarationWalks`, `ConcurrentWalks` | the walks of resolver, validator and printer over these nodes | sequences of names |
| `StatementContexts`, `DeclarationContexts` | the parse trees: each form that holds no other, and what it may stand in | operators only |
| `UnitTexts` | a statement, declaration or unit put inside others, parsed, resolved, validated, listed | one action per step of the way |

An identifier is one token: the code compares identifiers only after
`canonicalize`, on both sides. A dotted name is the sequence `split_name` makes
of it; `NameText` keeps that a parsed selected name has only its last suffix in
`value`. A node is its place in the file, because the code compares nodes by
address.

In `Elaboration` a unit record has what the resolver reads: declared
components, configuration items (specifications of an architecture or component
configurations), instances, clauses. Each action of a handler makes every
change the handler makes before the next statement or unit is taken up: its
lookups' diagnostics in order, the use clauses these resolve, the references it
sets, the back references it pushes. The regions inside a unit are not its
subject: `Lookup` has an architecture's own components, then the use clauses in
scope, then `use std.standard.all`.

`Scopes` is the complement: one fixed set of units without clashes, but all that
is nested in them. `frames` is the C++ call stack of the `resolve_*` functions,
a frame for each region with the nodes still to visit and the height the scope
stack had when the region was entered; `scopes` is the chain of `scope` objects
itself, with what `insert` has put in each. Keeping the two apart lets
`ScopesAreTheRegionsAround` compare them, and lets a handler that opens one
scope (a block), two (a package), three (an architecture with its entity) or
none be modelled as it is written. A slot stands for a reference member:
`<<n, "names", 2>>` is the second name looked up at node `n`, and the names in
types, expressions and sequential statements are listed with the declaration or
statement they are in, since nothing opens a scope there. Guards, conditions and
sensitivity lists are "outer". An association has three names, each looked up in
a scope of its own (`resolver.h:879`): the `formal_name` in the formal scope; the
`actual_name`, which only the form `f(y)` has, in the actual scope; the name in the
`act_designator` in the current one. Only for a block are the last two different:
`ResolveBlockStatement` looks `f` up around the block and `y` inside it, where the
block's declarations are already inserted and capture it (`Captured`). A reference is one
declaration or an overload, as `declaration_ref` is. What is correct is defined
without the walk, in `Visibility`: `Around` gives the declarations visible at a
node from the tree alone, and the properties compare it with `refs`. The
validator is not part of this: its walk is compared with the resolver's, name by
name, in `ExpressionTexts` and `UnitTexts`.

`SimpleNames` are the names these properties speak of: simple names, formals
apart, also those in actuals. Left out are the names of a use clause, those of a
configuration specification, which is resolved wherever it matches, and the
actuals a block captures, which in the language would mean what they mean around
the block. For the specifications `SpecificationsMeanWhereTheyApply` says what is
left: the resolver resolves one again at each instance it matches
(`resolver.h:965`), so its actuals mean what they mean at one of these or where
it stands itself, and never at an instance a nearer specification is for.

`NameResolution` says what the walk is for, and has no walk: while a call is
under way names are given a meaning or called ambiguous, in any order, each once
and only as `Competing` allows (`Decide`); a call returns when no name with a
declaration is left (`Return`). `Scopes` implements it (`RefinesNameResolution`):
`meaning` is what `refs` says of the slots that only one handler sets
(`Lasting`), a call is under way while `unit` is not 0, each handler and `Leave`
is a `Decide`, and the linker, which the code calls last, is the `Return`: it may
change no name.

The way of a source from its text to the references is modelled twice, once for
expressions and once for all that holds them. A context of the parse tree is a
rule and its children, and a `parse` of `context_parser.cpp` an operator from a
context to a node, a record with the members of the C++ class. A lookup or a
check is modelled by the names it is made for, in order, so that a walk is an
operator from a node to a sequence of names. The actions of `ExpressionTexts`
and `UnitTexts` are the stages; the properties compare what a stage has made with
the source itself, by definitions that know the grammar but not the code. In
`UnitTexts` an expression is the sequence of the names in it: how it is taken
apart is the subject of `ExpressionTexts`. Grammar rules that only list or choose
(`identifier_list`, `process_declarative_part`) are left out between the rules
around them, and so are flags no walk reads (`postponed`, `guarded`, force mode).
The text of a node is the sequence of its tokens and blanks, since what is lost
or run together by `to_string` is a matter of tokens.

`MC*` modules give the constants their values for TLC; the `.cfg` of the same
name binds them.

## Runs

| Run | Question | Bounds |
|---|---|---|
| `design_registry` | which unit wins, what is reported, which architecture is the default, do calls mix, does a call return; does the registry implement `AnalysisLibrary` | 3 callers, 3 files in 2 libraries, arguments that overlap and contain a null file |
| `parser_client` | what is handed out, in which library, after which failures | 4 calls, one source of each kind, 2 standardized resources |
| `command_line` | which files reach the elaborator, in which library; the exit status | every command line of up to 4 arguments over 9 words, and two of 256 and 257 missing files |
| `command_line_excluded` | does only the bad file stay out of the elaboration, as the message says | 2 arguments; expected to be violated |
| `elaboration` | bindings, top modules, used packages, back references, diagnostics after each run | 5 files in 3 arguments, 3 calls, 2 runs of the resolver |
| `scopes` | what a name means where it stands, what is ambiguous, what the actuals of a configuration specification mean that applies to several instances; does the walk, run twice, implement `NameResolution` | 80 designs, 2 runs of the resolver; 7904 states |
| `scopes_formals` | is a formal that names a port of its component resolved | as above; expected to be violated |
| `scopes_subprograms` | is a subprogram that is declared and defined resolved where it is called | as above; expected to be violated |
| `scopes_parameters` | is a parameter resolved in the body of its subprogram | as above; expected to be violated |
| `expressions` | how operators group; what `to_string` keeps; whether resolver and validator see the same names of an expression | texts of 7 tokens over 4 operands and 8 operators; names grown twice, in every place a name may stand; 3 scopes |
| `expressions_unknown` | is an undeclared name of an expression reported | as above; expected to be violated |
| `units` | are names looked up once and in order, does the validator ask for the same, are labels and declared names in the AST, does the printer list every instance | each of the forms that hold no other inside each that may hold it; six of them in two others |

The registry run has the cases that matter pairwise: the same unit twice, two
units of one key in one library and in another, two architectures of one name,
a file given to two calls, a null file. Three callers give every order of
winner, second and third. The elaboration run needs two resolver runs because
everything a run leaves behind is read by the next one, and a third run finds
nothing a second did not; its design has an instance of each kind and each kind
of failure. Four calls of a parser suffice to fail, succeed, fail and load.

The designs of `scopes` have every kind of region, nested three deep
(architecture, block, then process, generate body or package), and every kind
of instance. Three inner declarations take the names x and y in every way under
an outer x (8 choices), which gives each pattern of hiding; a function is
declared once, three times, before its body, after its body, or beside an object
(5); with and without the constructs that leave something unresolved (2). Hiding
is a matter of two regions and ambiguity of two declarations in one, so deeper
nesting or longer lists repeat the same steps.
The second run starts from what the first run and the linker have set.

Seven tokens are three binary operators with four operands, or two with a sign:
how two operators group is decided by a pair, and a third shows that a pair does
not depend on its neighbour; one operator stands for each class of the grammar,
and the minus is both a sign and an adding operator. A name that grows twice has
each kind of part on each other kind. Every handler that takes statements or
declarations treats them alike whatever they are (a loop over children), so one
level of nesting meets each pair of a holder and what it holds; the forms nested
twice are those a holder treats specially (an instance, an exit, a use clause, a
declaration that is split into several).

Fairness: in `DesignRegistry` a thread that has entered `add_design_files` is
scheduled until it returns (weak fairness per caller; calls need not be made);
in `Elaboration` a run that has begun goes on (weak fairness of `Resolve`);
`main` runs until it returns. Deadlock checking is off where the program or the
client really stops. `Scopes` states no fairness: evaluating ENABLED of its
actions is too expensive for TLC, so that the walk cannot get stuck is checked as
absence of deadlock, `Done` being the only step at the end of the last run. That
it always gets to an end follows since each step takes a node off `frames` or
enters a region of a finite tree. `ExpressionTexts` and `UnitTexts` end with the
last stage, which is why deadlock checking is off.

## Disagreements with the documentation

* `command_line_excluded`: `main.cpp:43` says that the file with the error is
  excluded from the elaboration, but `_errors` is never cleared, so every later
  file of the command line fails as well and is counted as an error.
* The README (line 8) says the AST holds the resolved references after
  elaboration. Three kinds of reference to a visible declaration stay empty:
  * `scopes_formals`: `make_interface_scope` (`resolver.h:984`) puts the ports of
    the entity and of the component into one scope. Once an instance is bound,
    each formal is found twice, which is ambiguous.
  * `scopes_subprograms`: a body inserts its specification beside the declaration
    it completes (`resolver.h:517`), so a call of it is ambiguous.
  * `scopes_parameters`: the scope of a body gets only its declarations
    (`resolver.h:649`); parameters are resolved and inserted nowhere.
* `expressions_unknown`: `tests/test.cpp:177` (`validator_reports_unresolved_names`)
  says that unresolved names are reported. The node of a call or of a slice has
  no `value`, and both walks return at such a node (`resolver.h:812`,
  `validator.cpp:458`); what is in parentheses becomes an empty aggregate
  (`context_parser.cpp:609`). Names there are neither looked up nor reported.

What the walks leave out on both sides is named in the properties themselves:
`Unread` and `Dropped` in `UnitTexts` list the children of a context no reference
is made of, `Unresolvable` what the validator asks for and nobody resolves (a use
clause among declarations, `validator.cpp:311`; the maps of a binding to a
configuration). No document says otherwise, so these are hazards and not runs.

## Proofs

`DesignRegistryProofs` proves, for every set of files, callers and arguments,
`TypeCorrect`, `FirstWins`, `DefaultIsLast`, `ClashesReported`,
`ImplementsLibrary` and `CallsSerialize`. `TypeOK` alone is not inductive: a step of a caller inside
the loops needs to know that its cursor stands inside its argument, so the
invariant adds `CursorOK`. What is said of the diagnostics is kept apart
(`DiagnosticsTyped`), since the resolver adds its own to them: the rest,
`RegistryInv`, holds during elaboration as well. The next three follow one pattern: every
step is either quiet (no vector of units and no map changes) or registers one
unit (`StepCases`), and for a registration the claims of its key grow by the
new last index (`RegistrationAddsClaim`) while those of other keys stay. The
refinement has the same cases: a quiet step is a stutter, a registration is
`Analyse`.

`CallsSerialize` says that concurrent calls do not mix: when the mutex is free
there is an order of the returned calls such that vectors and scopes are what
these calls leave one after the other. The property speaks of free moments only;
`SerialInv` says what is registered at every moment of an order of the returned
calls (`Serial`): the files closed so far are those of the order and then those
the holder's loop is through with (`FilesClosed`), the units those of closed
files and then those above the holder's cursor (`FilesOpened`, `UnitsGone`), and
`use_clauses`, which the code keeps on the stack and empties at each file, are
the clauses above the cursor (`CallsOK`). The order grows by a call when it
returns, which changes nothing else but the mutex. Each action appends at most one file or unit, and `ListProofs` has what
`Among`, `Times` and concatenation make of one element more. The mutex enters
once, in `HolderIsAlone`.

The proofs rest on the named assumptions of `DesignUnits` and
`DesignRegistry` (files are sequences, null is no file and no caller), which
TLC evaluates in the runs.

`ParserClientProofs` proves `TypeCorrect`, `FilesAreClean`, `ResourceLibraries`
and `ErrorsAreForGood` for all sources and any number of calls. The log and the
files grow without a bound, so the invariant `SessionInv` says of each design
file on its own that it is good (`GoodFile`), and a call has only to show that
what it appends is. The heart is `AcceptedSource`: a call returns only if the
log was empty and stayed so. The proofs use `SourceAssumption`: resources are
spelt as embedded paths, the standardized ones are among them and at least one,
and no source is called as the two packages that are built without parsing.

`StandardizedTogether` proves `StandardizedAllOrNone` from `SessionInv` and from
what it is to append: a call appends nothing, one file of a source, or the whole
vector (`Appended`), and the files of a source are counted apart in what was there
and in what is appended (`ConcatWithout`, `ConcatWith`). A count of `STANDARD`
grows by one only where that of each standardized resource does.

`CommandLineProofs` proves `TypeCorrect`, `ResultsFollowArguments` and
`StatusIsTheCount` for every set of command lines and any exit status width. The
properties speak of all arguments at the end, so the invariant `CommandInv` says
the same of those before the index `i`: `CountedSoFar` that failures and results
add up to the file arguments before `i`, `LibrarySoFar` that the current library
is the one named last before `i`, `FollowSoFar` that the results have come from
these arguments in order. None is inductive without `AtSwitchOrFile`: the loop
never stands at the name after a `-l`, because the `-l`'s that end right before
`i` are even in number (`Paired`), which is what makes a row of them pair up as
the code reads them. What `ParseFile` does to an argument enters by one lemma,
`ParseOutcome`: one design file or none. Assumed: arguments are strings, and what
`ParserSession` assumes of its sources.

`ElaborationProofs` proves `ArchitectureFits` and `DefaultsStick`, `RunProofs`
proves among others `TopsExact` and `DirectCurrent`, for any files, any calls of
`add_design_files` and any number of runs between them. Three things carry them.

* The registry's invariants hold during elaboration too, and what a name of an
  entity or configuration stands for never changes (`NamesStay`). So a reference
  need not be followed through the passes: it is enough to say under which name
  it was found. `Known` says it of the units' references, `Owned` of an
  indication or an instance that names its unit, `Fits` of every instance.
  Together with the place of the walk (`Cursor`) and the fact that behind it every
  architecture knows its entity (`ArchitecturesDone`) they are the inductive
  invariant `ElabInv`. `BoundArchitectureFits` alone is not inductive: an
  architecture is found by the key of an entity, in another pass than the entity,
  and only by then do the two references mean the same.
* `PassedByBinding`: the walk passes an instance only by the step that binds it,
  so at the end both passes have been at each (`AllSeen`). This needs that the
  walk is never beyond the items of its unit (`ItemInside`).
* The entities an instance contributes to `instantiated_entities` in the resolver
  must still be its entity at the end, although it is bound again by the linker,
  and by the resolver too when its file was added twice. `TopsSoFar` has why: a
  default binding sticks, any other entity is a function of the names (`Wanted`)
  for as long as the pass lasts, and the linker replaces no entity but by itself
  (`LinkBinds`).

They assume `ItemsAssumption`: the vectors of items and instances have a length,
and entity aspects and instances are of the alternatives the AST has.

`RunProofs` also proves `PackagesFound`, `BindingsAgree` and `MembersInverse`,
each from an invariant on top of `ElabInv`.

* `PassInv`: a clause that has its package has the one its name stands for
  (`ClausesSound`), and behind the walk each clause in scope of a unit has the
  package its name stands for by now, or none if there is none (`FoundSoFar`).
  The pass resolves the clauses a context holds, never one written above it: the
  first attempt at the proof failed there, and `UsedPackagesAreFound` excepts it
  since.
* `BoundInv`: a configuration behind the walk has the entity its own name gives
  it (`ConfigurationsDone`). Within pass 3 the order of the units decides, so of
  two configurations the property speaks only when the one that is named was
  analysed first; an architecture comes in a later pass and needs no such
  condition.
* `MembersInv`: the back references of a unit are counted against the runs that
  are over (`Counts`) and against the place of the walk in this one (`Passed`):
  a unit that was added k times is pushed at least k times and at most k times
  per run.

`ReportProofs` proves `ElabTypeCorrect` and `UnboundReported`. `TypedInv` gives
each family of reference members the kind of unit its C++ type says; a reference
is typed because its lookup searches one map, and the maps are typed by
`RegistryInv`. `ReportInv` adds (`Spoken`) that an instance the linker has been
at is bound, or some diagnostic names what it lacks. Where that diagnostic comes
from differs: an entity is missed by the resolver at the instance, a
configuration's entity at the configuration, long before, a missing architecture
wherever it is looked for, and what the resolver leaves open the linker says.
Diagnostics are never taken back, but each run binds the instances again: what
the property says of all of them at the end is, during a run, said of those
behind the linker (`UnboundSaid`). Both use the assumptions of `Elaboration`:
the members of a unit are sequences of nodes that have names, since a source
with syntax errors throws before any of it reaches the elaborator.

`ScopesProofs` proves of `Scopes`, for every AST and any number of runs, what
its run checks: `TypeCorrect`, `ScopesAreRegions`, `InnermostIsFound`,
`NamesAreDecided` and `ImplementsNameResolution`. Only
`SpecificationsMeanWhereTheyApply` is left to TLC. Four invariants, each on top of the one before:

* `WalkInv` is `Typed` and `Stacked`. `TypeOK` is not inductive: to leave a
  region cuts the stack to the `base` of its frame, and that no frame below it
  is cut needs that the bases rise from frame to frame.
* `NestInv` relates the two stacks: for each frame, a lookup that started from
  the scopes below the next frame's base would visit exactly `ChainOf` its node,
  a list of scopes that is a function of the tree alone; and what a frame has to
  do are children of its node. That each handler pushes the right scopes is then
  one lemma about one region (`OwnChain`). `RegionShows` compares `ChainOf` with
  `Around`: the same groups of names, one for one, with at most an empty root
  behind them.
* `KeptInv`: a reference that only one handler sets is empty or
  `Meant(Sought(s))`, what a lookup in `ChainOf` of its region finds, and is
  reported as ambiguous only if that lookup finds several. For each handler it
  is shown that all it finds is sought (`Seeks`), in which the three parts of an
  association are looked up in three chains; `LookedUpWhere` and `NotCaptured`
  carry this back to the text, where a name that no block captures is found
  inside the block as it is around it. `Sought` does not change from
  step to step, so no later run decides otherwise (`StepHolds`); the references
  `Rebound` lists are excepted, being set by the linker or at another node too.
  `InsertedFits`, by induction over a declarative part, says what is in a scope
  under a name (`Fits`): something if and only if something of that name is
  declared, only meanings of such declarations, and one entry if they are all
  declarations of subprograms.
* `CoverInv`: no name is left out. In the middle of a run the undecided names
  are those at nodes the walk is still to come to; said without recursion, every
  set of nodes that is closed under children and holds the pending items holds
  the node of each undecided name (`Covers`). A step takes one node off the
  pending ones and adds its children; at the end nothing is pending and the
  empty set is such a set.

The refinement puts the four together. That what is decided is what the text
allows is `MeantCompetes` and `SeveralCompete`, lemmas about lookups that
`KeptInv` carries over to every step (`DecideRefines`), in the middle of a run as
well as after it; that it is decided for good is `StepHolds`; that nothing is
left at the return is `CoverInv` where the linker is called, before it has done
anything (`Ended`), and `LinkHolds` that the linker changes no name. The operators of
`NameResolution` are those of `Visibility` over the same design, which
`SameSlots` to `SameCompetitors` show one by one. At every
moment, not only after a run, a name then has no meaning but one its text allows.

Recursive functions (`Among`, `Inserted`, `Around`) are unfolded by induction on
natural numbers (`Recursion`, `Upwards` of `ListProofs`) or on the depth of a
node (`Downwards`), never by an operator parameter. The assumptions of `Scopes` say
what an AST is: members that are nodes are nodes of it (`NodesAssumption`), only
some kinds have association lists, interfaces, declarations, names
(`KindsAssumption`), each node has one place and lies deeper than its
holder (`ForestAssumption`: `context_parser` makes each node once and puts it
into one vector of the node it returns), and a null pointer is no reference
(`NullAssumption`). The tree is needed: with a cycle `Around` would not be
defined and the walk would not end.

Model-checked only: the liveness properties (fairness and ENABLED are beyond the
prover); the way of a source (`ExpressionTexts`, `UnitTexts`), whose operators
recur over trees; of `Scopes`, what configuration specifications mean and the
absence of deadlock.

## Not modelled

Generated code (lexer, parser) is modelled by the trees it builds, not by how it
builds them; error recovery by the number of errors. The embedded resources'
contents, encodings and the node factory have no state the properties could be
about: a source can be decoded or cannot, a node is never freed.
`resolve_references` racing with `add_design_files` is undefined behaviour, since
only the latter locks; the model's client does not do it. `Scopes` leaves out
protected types, and several files and missing packages, which are
`Elaboration`'s; the references of configurations and contexts are checked as
walks (`ConcurrentWalks`), not for what they resolve to. A resolution function is a
name: the parenthesized resolution of elements (`context_parser.cpp:477`,
`resolver.h:740`) is left out. Of the validator's demands, that formals are asked
for only where a component or an entity was found (`has_formal_scope`) is left
out, and the two or three demands for the unit of an instance
(`validator.cpp:653`) are one name. Layout of the printer,
wording of diagnostics and positions of nodes are left out.

## Plan

Done: the registry with its abstract library, the parser session, the driver, the
resolver between units and the resolver inside a unit with its abstract
specification, each with a proof of the safety properties its run checks (one of
`Scopes` excepted); the
way of expressions, statements, declarations and units from parse tree to
references, model-checked. What could follow:

1. `Standardized`: the files of `load_standardized_packages` handed to the
   registry, composing `ParserSession` with `DesignRegistry`: TEXTIO is built and
   parsed (`parser.h:47`) and the two clash.
2. Used packages in `NameResolution`: what a name without a visible declaration
   may mean, which `MayMean` leaves open and the lookup in use clauses decides.

3. `SpecificationsMeanWhereTheyApply` as a theorem: which instances come after which
   in the walk would have to be said in the invariant.

Each theorem is first a property of a run.
