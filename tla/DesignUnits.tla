------------------------------ MODULE DesignUnits ------------------------------
(***************************************************************************)
(* The AST of the design files as the elaborator meets it: files, the      *)
(* design units they hold, and the keys under which units are registered.  *)
(*                                                                         *)
(* An identifier is one token: canonicalize() has been applied to both     *)
(* sides of every comparison the elaborator makes.  A name that may be     *)
(* selected ("lib.unit") is the sequence split_name() makes of it.         *)
(***************************************************************************)
EXTENDS Naturals, Sequences

CONSTANTS
  File,        \* ast::design_file objects the parser has built
  FileLib,     \* FileLib[f]: file_lib(f), the library f was analysed into
  FileUnits,   \* FileUnits[f]: the sequence f.units, a record for each unit
  None         \* nullptr

ASSUME FilesAssumption ==
  /\ DOMAIN FileLib = File
  /\ DOMAIN FileUnits = File
  /\ \A f \in File : Len(FileUnits[f]) \in Nat
  /\ None \notin File

(* A unit's node is its place in its file: the AST owns each node once, and *)
(* the elaborator compares nodes by address.                                *)
Unit == UNION {{<<f, i>> : i \in 1..Len(FileUnits[f])} : f \in File}

NoUnitIsNull == None \notin Unit
ASSUME NullAssumption == NoUnitIsNull

Decl(u) == FileUnits[u[1]][u[2]]
KindOf(u) == Decl(u).kind
IsKind(u, kinds) == KindOf(u) \in kinds
UnitsOfKind(kinds) == {u \in Unit : IsKind(u, kinds)}

(* The alternatives of ast::unit_item, by what the elaborator does with them. *)
PrimaryKinds ==
  {"entity", "configuration", "package", "package_instantiation", "context"}
SecondaryKinds == {"architecture", "package_body"}
ClauseKinds == {"library_clause", "use_clause", "context_reference"}

RegisteredKinds == PrimaryKinds \cup SecondaryKinds

(* The library of the file a unit is written in: file_lib(node->my_file). *)
LibOf(u) == FileLib[u[1]]

(* A selected name carries its library; a simple name gets the default one. *)
(* The name is empty when nothing is left of the text after splitting.      *)
LibraryAndDesignName(lib, parts) ==
  IF Len(parts) >= 2 THEN <<parts[1], parts[2]>>
  ELSE <<lib, IF parts = <<>> THEN "" ELSE parts[1]>>

(* name_text(): parse() leaves a selected name's last suffix in its value. *)
NameText(parts) == IF parts = <<>> THEN <<>> ELSE <<parts[Len(parts)]>>

(* make_key(lib, entity_name): the entity an architecture is filed under. *)
EntityKeyOf(u) ==
  LibraryAndDesignName(LibOf(u), NameText(Decl(u).primary))

(* The map a unit is registered in (its kind) and its key in that map. *)
KeyOf(u) ==
  IF KindOf(u) = "architecture"
  THEN <<"architecture", EntityKeyOf(u), Decl(u).id>>
  ELSE <<KindOf(u), <<LibOf(u), Decl(u).id>>, "">>

Registrable == {u \in Unit : IsKind(u, RegisteredKinds)}
Architectures == {u \in Unit : IsKind(u, {"architecture"})}
Key == {KeyOf(u) : u \in Registrable}
EntityKey == {EntityKeyOf(u) : u \in Architectures}
================================================================================
