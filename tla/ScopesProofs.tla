------------------------------ MODULE ScopesProofs ------------------------------
(***************************************************************************)
(* What holds of the walk over nested regions in every AST: its scopes are *)
(* those of the regions around it, a name means the innermost declaration  *)
(* and keeps its meaning from run to run, and every name is tried.         *)
(*                                                                         *)
(* First the operators (symbols, lookups, nodes),                          *)
(* then the type of the state (WalkInv), the stack of scopes (NestInv),    *)
(* what the references mean (KeptInv) and that none is left out (CoverInv).*)
(***************************************************************************)
EXTENDS Scopes, ListProofs

--------------------------------------------------------------------------------
(* What the walk keeps. *)
Ref == [overload : BOOLEAN, of : Seq(Nodes) \ {<<>>}]
Ids == {N(n).id : n \in Nodes}
Clauses == {UseStd} \cup UNION {ToSet(N(n).uses) : n \in Nodes}
Libraries == {""} \cup {N(n).lib : n \in Nodes}
Symbols == UNION {[ids -> Seq(Ref)] : ids \in SUBSET Ids}
Specs == OfKind({"configuration_specification"})
ScopeType == [symbols : Symbols, specs : Seq(Specs), uses : Seq(Clauses),
              lib : Libraries, root : BOOLEAN]

LEMMA SymbolsAre ==
  ASSUME NEW sy
  PROVE  sy \in Symbols <=>
           /\ sy = [id \in DOMAIN sy |-> sy[id]]
           /\ DOMAIN sy \subseteq Ids
           /\ \A id \in DOMAIN sy : sy[id] \in Seq(Ref)
<1> DEFINE W == Seq(Ref)
<1>1. Symbols = UNION {[ids -> W] : ids \in SUBSET Ids}
  BY DEF Symbols
<1> HIDE DEF W
<1>2. ASSUME sy \in Symbols
      PROVE  sy = [id \in DOMAIN sy |-> sy[id]] /\ DOMAIN sy \subseteq Ids
             /\ \A id \in DOMAIN sy : sy[id] \in W
  <2>1. PICK ids \in SUBSET Ids : sy \in [ids -> W]
    BY <1>1, <1>2
  <2> QED
    BY <2>1
<1>3. ASSUME sy = [id \in DOMAIN sy |-> sy[id]], DOMAIN sy \subseteq Ids,
             \A id \in DOMAIN sy : sy[id] \in W
      PROVE  sy \in Symbols
  <2>1. sy \in [DOMAIN sy -> W]
    BY <1>3
  <2> QED
    BY <1>1, <1>3, <2>1
<1> QED
  BY <1>2, <1>3 DEF W

(* What an AST gives of each of its nodes. *)
LEMMA NodeFacts ==
  ASSUME design \in Designs, NEW n \in Nodes
  PROVE  /\ n # None
         /\ N(n).id \in Ids /\ N(n).lib \in Libraries
         /\ N(n).uses \in Seq(Clauses) /\ UseStd \in Clauses
         /\ N(n).interfaces \in Seq(Nodes) /\ N(n).declarations \in Seq(Nodes)
         /\ N(n).statements \in Seq(Nodes)
         /\ N(n).kind = "subprogram_body" => N(n).specification \in Nodes
<1>1. design.node[n].uses \in Seq(Seq(STRING))
  BY NodesAssumption DEF Nodes
<1>2. ToSet(design.node[n].uses) \subseteq Clauses
  BY DEF Clauses, N
<1>3. design.node[n].uses \in Seq(Clauses)
  <2>1. \A s \in Seq(Seq(STRING)) : ToSet(s) \subseteq Clauses => s \in Seq(Clauses)
    BY DEF ToSet
  <2> QED
    BY <1>1, <1>2, <2>1
<1>4. N(n).id \in Ids /\ N(n).lib \in Libraries /\ UseStd \in Clauses
  BY DEF Ids, Libraries, Clauses
<1>5. /\ n # None
      /\ N(n).interfaces \in Seq(Nodes) /\ N(n).declarations \in Seq(Nodes)
      /\ N(n).statements \in Seq(Nodes)
      /\ N(n).kind = "subprogram_body" => N(n).specification \in Nodes
  BY NodesAssumption DEF N, Nodes
<1> QED
  BY <1>3, <1>4, <1>5 DEF N

LEMMA RefsAre ==
  /\ \A n \in Nodes : To(n) \in Ref
  /\ \A of \in Seq(Nodes) : of # <<>> => Overload(of) \in Ref
  /\ \A r \in Ref : r.of \in Seq(Nodes) /\ r.of # <<>> /\ r.of[1] \in Nodes /\ r.overload \in BOOLEAN
<1>1. \A n \in Nodes : <<n>> \in Seq(Nodes) /\ <<n>> # <<>>
  OBVIOUS
<1> DEFINE W == Seq(Nodes)
<1>2. \A n \in Nodes : To(n) \in Ref
  BY <1>1 DEF To, Ref
<1>3. \A of \in Seq(Nodes) : of # <<>> => Overload(of) \in Ref
  BY DEF Overload, Ref
<1>4. \A r \in Ref : r.of \in Seq(Nodes) /\ r.of # <<>> /\ r.overload \in BOOLEAN
  BY DEF Ref
<1>5. \A of \in Seq(Nodes) : of # <<>> => of[1] \in Nodes
  <2> TAKE of \in Seq(Nodes)
  <2> HAVE of # <<>>
  <2>1. Len(of) \in Nat /\ Len(of) # 0
    OBVIOUS
  <2>2. 1 \in 1..Len(of)
    BY <2>1
  <2> QED
    BY <2>2
<1> QED
  BY <1>2, <1>3, <1>4, <1>5

(* Inserting a declaration. *)
LEMMA EntriesType ==
  ASSUME NEW sy \in Symbols, NEW id
  PROVE  Entries(sy, id) \in Seq(Ref) /\ (Entries(sy, id) # <<>> => id \in DOMAIN sy)
BY SymbolsAre DEF Entries

LEMMA InsertType ==
  ASSUME NEW sy \in Symbols, NEW id \in Ids, NEW r \in Ref
  PROVE  Insert(sy, id, r) \in Symbols /\ DOMAIN Insert(sy, id, r) = DOMAIN sy \cup {id}
<1> DEFINE new == Insert(sy, id, r)
<1>1. DOMAIN sy \subseteq Ids /\ \A i \in DOMAIN sy : sy[i] \in Seq(Ref)
  BY SymbolsAre
<1>2. Append(Entries(sy, id), r) \in Seq(Ref)
  <2>1. Entries(sy, id) \in Seq(Ref)
    BY EntriesType
  <2>2. \A e \in Seq(Ref) : Append(e, r) \in Seq(Ref)
    OBVIOUS
  <2> QED
    BY <2>1, <2>2
<1>3. new = [i \in DOMAIN sy \cup {id} |-> IF i = id THEN Append(Entries(sy, id), r) ELSE sy[i]]
  BY DEF Insert
<1> HIDE DEF new
<1>4. DOMAIN new = DOMAIN sy \cup {id} /\ new = [i \in DOMAIN new |-> new[i]]
  BY <1>3
<1>5. \A i \in DOMAIN new : new[i] \in Seq(Ref)
  <2> TAKE i \in DOMAIN new
  <2>1. new[i] = IF i = id THEN Append(Entries(sy, id), r) ELSE sy[i]
    BY <1>3, <1>4
  <2> QED
    BY <1>1, <1>2, <1>4, <2>1
<1>6. new \in Symbols
  BY <1>1, <1>4, <1>5, SymbolsAre
<1> QED
  BY <1>4, <1>6 DEF new

(* The four things inserting a declaration can mean. *)
Merges(sy, d) == IsA(d, {"subprogram_declaration"}) /\ Len(Entries(sy, N(d).id)) = 1
First(sy, d) == Entries(sy, N(d).id)[1]
Overloads(sy, d, of) == [sy EXCEPT ![N(d).id] = <<Overload(of)>>]

LEMMA InsertionCases ==
  ASSUME NEW sy, NEW d
  PROVE  \/ /\ Merges(sy, d) /\ First(sy, d).overload
            /\ InsertDeclaration(sy, d) = Overloads(sy, d, Append(First(sy, d).of, d))
         \/ /\ Merges(sy, d) /\ ~First(sy, d).overload
            /\ IsA(First(sy, d).of[1], {"subprogram_declaration"})
            /\ InsertDeclaration(sy, d) = Overloads(sy, d, First(sy, d).of)
         \/ /\ ~(Merges(sy, d) /\ (First(sy, d).overload
                   \/ IsA(First(sy, d).of[1], {"subprogram_declaration"})))
            /\ \/ /\ IsA(d, {"subprogram_body"})
                  /\ InsertDeclaration(sy, d) = Insert(sy, N(d).id, To(N(d).specification))
               \/ /\ IsA(d, Unnamed)
                  /\ InsertDeclaration(sy, d) = sy
               \/ /\ ~IsA(d, {"subprogram_body"}) /\ ~IsA(d, Unnamed)
                  /\ InsertDeclaration(sy, d) = Insert(sy, N(d).id, To(d))
<1> DEFINE G1 == Merges(sy, d) /\ First(sy, d).overload
           G2 == Merges(sy, d) /\ ~First(sy, d).overload
                   /\ IsA(First(sy, d).of[1], {"subprogram_declaration"})
           G3 == IsA(d, {"subprogram_body"})
           G4 == IsA(d, Unnamed)
           R1 == Overloads(sy, d, Append(First(sy, d).of, d))
           R2 == Overloads(sy, d, First(sy, d).of)
           R3 == Insert(sy, N(d).id, To(N(d).specification))
           R5 == Insert(sy, N(d).id, To(d))
<1>1. InsertDeclaration(sy, d) =
        CASE G1 -> R1 [] G2 -> R2 [] G3 -> R3 [] G4 -> sy [] OTHER -> R5
  BY DEF InsertDeclaration, Merges, First, Overloads
<1>2. (G1 => ~G2 /\ ~G3 /\ ~G4) /\ (G2 => ~G1 /\ ~G3 /\ ~G4) /\ ~(G3 /\ G4)
  BY DEF Merges, IsA, Unnamed
<1>3. G1 \/ G2 \/ (~(Merges(sy, d) /\ (First(sy, d).overload
                   \/ IsA(First(sy, d).of[1], {"subprogram_declaration"}))) /\ ~G1 /\ ~G2)
  OBVIOUS
<1> HIDE DEF R1, R2, R3, R5
<1>4. CASE G1
  <2>1. InsertDeclaration(sy, d) = R1
    <3> HIDE DEF G1, G2, G3, G4
    <3> QED
      BY <1>1, <1>2, <1>4
  <2> QED
    BY <1>4, <2>1 DEF R1
<1>5. CASE G2
  <2>1. InsertDeclaration(sy, d) = R2
    <3> HIDE DEF G1, G2, G3, G4
    <3> QED
      BY <1>1, <1>2, <1>5
  <2> QED
    BY <1>5, <2>1 DEF R2
<1>6. CASE ~G1 /\ ~G2
  <2>1. \/ G3 /\ InsertDeclaration(sy, d) = R3
        \/ G4 /\ InsertDeclaration(sy, d) = sy
        \/ ~G3 /\ ~G4 /\ InsertDeclaration(sy, d) = R5
    <3> HIDE DEF G1, G2, G3, G4
    <3> QED
      BY <1>1, <1>2, <1>6
  <2>2. ~(Merges(sy, d) /\ (First(sy, d).overload
                   \/ IsA(First(sy, d).of[1], {"subprogram_declaration"})))
    BY <1>6
  <2> QED
    BY <2>1, <2>2 DEF R3, R5
<1> QED
  BY <1>4, <1>5, <1>6

LEMMA InsertionType ==
  ASSUME design \in Designs, NEW sy \in Symbols, NEW d \in Nodes
  PROVE  /\ InsertDeclaration(sy, d) \in Symbols
         /\ DOMAIN InsertDeclaration(sy, d) =
              DOMAIN sy \cup (IF IsA(d, Unnamed) THEN {} ELSE {N(d).id})
<1> DEFINE id == N(d).id
           new == InsertDeclaration(sy, d)
<1>1. id \in Ids /\ d # None
  BY NodeFacts
<1>2. DOMAIN sy \subseteq Ids /\ \A i \in DOMAIN sy : sy[i] \in Seq(Ref)
  BY SymbolsAre
<1>3. ASSUME NEW of, of \in Seq(Nodes) \ {<<>>}, Merges(sy, d), new = Overloads(sy, d, of)
      PROVE  new \in Symbols /\ DOMAIN new = DOMAIN sy \cup {id} /\ ~IsA(d, Unnamed)
  <2>1. Entries(sy, id) # <<>> /\ ~IsA(d, Unnamed)
    <3>1. Len(Entries(sy, id)) = 1 /\ IsA(d, {"subprogram_declaration"})
      BY <1>3 DEF Merges
    <3>2. ~IsA(d, Unnamed)
      BY <3>1 DEF IsA, Unnamed
    <3> QED
      BY <3>1, <3>2
  <2>2. id \in DOMAIN sy
    BY <2>1, EntriesType
  <2>3. <<Overload(of)>> \in Seq(Ref)
    <3>1. Overload(of) \in Ref
      BY <1>3, RefsAre
    <3> QED
      BY <3>1
  <2>4. new = [sy EXCEPT ![id] = <<Overload(of)>>]
    BY <1>3 DEF Overloads
  <2>5. sy = [i \in DOMAIN sy |-> sy[i]]
    BY SymbolsAre
  <2> HIDE DEF new, id
  <2>6. DOMAIN new = DOMAIN sy /\ new = [i \in DOMAIN new |-> new[i]]
        /\ \A i \in DOMAIN new : new[i] = IF i = id THEN <<Overload(of)>> ELSE sy[i]
    BY <2>4, <2>5
  <2>7. \A i \in DOMAIN new : new[i] \in Seq(Ref)
    BY <1>2, <2>3, <2>6
  <2>8. new \in Symbols
    BY <1>2, <2>6, <2>7, SymbolsAre
  <2> QED
    BY <2>1, <2>2, <2>6, <2>8
<1>4. ASSUME Merges(sy, d) PROVE First(sy, d) \in Ref
  <2>1. Entries(sy, id) \in Seq(Ref)
    BY EntriesType
  <2>2. Len(Entries(sy, id)) = 1
    BY <1>4 DEF Merges
  <2> QED
    BY <2>1, <2>2 DEF First
<1>5. CASE Merges(sy, d) /\ new = Overloads(sy, d, Append(First(sy, d).of, d))
  <2>1. First(sy, d).of \in Seq(Nodes)
    BY <1>4, <1>5, RefsAre
  <2>2. \A s \in Seq(Nodes) : Append(s, d) \in Seq(Nodes) \ {<<>>}
    <3> TAKE s \in Seq(Nodes)
    <3>1. Append(s, d) \in Seq(Nodes) /\ Len(Append(s, d)) = Len(s) + 1 /\ Len(s) \in Nat
      OBVIOUS
    <3>2. Append(s, d) # <<>>
      BY <3>1
    <3> QED
      BY <3>1, <3>2
  <2> QED
    BY <1>3, <1>5, <2>1, <2>2
<1>6. CASE Merges(sy, d) /\ new = Overloads(sy, d, First(sy, d).of)
  <2>1. First(sy, d).of \in Seq(Nodes) \ {<<>>}
    BY <1>4, <1>6, RefsAre
  <2> QED
    BY <1>3, <1>6, <2>1
<1>7. CASE IsA(d, {"subprogram_body"}) /\ new = Insert(sy, id, To(N(d).specification))
  <2>1. N(d).specification \in Nodes /\ ~IsA(d, Unnamed)
    BY <1>7, NodeFacts DEF IsA, Unnamed
  <2>2. To(N(d).specification) \in Ref
    BY <2>1, RefsAre
  <2>3. Insert(sy, id, To(N(d).specification)) \in Symbols
        /\ DOMAIN Insert(sy, id, To(N(d).specification)) = DOMAIN sy \cup {id}
    BY <1>1, <2>2, InsertType
  <2> QED
    BY <1>7, <2>1, <2>3
<1>8. CASE IsA(d, Unnamed) /\ new = sy
  BY <1>8
<1>9. CASE ~IsA(d, Unnamed) /\ new = Insert(sy, id, To(d))
  <2>1. To(d) \in Ref
    BY RefsAre
  <2>2. Insert(sy, id, To(d)) \in Symbols /\ DOMAIN Insert(sy, id, To(d)) = DOMAIN sy \cup {id}
    BY <1>1, <2>1, InsertType
  <2> QED
    BY <1>9, <2>2
<1> QED
  BY <1>5, <1>6, <1>7, <1>8, <1>9, InsertionCases

(* Inserted, by the symbols it is built from. *)
Builds(f, decls) ==
  /\ Inserted(decls) = f[Len(decls)]
  /\ f[0] = [id \in {} |-> <<>>]
  /\ \A k \in 1..Len(decls) : f[k] = InsertDeclaration(f[k - 1], decls[k])

LEMMA InsertedUpto ==
  ASSUME design \in Designs, NEW decls \in Seq(Nodes)
  PROVE  \E f \in [0..Len(decls) -> Symbols] : Builds(f, decls)
<1> DEFINE m == Len(decls)
           base == [id \in {} |-> <<>>]
           Then(s, k) == InsertDeclaration(s, decls[k])
           Is(f) == f = [k \in 0..m |-> IF k = 0 THEN base ELSE Then(f[k - 1], k)]
           f == CHOOSE h : Is(h)
           step == [p \in (1..m) \X Symbols |-> Then(p[2], p[1])]
<1>1. m \in Nat /\ \A k \in 1..m : decls[k] \in Nodes
  OBVIOUS
<1>2. base \in Symbols
  <2>1. DOMAIN base = {} /\ base = [id \in DOMAIN base |-> base[id]]
    OBVIOUS
  <2> HIDE DEF base
  <2> QED
    BY <2>1, SymbolsAre
<1>a. \A k \in 1..m : \A s \in Symbols : Then(s, k) \in Symbols
  BY <1>1, InsertionType
<1>3. Inserted(decls) = f[m]
  BY DEF Inserted
<1> HIDE DEF m, Then, base, f
<1>4. \A k \in 1..m : \A s \in Symbols : step[<<k, s>>] = Then(s, k)
  OBVIOUS
<1> HIDE DEF step
<1>5. Stays(m, Symbols, step)
  BY <1>a, <1>4 DEF Stays
<1>6. PICK g \in [0..m -> Symbols] : Follows(g, m, base, step)
  BY <1>1, <1>2, <1>5, Recursion
<1>7. Is(g)
  <2> DEFINE h == [k \in 0..m |-> IF k = 0 THEN base ELSE Then(g[k - 1], k)]
  <2>1. ASSUME NEW k \in 1..m PROVE g[k] = Then(g[k - 1], k)
    <3>1. k - 1 \in 0..m
      BY <1>1
    <3> QED
      BY <1>4, <1>6, <3>1 DEF Follows
  <2>2. \A k \in 0..m : h[k] = g[k]
    BY <1>1, <1>6, <2>1 DEF Follows
  <2> QED
    BY <2>2
<1>8. Is(f)
  <2> HIDE DEF Is
  <2> QED
    BY <1>7 DEF f
<1>9. f[0] = base /\ \A k \in 1..m : f[k] = Then(f[k - 1], k)
  BY <1>1, <1>8
<1>10. \A k \in 0..m : f[k] \in Symbols
  <2>1. \A k \in 1..m : f[k - 1] \in Symbols => f[k] \in Symbols
    BY <1>a, <1>9
  <2> HIDE DEF Is
  <2> QED
    BY <1>1, <1>2, <1>9, <2>1, Upwards
<1>11. f \in [0..m -> Symbols]
  <2>1. f = [k \in 0..m |-> f[k]]
    BY <1>8
  <2> HIDE DEF Is
  <2> QED
    BY <1>10, <2>1
<1> HIDE DEF Is
<1> QED
  BY <1>3, <1>9, <1>11 DEF m, base, Then, Builds

(* A scope has the names its region declares. *)
LEMMA InsertedNames ==
  ASSUME design \in Designs, NEW decls \in Seq(Nodes)
  PROVE  Inserted(decls) \in Symbols /\ DOMAIN Inserted(decls) = NamesIn(decls)
<1> DEFINE m == Len(decls)
           Named(k) == {N(decls[j]).id : j \in {i \in 1..k : ~IsA(decls[i], Unnamed)}}
<1>1. m \in Nat /\ \A k \in 1..m : decls[k] \in Nodes
  OBVIOUS
<1>2. PICK f \in [0..m -> Symbols] : Builds(f, decls)
  BY InsertedUpto
<1> DEFINE g == [k \in 0..m |-> IF DOMAIN f[k] = Named(k) THEN 1 ELSE 0]
<1>3. ASSUME NEW k \in 1..m, g[k - 1] \in {1} PROVE g[k] \in {1}
  <2>1. k \in 0..m /\ k - 1 \in 0..m /\ DOMAIN f[k - 1] = Named(k - 1)
    <3> HIDE DEF Named
    <3>1. k \in 0..m /\ k - 1 \in 0..m
      BY <1>1
    <3> QED
      BY <1>3, <3>1
  <2>2. f[k] = InsertDeclaration(f[k - 1], decls[k]) /\ f[k - 1] \in Symbols
    BY <1>2, <2>1 DEF Builds
  <2>3. DOMAIN f[k] = DOMAIN f[k - 1] \cup (IF IsA(decls[k], Unnamed) THEN {} ELSE {N(decls[k]).id})
    BY <1>1, <2>2, InsertionType
  <2>4. Named(k) = Named(k - 1) \cup (IF IsA(decls[k], Unnamed) THEN {} ELSE {N(decls[k]).id})
    BY <1>1
  <2> QED
    BY <2>1, <2>3, <2>4
<1>4. g[0] \in {1}
  <2>1. DOMAIN f[0] = {} /\ Named(0) = {}
    BY <1>2 DEF Builds
  <2> QED
    BY <1>1, <2>1
<1>5. \A k \in 0..m : g[k] \in {1}
  <2> HIDE DEF g
  <2> QED
    BY <1>1, <1>3, <1>4, Upwards
<1>6. DOMAIN f[m] = Named(m)
  BY <1>1, <1>5
<1>7. Named(m) = NamesIn(decls)
  BY <1>1 DEF NamesIn, ToSet
<1> QED
  BY <1>1, <1>2, <1>6, <1>7 DEF Builds

--------------------------------------------------------------------------------
(* Scopes, and what is looked up in them. *)
LEMMA DeclaredAre ==
  ASSUME design \in Designs, NEW n \in Nodes \cup {None}
  PROVE  DeclaredBy(n) \in Seq(Nodes) /\ InterfacesOf(n) \in Seq(Nodes)
<1>1. CASE n = None
  BY <1>1 DEF DeclaredBy, InterfacesOf
<1>2. CASE n # None
  <2>1. N(n).interfaces \in Seq(Nodes) /\ N(n).declarations \in Seq(Nodes)
    BY <1>2, NodeFacts
  <2>2. N(n).interfaces \o N(n).declarations \in Seq(Nodes)
    BY <2>1
  <2> QED
    BY <1>2, <2>1, <2>2 DEF DeclaredBy, InterfacesOf
<1> QED
  BY <1>1, <1>2

LEMMA ScopeIs ==
  ASSUME design \in Designs, NEW decls \in Seq(Nodes)
  PROVE  /\ Scope(decls) \in ScopeType
         /\ Scope(decls).symbols = Inserted(decls) /\ ~Scope(decls).root
<1>1. Inserted(decls) \in Symbols
  BY InsertedNames
<1>2. Among(decls, OfKind({"configuration_specification"})) \in Seq(Specs)
  <2>1. Among(decls, Specs) \in Seq({n \in Nodes : n \in Specs})
    BY AmongType
  <2>2. {n \in Nodes : n \in Specs} = Specs
    BY DEF Specs, OfKind
  <2> QED
    BY <2>1, <2>2 DEF Specs
<1>3. <<>> \in Seq(Clauses) /\ "" \in Libraries
  BY DEF Libraries
<1> QED
  BY <1>1, <1>2, <1>3 DEF Scope, ScopeType

LEMMA RootIs ==
  ASSUME design \in Designs, NEW n \in Nodes
  PROVE  /\ RootScope(n) \in ScopeType
         /\ RootScope(n).symbols = Inserted(<<>>) /\ RootScope(n).root
         /\ DOMAIN Inserted(<<>>) = {}
         /\ \A sy \in Symbols :
              /\ [RootScope(n) EXCEPT !.symbols = sy] \in ScopeType
              /\ [RootScope(n) EXCEPT !.symbols = sy].symbols = sy
              /\ [RootScope(n) EXCEPT !.symbols = sy].root
<1> DEFINE empty == <<>>
           uses == Append(N(n).uses, UseStd)
           inner == Scope(empty)
<1>1. empty \in Seq(Nodes) /\ NamesIn(empty) = {}
  BY DEF NamesIn, ToSet
<1>2. inner \in ScopeType /\ inner.symbols = Inserted(empty)
  BY <1>1, ScopeIs
<1>3. DOMAIN Inserted(empty) = {}
  BY <1>1, InsertedNames
<1>4. uses \in Seq(Clauses) /\ N(n).lib \in Libraries
  <2>1. N(n).uses \in Seq(Clauses) /\ N(n).lib \in Libraries /\ UseStd \in Clauses
    BY NodeFacts
  <2>2. \A s \in Seq(Clauses) : \A x \in Clauses : Append(s, x) \in Seq(Clauses)
    OBVIOUS
  <2> QED
    BY <2>1, <2>2
<1>5. RootScope(n) = [inner EXCEPT !.uses = uses, !.lib = N(n).lib, !.root = TRUE]
  BY DEF RootScope
<1> HIDE DEF empty, uses, inner
<1>6. /\ RootScope(n) \in ScopeType
      /\ RootScope(n).symbols = inner.symbols /\ RootScope(n).root
  BY <1>2, <1>4, <1>5 DEF ScopeType
<1>7. \A sy \in Symbols :
        /\ [RootScope(n) EXCEPT !.symbols = sy] \in ScopeType
        /\ [RootScope(n) EXCEPT !.symbols = sy].symbols = sy
        /\ [RootScope(n) EXCEPT !.symbols = sy].root
  BY <1>6 DEF ScopeType
<1> QED
  BY <1>2, <1>3, <1>6, <1>7 DEF empty

LEMMA UnitIsNode ==
  ASSUME design \in Designs, NEW kind, NEW lib, NEW name
  PROVE  FindUnit(kind, lib, name) \in Nodes \cup {None}
<1>1. ToSet(Units) \subseteq Nodes
  <2>1. Units \in Seq(Nodes)
    BY NodesAssumption DEF Units, Nodes
  <2> QED
    BY <2>1 DEF ToSet
<1> QED
  BY <1>1 DEF FindUnit

LEMMA CandidateType ==
  ASSUME NEW n \in Nodes \cup {None}
  PROVE  Candidate(n) \in Seq(Ref) /\ Len(Candidate(n)) <= 1
<1>1. CASE n = None
  BY <1>1 DEF Candidate
<1>2. CASE n # None
  <2>1. To(n) \in Ref
    BY <1>2, RefsAre
  <2>2. <<To(n)>> \in Seq(Ref) /\ Len(<<To(n)>>) = 1
    BY <2>1
  <2> QED
    BY <1>2, <2>2 DEF Candidate
<1> QED
  BY <1>1, <1>2

LEMMA PackageLookupType ==
  ASSUME design \in Designs, NEW p \in Nodes \cup {None}, NEW id
  PROVE  LookupInPackage(p, id) \in Seq(Ref)
<1>1. CASE p = None
  BY <1>1 DEF LookupInPackage
<1>2. CASE p # None
  <2> DEFINE decls == N(p).interfaces \o N(p).declarations
  <2>1. decls \in Seq(Nodes)
    <3>1. N(p).interfaces \in Seq(Nodes) /\ N(p).declarations \in Seq(Nodes)
      BY <1>2, NodeFacts
    <3> QED
      BY <3>1
  <2>2. Entries(Inserted(decls), id) \in Seq(Ref)
    <3> HIDE DEF decls
    <3>1. Inserted(decls) \in Symbols
      BY <2>1, InsertedNames
    <3> QED
      BY <3>1, EntriesType
  <2>3. <<>> \in Seq(Ref)
    OBVIOUS
  <2> QED
    BY <2>2, <2>3 DEF LookupInPackage
<1> QED
  BY <1>1, <1>2

LEMMA QualifiedType ==
  ASSUME design \in Designs, NEW lib, NEW name
  PROVE  LookupQualified(lib, name) \in Seq(Ref)
<1> DEFINE e == FindUnit("entity", lib, name)
           p == FindUnit("package", lib, name)
           one == IF e # None THEN <<To(e)>> ELSE Candidate(p)
           two == Candidate(p)
           three == LookupInPackage(p, name[3])
<1>1. e \in Nodes \cup {None} /\ p \in Nodes \cup {None}
  BY UnitIsNode
<1>2. one \in Seq(Ref)
  <2>1. Candidate(e) \in Seq(Ref) /\ Candidate(p) \in Seq(Ref)
    BY <1>1, CandidateType
  <2> QED
    BY <2>1 DEF Candidate
<1>3. two \in Seq(Ref) /\ three \in Seq(Ref)
  BY <1>1, CandidateType, PackageLookupType
<1>4. LookupQualified(lib, name) =
        CASE Len(name) = 2 -> one
          [] Len(name) > 2 /\ name[3] = "all" -> two
          [] OTHER -> three
  BY DEF LookupQualified
<1> HIDE DEF one, two, three
<1>5. LookupQualified(lib, name) \in {one, two, three}
  <2>1. CASE Len(name) = 2
    <3>1. ~(Len(name) > 2)
      BY <2>1
    <3> QED
      BY <1>4, <2>1, <3>1
  <2>2. CASE Len(name) # 2
    BY <1>4, <2>2
  <2> QED
    BY <2>1, <2>2
<1> QED
  BY <1>2, <1>3, <1>5

LEMMA OfferType ==
  ASSUME design \in Designs, NEW lib, NEW clause, NEW id
  PROVE  Offer(lib, clause, id) \in Seq(Ref)
<1>1. LookupInPackage(FindUnit("package", lib, clause), id) \in Seq(Ref)
  BY UnitIsNode, PackageLookupType
<1>2. LookupQualified(lib, clause) \in Seq(Ref) /\ <<>> \in Seq(Ref)
  BY QualifiedType
<1> QED
  BY <1>1, <1>2 DEF Offer

(* A lookup in any chain of scopes finds references. *)
IsChain(chain) ==
  /\ Len(chain) \in Nat /\ DOMAIN chain = 1..Len(chain)
  /\ \A k \in DOMAIN chain : chain[k].symbols \in Symbols

LEMMA LookupType ==
  ASSUME design \in Designs, NEW chain, IsChain(chain), NEW name
  PROVE  Lookup(chain, name) \in Seq(Ref)
<1> DEFINE hits == {k \in DOMAIN chain : Entries(chain[k].symbols, name[1]) # <<>>}
<1>1. LookupQualified(Lib(chain), name) \in Seq(Ref)
  BY QualifiedType
<1>2. LookupInUseClauses(chain, name[1]) \in Seq(Ref)
  BY OfferType DEF LookupInUseClauses
<1>3. ASSUME hits # {} PROVE Entries(chain[Min(hits)].symbols, name[1]) \in Seq(Ref)
  <2>1. hits \in SUBSET Nat
    BY DEF IsChain
  <2>2. Min(hits) \in hits
    <3> HIDE DEF hits
    <3> QED
      BY <1>3, <2>1, MinIsLeast
  <2>3. chain[Min(hits)].symbols \in Symbols
    BY <2>2 DEF IsChain
  <2> QED
    BY <2>3, EntriesType
<1> QED
  BY <1>1, <1>2, <1>3 DEF Lookup

(* The chain of a stack, and that of the formals. *)
LEMMA ReverseType ==
  ASSUME NEW T, NEW seq \in Seq(T)
  PROVE  /\ Reverse(seq) \in Seq(T) /\ Len(Reverse(seq)) = Len(seq)
         /\ \A i \in 1..Len(seq) : Reverse(seq)[i] = seq[(Len(seq) - i) + 1]
<1>1. Reverse(seq) = [i \in 1..Len(seq) |-> seq[(Len(seq) - i) + 1]]
  BY DEF Reverse
<1>2. Len(seq) \in Nat /\ \A i \in 1..Len(seq) : (Len(seq) - i) + 1 \in 1..Len(seq)
  OBVIOUS
<1>3. \A i \in 1..Len(seq) : seq[i] \in T
  OBVIOUS
<1>4. Reverse(seq) \in [1..Len(seq) -> T]
  BY <1>1, <1>2, <1>3
<1>5. Reverse(seq) \in Seq(T)
  BY <1>2, <1>4
<1>6. Len(Reverse(seq)) = Len(seq)
  BY <1>1, <1>2, <1>5
<1> QED
  BY <1>1, <1>5, <1>6

LEMMA ChainType ==
  ASSUME NEW stack \in Seq(ScopeType)
  PROVE  Chain(stack) \in Seq(ScopeType) /\ IsChain(Chain(stack))
<1> DEFINE roots == {k \in DOMAIN stack : stack[k].root} \cup {1}
           part == SubSeq(stack, Max(roots), Len(stack))
<1>1. Max(roots) \in Nat /\ 1 <= Max(roots)
  <2>1. Len(stack) + 1 \in Nat /\ roots \in SUBSET (0..(Len(stack) + 1)) /\ roots # {}
    OBVIOUS
  <2>2. 1 \in roots /\ \A k \in roots : k \in Nat
    OBVIOUS
  <2> HIDE DEF roots
  <2> QED
    BY <2>1, <2>2, MaxIsGreatest
<1> HIDE DEF roots
<1>2. part \in Seq(ScopeType)
  BY <1>1
<1>3. Chain(stack) = Reverse(part)
  BY DEF Chain, roots
<1> HIDE DEF part
<1>4. Chain(stack) \in Seq(ScopeType)
  BY <1>2, <1>3, ReverseType
<1>5. ASSUME NEW c \in Seq(ScopeType) PROVE IsChain(c)
  <2>1. Len(c) \in Nat /\ DOMAIN c = 1..Len(c) /\ \A k \in 1..Len(c) : c[k] \in ScopeType
    OBVIOUS
  <2>2. \A t \in ScopeType : t.symbols \in Symbols
    BY DEF ScopeType
  <2> QED
    BY <2>1, <2>2 DEF IsChain
<1> QED
  BY <1>4, <1>5

LEMMA FormalChain ==
  ASSUME design \in Designs, NEW lib, NEW decls \in Seq(Nodes)
  PROVE  IsChain(FormalScope(lib, decls))
<1> DEFINE inner == Scope(decls)
           one == [inner EXCEPT !.lib = lib]
<1>1. inner \in ScopeType
  BY ScopeIs
<1> HIDE DEF inner
<1>2. one.symbols = inner.symbols
  BY <1>1 DEF ScopeType
<1>3. inner.symbols \in Symbols
  BY <1>1 DEF ScopeType
<1> HIDE DEF one
<1>4. Len(<<one>>) = 1 /\ DOMAIN <<one>> = 1..1 /\ <<one>>[1] = one
  OBVIOUS
<1>5. IsChain(<<one>>)
  BY <1>2, <1>3, <1>4 DEF IsChain
<1> QED
  BY <1>5 DEF FormalScope, one, inner

(* What is found is found for slots, and is references. *)
Finds(found) == \A s \in DOMAIN found : s \in Slots /\ found[s] \in Seq(Ref)

LEMMA FindsBoth ==
  ASSUME NEW f, Finds(f), NEW g, Finds(g)
  PROVE  Finds(f ++ g)
BY DEF Finds, ++

LEMMA FindsNothing == Finds(<<>>)
BY DEF Finds

LEMMA FindsNames ==
  ASSUME design \in Designs, NEW chain, IsChain(chain),
         NEW nodes \in SUBSET Nodes, NEW part \in Parts
  PROVE  Finds(NamesFound(chain, nodes, part))
<1> DEFINE found == NamesFound(chain, nodes, part)
<1>1. ASSUME NEW s \in DOMAIN found PROVE s \in Slots /\ found[s] \in Seq(Ref)
  <2>1. s \in UNION {Numbered(n, part, N(n)[part]) : n \in nodes}
        /\ found[s] = Lookup(chain, N(s[1])[part][s[3]])
    BY <1>1 DEF NamesFound
  <2>2. PICK n \in nodes : s \in Numbered(n, part, N(n)[part])
    BY <2>1
  <2>3. s \in NameSlots(n)
    BY <2>2 DEF NameSlots
  <2>4. s \in Slots
    BY <2>3 DEF Slots, SlotsOf
  <2>5. found[s] \in Seq(Ref)
    BY <2>1, LookupType
  <2> QED
    BY <2>4, <2>5
<1> QED
  BY <1>1 DEF Finds

LEMMA FindsInterfaces ==
  ASSUME design \in Designs, NEW chain, IsChain(chain), NEW n \in Nodes
  PROVE  Finds(InterfacesFound(chain, n))
<1>1. N(n).interfaces \in Seq(Nodes)
  BY NodeFacts
<1>2. ToSet(N(n).interfaces) \in SUBSET Nodes
  BY <1>1 DEF ToSet
<1> QED
  BY <1>2, FindsNames DEF InterfacesFound, Parts

LEMMA FindsActuals ==
  ASSUME design \in Designs, NEW actual, IsChain(actual), NEW current, IsChain(current),
         NEW n \in Nodes
  PROVE  Finds(ActualsFound(actual, current, n))
<1>1. {"actual", "designator"} \subseteq Parts /\ {n} \in SUBSET Nodes
  BY DEF Parts
<1> QED
  BY <1>1, FindsNames, FindsBoth DEF ActualsFound

LEMMA FindsFormals ==
  ASSUME design \in Designs, NEW chain, IsChain(chain), NEW n \in Nodes
  PROVE  Finds(FormalsFound(chain, n))
<1>1. "formal" \in Parts /\ {n} \in SUBSET Nodes
  BY DEF Parts
<1> QED
  BY <1>1, FindsNames DEF FormalsFound

LEMMA FindsUnit ==
  ASSUME design \in Designs, NEW n \in Nodes, UnitSlots(n) # {},
         NEW u \in Nodes \cup {None}
  PROVE  Finds(UnitFound(n, u))
<1>1. <<n, "unit", 0>> \in Slots
  <2>1. <<n, "unit", 0>> \in UnitSlots(n)
    BY DEF UnitSlots
  <2> QED
    BY <2>1 DEF Slots, SlotsOf
<1>2. Candidate(u) \in Seq(Ref)
  BY CandidateType
<1> QED
  BY <1>1, <1>2 DEF UnitFound, Finds

LEMMA FindsComponent ==
  ASSUME design \in Designs, NEW chain, IsChain(chain), NEW n \in Nodes,
         ComponentSlots(n) # {}
  PROVE  Finds(ComponentFound(chain, n))
<1>1. <<n, "component", 0>> \in Slots
  BY DEF Slots, SlotsOf, ComponentSlots
<1>2. Lookup(chain, N(n).of) \in Seq(Ref) /\ <<>> \in Seq(Ref)
  BY LookupType
<1>3. AsComponent(Lookup(chain, N(n).of)) \in Seq(Ref)
  BY <1>2 DEF AsComponent
<1> QED
  BY <1>1, <1>3 DEF ComponentFound, Finds

LEMMA FindsBinding ==
  ASSUME design \in Designs, NEW chain, IsChain(chain), NEW spec \in Nodes
  PROVE  Finds(BindingFound(chain, spec))
<1> DEFINE e == FindUnit("entity", Lib(chain), N(spec).target)
<1>1. e \in Nodes \cup {None}
  BY UnitIsNode
<1> HIDE DEF e
<1>2. CASE N(spec).aspect = "entity"
  <2>1. UnitSlots(spec) # {}
    BY <1>2 DEF UnitSlots
  <2>2. Finds(UnitFound(spec, e))
    BY <1>1, <2>1, FindsUnit
  <2>3. IsChain(FormalScope(Lib(chain), InterfacesOf(e)))
    BY <1>1, DeclaredAre, FormalChain
  <2>4. Finds(ActualsFound(chain, chain, spec))
        /\ Finds(FormalsFound(FormalScope(Lib(chain), InterfacesOf(e)), spec))
    BY <2>3, FindsActuals, FindsFormals
  <2> QED
    BY <1>2, <2>2, <2>4, FindsBoth DEF BindingFound, e
<1>3. CASE N(spec).aspect # "entity"
  BY <1>3, FindsNothing DEF BindingFound
<1> QED
  BY <1>2, <1>3

LEMMA FindsAssociations ==
  ASSUME design \in Designs, NEW chain, IsChain(chain), NEW n \in Nodes,
         NEW e \in Nodes \cup {None}, NEW c \in Nodes \cup {None}
  PROVE  Finds(AssociationsFound(chain, n, e, c))
<1> DEFINE decls == InterfacesOf(e) \o InterfacesOf(c)
<1>1. decls \in Seq(Nodes)
  <2>1. InterfacesOf(e) \in Seq(Nodes) /\ InterfacesOf(c) \in Seq(Nodes)
    BY DeclaredAre
  <2> QED
    BY <2>1
<1> HIDE DEF decls
<1>2. IsChain(FormalScope(Lib(chain), decls))
  BY <1>1, FormalChain
<1> QED
  BY <1>2, FindsActuals, FindsFormals, FindsBoth DEF AssociationsFound, decls

--------------------------------------------------------------------------------
(* The invariant of the walk: types, and a frame's scopes end where those   *)
(* of the next begin.                                                       *)
FrameType == [node : Nodes, todo : Seq(Nodes), base : Nat]
Typed ==
  /\ design \in Designs
  /\ unit \in 0..(Len(Order) + 1)
  /\ frames \in Seq(FrameType)
  /\ scopes \in Seq(ScopeType)
  /\ refs \in [Slots -> Ref \cup {None}]
  /\ ambiguous \subseteq Slots
  /\ runs \in 0..MaxRuns
Stacked ==
  /\ frames # <<>> => unit \in 1..Len(Order)
  /\ \A k \in 1..Len(frames) : frames[k].base <= Len(scopes)
  /\ \A j, k \in 1..Len(frames) : j <= k => frames[j].base <= frames[k].base
WalkInv == Typed /\ Stacked

(* The design is not changed, and what only depends on it is not either. *)
LEMMA Fixed ==
  ASSUME design' = design
  PROVE  /\ Nodes' = Nodes /\ Order' = Order /\ Slots' = Slots /\ Ref' = Ref
         /\ ScopeType' = ScopeType /\ FrameType' = FrameType
<1>1. Nodes' = Nodes /\ Order' = Order
  BY DEF Nodes, Order, Pass, OfKind, IsA, N, Units
<1>2. Slots' = Slots
  BY DEF Slots, SlotsOf, NameSlots, Parts, UnitSlots, ComponentSlots, Nodes, IsA, N
<1>3. Ref' = Ref /\ FrameType' = FrameType
  BY DEF Ref, FrameType, Nodes
<1>4. ScopeType' = ScopeType
  BY DEF ScopeType, Symbols, Ref, Clauses, Libraries, Ids, Nodes, N, Specs, OfKind, IsA
<1> QED
  BY <1>1, <1>2, <1>3, <1>4

UnitKinds == {"package", "entity", "package_instantiation", "architecture", "package_body"}

LEMMA OrderIs ==
  ASSUME design \in Designs
  PROVE  Order \in Seq(Nodes) /\ \A k \in 1..Len(Order) : IsA(Order[k], UnitKinds)
<1> DEFINE Known == {n \in Nodes : IsA(n, UnitKinds)}
<1>1. Units \in Seq(Nodes)
  BY NodesAssumption DEF Units, Nodes
<1>2. ASSUME NEW kinds \in SUBSET UnitKinds PROVE Pass(kinds) \in Seq(Known)
  <2>1. Pass(kinds) \in Seq({n \in Nodes : n \in OfKind(kinds)})
    BY <1>1, AmongType DEF Pass
  <2>2. {n \in Nodes : n \in OfKind(kinds)} \subseteq Known
    BY DEF OfKind, IsA
  <2> HIDE DEF Known
  <2>3. \A S : S \subseteq Known => \A s \in Seq(S) : s \in Seq(Known)
    OBVIOUS
  <2> QED
    BY <2>1, <2>2, <2>3
<1>3. Pass({"package"}) \in Seq(Known)
  BY <1>2 DEF UnitKinds
<1>4. Pass({"entity", "package_instantiation"}) \in Seq(Known)
  BY <1>2 DEF UnitKinds
<1>5. Pass({"architecture", "package_body"}) \in Seq(Known)
  BY <1>2 DEF UnitKinds
<1>6. \A s \in Seq(Known) : s \in Seq(Nodes) /\ \A k \in 1..Len(s) : IsA(s[k], UnitKinds)
  OBVIOUS
<1> HIDE DEF Known
<1>7. Order \in Seq(Known)
  <2>1. \A a, b, c \in Seq(Known) : a \o b \o c \in Seq(Known)
    OBVIOUS
  <2> QED
    BY <1>3, <1>4, <1>5, <2>1 DEF Order
<1> QED
  BY <1>6, <1>7

(* The node the walk is at, and the frames once it is passed. *)
LEMMA NodeIs ==
  ASSUME WalkInv, Walking
  PROVE  /\ Node \in Nodes
         /\ unit \in 1..Len(Order)
         /\ frames = <<>> => IsA(Node, UnitKinds)
         /\ Passed \in Seq(FrameType) /\ Len(Passed) = Len(frames)
         /\ \A k \in 1..Len(frames) :
              Passed[k].base = frames[k].base /\ Passed[k].node = frames[k].node
<1> USE DEF WalkInv, Typed
<1>1. Order \in Seq(Nodes) /\ \A k \in 1..Len(Order) : IsA(Order[k], UnitKinds)
  BY OrderIs
<1>2. unit \in 1..Len(Order)
  BY <1>1 DEF Walking
<1>3. CASE frames = <<>>
  <2>1. Node = Order[unit] /\ Passed = <<>>
    BY <1>3 DEF Node, Passed
  <2> QED
    BY <1>1, <1>2, <1>3, <2>1
<1>4. CASE frames # <<>>
  <2> DEFINE m == Len(frames)
             todo == frames[m].todo
             last == [frames[m] EXCEPT !.todo = Tail(todo)]
  <2>1. m \in Nat /\ m \in 1..m /\ frames[m] \in FrameType
    BY <1>4
  <2>2. todo \in Seq(Nodes) /\ todo # <<>>
    BY <1>4, <2>1 DEF Walking, Here, FrameType
  <2>3. Head(todo) \in Nodes /\ Tail(todo) \in Seq(Nodes)
    <3> HIDE DEF todo
    <3> QED
      BY <2>2
  <2>4. Node = Head(todo)
    BY <1>4 DEF Node, Here
  <2>5. Passed = [frames EXCEPT ![m] = last]
    BY <1>4 DEF Passed
  <2> HIDE DEF todo
  <2>6. last \in FrameType /\ last.base = frames[m].base /\ last.node = frames[m].node
    BY <2>1, <2>3 DEF FrameType
  <2> HIDE DEF last, m
  <2>7. Passed \in Seq(FrameType) /\ Len(Passed) = Len(frames)
        /\ \A k \in 1..Len(frames) : Passed[k] = IF k = m THEN last ELSE frames[k]
    BY <2>1, <2>5, <2>6 DEF m
  <2> QED
    BY <1>2, <1>4, <2>3, <2>4, <2>6, <2>7
<1> QED
  BY <1>3, <1>4

(* The scopes of a region and the nodes to visit in it, by its kind. *)
Body == {"generate", "process", "subprogram_body"}
Own(n) ==
  CASE IsA(n, {"entity"}) -> <<[RootScope(n) EXCEPT !.symbols = Inserted(DeclaredBy(n))]>>
    [] IsA(n, {"package"}) -> <<RootScope(n), Scope(DeclaredBy(n))>>
    [] IsA(n, {"package_instantiation"}) -> <<RootScope(n)>>
    [] IsA(n, {"architecture"}) ->
         <<RootScope(n), Scope(DeclaredBy(Primary(n))), Scope(N(n).declarations)>>
    [] IsA(n, {"package_body"}) ->
         <<RootScope(n), Scope(DeclaredBy(Primary(n)) \o N(n).declarations)>>
    [] IsA(n, {"block"}) -> <<Scope(DeclaredBy(n))>>
    [] OTHER -> <<Scope(N(n).declarations)>>
Todo(n) == IF IsA(n, {"package_instantiation"}) THEN <<>> ELSE Items(n)

LEMMA OwnIs ==
  ASSUME NEW n
  PROVE  /\ IsA(n, {"entity"}) => Own(n) = <<[RootScope(n) EXCEPT !.symbols = Inserted(DeclaredBy(n))]>>
         /\ IsA(n, {"package"}) => Own(n) = <<RootScope(n), Scope(DeclaredBy(n))>>
         /\ IsA(n, {"package_instantiation"}) => Own(n) = <<RootScope(n)>>
         /\ IsA(n, {"architecture"}) =>
              Own(n) = <<RootScope(n), Scope(DeclaredBy(Primary(n))), Scope(N(n).declarations)>>
         /\ IsA(n, {"package_body"}) =>
              Own(n) = <<RootScope(n), Scope(DeclaredBy(Primary(n)) \o N(n).declarations)>>
         /\ IsA(n, {"block"}) => Own(n) = <<Scope(DeclaredBy(n))>>
         /\ IsA(n, Body) => Own(n) = <<Scope(N(n).declarations)>>
<1> DEFINE r1 == <<[RootScope(n) EXCEPT !.symbols = Inserted(DeclaredBy(n))]>>
           r2 == <<RootScope(n), Scope(DeclaredBy(n))>>
           r3 == <<RootScope(n)>>
           r4 == <<RootScope(n), Scope(DeclaredBy(Primary(n))), Scope(N(n).declarations)>>
           r5 == <<RootScope(n), Scope(DeclaredBy(Primary(n)) \o N(n).declarations)>>
           r6 == <<Scope(DeclaredBy(n))>>
           r7 == <<Scope(N(n).declarations)>>
           kind == N(n).kind
<1>1. Own(n) = CASE IsA(n, {"entity"}) -> r1
                 [] IsA(n, {"package"}) -> r2
                 [] IsA(n, {"package_instantiation"}) -> r3
                 [] IsA(n, {"architecture"}) -> r4
                 [] IsA(n, {"package_body"}) -> r5
                 [] IsA(n, {"block"}) -> r6
                 [] OTHER -> r7
  BY DEF Own
<1>2. \A kinds : IsA(n, kinds) <=> n # None /\ kind \in kinds
  BY DEF IsA
<1> HIDE DEF r1, r2, r3, r4, r5, r6, r7, kind
<1>3. n # None => Own(n) = CASE kind = "entity" -> r1
                 [] kind = "package" -> r2
                 [] kind = "package_instantiation" -> r3
                 [] kind = "architecture" -> r4
                 [] kind = "package_body" -> r5
                 [] kind = "block" -> r6
                 [] OTHER -> r7
  BY <1>1, <1>2
<1>4. n # None => /\ kind = "entity" => Own(n) = r1
                  /\ kind = "package" => Own(n) = r2
                  /\ kind = "package_instantiation" => Own(n) = r3
                  /\ kind = "architecture" => Own(n) = r4
                  /\ kind = "package_body" => Own(n) = r5
                  /\ kind = "block" => Own(n) = r6
                  /\ kind \in {"generate", "process", "subprogram_body"} => Own(n) = r7
  BY <1>3
<1> QED
  BY <1>2, <1>4 DEF r1, r2, r3, r4, r5, r6, r7, Body

LEMMA PrimaryIsNode ==
  ASSUME design \in Designs, NEW n \in Nodes
  PROVE  Primary(n) \in Nodes \cup {None}
BY UnitIsNode DEF Primary

LEMMA OwnType ==
  ASSUME design \in Designs, NEW n \in Nodes, IsA(n, Regions)
  PROVE  Own(n) \in Seq(ScopeType) /\ Todo(n) \in Seq(Nodes)
<1>1. N(n).declarations \in Seq(Nodes) /\ N(n).statements \in Seq(Nodes)
  BY NodeFacts
<1>2. DeclaredBy(n) \in Seq(Nodes) /\ DeclaredBy(Primary(n)) \in Seq(Nodes)
  BY DeclaredAre, PrimaryIsNode
<1>3. DeclaredBy(Primary(n)) \o N(n).declarations \in Seq(Nodes)
      /\ N(n).declarations \o N(n).statements \in Seq(Nodes) /\ <<>> \in Seq(Nodes)
  BY <1>1, <1>2
<1>4. Todo(n) \in Seq(Nodes)
  BY <1>3 DEF Todo, Items
<1>5. RootScope(n) \in ScopeType
      /\ [RootScope(n) EXCEPT !.symbols = Inserted(DeclaredBy(n))] \in ScopeType
  BY <1>2, InsertedNames, RootIs
<1>6. Scope(DeclaredBy(n)) \in ScopeType /\ Scope(N(n).declarations) \in ScopeType
      /\ Scope(DeclaredBy(Primary(n))) \in ScopeType
      /\ Scope(DeclaredBy(Primary(n)) \o N(n).declarations) \in ScopeType
  BY <1>1, <1>2, <1>3, ScopeIs
<1>7. \A a, b, c \in ScopeType : <<a>> \in Seq(ScopeType) /\ <<a, b>> \in Seq(ScopeType)
                                 /\ <<a, b, c>> \in Seq(ScopeType)
  OBVIOUS
<1>8. \/ IsA(n, {"entity"}) \/ IsA(n, {"package"}) \/ IsA(n, {"package_instantiation"})
      \/ IsA(n, {"architecture"}) \/ IsA(n, {"package_body"}) \/ IsA(n, {"block"})
      \/ IsA(n, Body)
  BY DEF IsA, Regions, Body
<1>9. Own(n) \in Seq(ScopeType)
  BY <1>5, <1>6, <1>7, <1>8, OwnIs
<1> QED
  BY <1>4, <1>9

(* The steps of the walk: into a region, past a node, out of a region. *)
Entered ==
  /\ Walking /\ IsA(Node, Regions)
  /\ frames' = Append(Passed, [node |-> Node, todo |-> Todo(Node), base |-> Len(scopes)])
  /\ scopes' = scopes \o Own(Node)
  /\ unit' = unit
  /\ \E found : Finds(found) /\ Record(found)
PassedBy ==
  /\ Walking /\ ~IsA(Node, Regions)
  /\ frames' = Passed
  /\ scopes' = scopes /\ unit' = unit
  /\ \E found : Finds(found) /\ Record(found)

LEMMA Entering ==
  ASSUME NEW own, NEW found, NEW todo, Walking, IsA(Node, Regions),
         frames' = Append(Passed, [node |-> Node, todo |-> todo, base |-> Len(scopes)]),
         scopes' = scopes \o own, unit' = unit, Record(found), Finds(found),
         own = Own(Node), todo = Todo(Node)
  PROVE  Entered
BY DEF Entered

LEMMA Chains ==
  ASSUME WalkInv, Walking
  PROVE  /\ IsChain(Chain(scopes))
         /\ IsA(Node, Regions) => IsChain(Chain(scopes \o Own(Node)))
<1>1. scopes \in Seq(ScopeType) /\ design \in Designs
  BY DEF WalkInv, Typed
<1>2. IsA(Node, Regions) => scopes \o Own(Node) \in Seq(ScopeType)
  <2> HAVE IsA(Node, Regions)
  <2>1. Own(Node) \in Seq(ScopeType)
    BY <1>1, NodeIs, OwnType
  <2> QED
    BY <1>1, <2>1
<1> QED
  BY <1>1, <1>2, ChainType

LEMMA ResolveEntityEnters ==
  ASSUME WalkInv, ResolveEntity
  PROVE  Entered
<1> DEFINE outside == Chain(scopes)
           own == Own(Node)
           inside == Chain(scopes \o own)
<1>1. Walking /\ IsA(Node, {"entity"}) /\ IsA(Node, Regions)
  BY DEF ResolveEntity, At, IsA, Regions
<1>2. design \in Designs /\ Node \in Nodes /\ IsChain(outside) /\ IsChain(inside)
  BY <1>1, Chains, NodeIs DEF WalkInv, Typed
<1>3. own = <<[RootScope(Node) EXCEPT !.symbols = Inserted(DeclaredBy(Node))]>>
  BY <1>1, OwnIs
<1>4. Todo(Node) = Items(Node)
  BY <1>1 DEF Todo, IsA
<1>5. /\ frames' = Append(Passed, [node |-> Node, todo |-> Todo(Node), base |-> Len(scopes)])
      /\ scopes' = scopes \o own /\ unit' = unit
      /\ Record(InterfacesFound(inside, Node))
  BY <1>3, <1>4 DEF ResolveEntity, Enter
<1>6. Finds(InterfacesFound(inside, Node))
  BY <1>2, FindsInterfaces
<1> QED
  BY <1>1, <1>5, <1>6, Entering

LEMMA ResolvePackageEnters ==
  ASSUME WalkInv, ResolvePackage
  PROVE  Entered
<1> DEFINE outside == Chain(scopes)
           own == Own(Node)
           inside == Chain(scopes \o own)
<1>1. Walking /\ IsA(Node, {"package"}) /\ IsA(Node, Regions)
  BY DEF ResolvePackage, At, IsA, Regions
<1>2. design \in Designs /\ Node \in Nodes /\ IsChain(outside) /\ IsChain(inside)
  BY <1>1, Chains, NodeIs DEF WalkInv, Typed
<1>3. own = <<RootScope(Node), Scope(DeclaredBy(Node))>>
  BY <1>1, OwnIs
<1>4. Todo(Node) = Items(Node)
  BY <1>1 DEF Todo, IsA
<1>5. /\ frames' = Append(Passed, [node |-> Node, todo |-> Todo(Node), base |-> Len(scopes)])
      /\ scopes' = scopes \o own /\ unit' = unit
      /\ Record(InterfacesFound(inside, Node) ++ ActualsFound(inside, inside, Node))
  BY <1>3, <1>4 DEF ResolvePackage, Enter
<1>6. Finds(InterfacesFound(inside, Node) ++ ActualsFound(inside, inside, Node))
  BY <1>2, FindsInterfaces, FindsActuals, FindsBoth
<1> QED
  BY <1>1, <1>5, <1>6, Entering

LEMMA ResolvePackageInstantiationEnters ==
  ASSUME WalkInv, ResolvePackageInstantiation
  PROVE  Entered
<1> DEFINE outside == Chain(scopes)
           own == Own(Node)
           inside == Chain(scopes \o own)
           p == FindUnit("package", N(Node).lib, N(Node).of)
<1>1. Walking /\ IsA(Node, {"package_instantiation"}) /\ IsA(Node, Regions)
  BY DEF ResolvePackageInstantiation, At, IsA, Regions
<1>2. design \in Designs /\ Node \in Nodes /\ IsChain(outside) /\ IsChain(inside)
  BY <1>1, Chains, NodeIs DEF WalkInv, Typed
<1>3. own = <<RootScope(Node)>>
  BY <1>1, OwnIs
<1>4. Todo(Node) = <<>>
  BY <1>1 DEF Todo, IsA
<1>5. /\ frames' = Append(Passed, [node |-> Node, todo |-> Todo(Node), base |-> Len(scopes)])
      /\ scopes' = scopes \o own /\ unit' = unit
      /\ Record(UnitFound(Node, p) ++ ActualsFound(inside, inside, Node)
             ++ FormalsFound(FormalScope(N(Node).lib, InterfacesOf(p)), Node))
  BY <1>3, <1>4 DEF ResolvePackageInstantiation, Enter
<1>6. Finds(UnitFound(Node, p) ++ ActualsFound(inside, inside, Node)
              ++ FormalsFound(FormalScope(N(Node).lib, InterfacesOf(p)), Node))
  <2>1. p \in Nodes \cup {None}
    BY <1>2, UnitIsNode
  <2>2. UnitSlots(Node) # {}
    BY <1>1 DEF UnitSlots, IsA
  <2> HIDE DEF p, inside
  <2>3. IsChain(FormalScope(N(Node).lib, InterfacesOf(p)))
    BY <1>2, <2>1, DeclaredAre, FormalChain
  <2>4. Finds(UnitFound(Node, p))
    BY <1>2, <2>1, <2>2, FindsUnit
  <2>5. Finds(ActualsFound(inside, inside, Node))
        /\ Finds(FormalsFound(FormalScope(N(Node).lib, InterfacesOf(p)), Node))
    BY <1>2, <2>3, FindsActuals, FindsFormals
  <2> QED
    BY <2>4, <2>5, FindsBoth
<1> QED
  BY <1>1, <1>5, <1>6, Entering

LEMMA ResolveArchitectureEnters ==
  ASSUME WalkInv, ResolveArchitecture
  PROVE  Entered
<1> DEFINE outside == Chain(scopes)
           own == Own(Node)
           inside == Chain(scopes \o own)
<1>1. Walking /\ IsA(Node, {"architecture"}) /\ IsA(Node, Regions)
  BY DEF ResolveArchitecture, At, IsA, Regions
<1>2. design \in Designs /\ Node \in Nodes /\ IsChain(outside) /\ IsChain(inside)
  BY <1>1, Chains, NodeIs DEF WalkInv, Typed
<1>3. own = <<RootScope(Node), Scope(DeclaredBy(Primary(Node))), Scope(N(Node).declarations)>>
  BY <1>1, OwnIs
<1>4. Todo(Node) = Items(Node)
  BY <1>1 DEF Todo, IsA
<1>5. /\ frames' = Append(Passed, [node |-> Node, todo |-> Todo(Node), base |-> Len(scopes)])
      /\ scopes' = scopes \o own /\ unit' = unit
      /\ Record(UnitFound(Node, Primary(Node)))
  BY <1>3, <1>4 DEF ResolveArchitecture, Enter
<1>6. Finds(UnitFound(Node, Primary(Node)))
  <2>1. UnitSlots(Node) # {}
    BY <1>1 DEF UnitSlots, IsA
  <2> QED
    BY <1>2, <2>1, PrimaryIsNode, FindsUnit
<1> QED
  BY <1>1, <1>5, <1>6, Entering

LEMMA ResolvePackageBodyEnters ==
  ASSUME WalkInv, ResolvePackageBody
  PROVE  Entered
<1> DEFINE outside == Chain(scopes)
           own == Own(Node)
           inside == Chain(scopes \o own)
<1>1. Walking /\ IsA(Node, {"package_body"}) /\ IsA(Node, Regions)
  BY DEF ResolvePackageBody, At, IsA, Regions
<1>2. design \in Designs /\ Node \in Nodes /\ IsChain(outside) /\ IsChain(inside)
  BY <1>1, Chains, NodeIs DEF WalkInv, Typed
<1>3. own = <<RootScope(Node), Scope(DeclaredBy(Primary(Node)) \o N(Node).declarations)>>
  BY <1>1, OwnIs
<1>4. Todo(Node) = Items(Node)
  BY <1>1 DEF Todo, IsA
<1>5. /\ frames' = Append(Passed, [node |-> Node, todo |-> Todo(Node), base |-> Len(scopes)])
      /\ scopes' = scopes \o own /\ unit' = unit
      /\ Record(UnitFound(Node, Primary(Node)))
  BY <1>3, <1>4 DEF ResolvePackageBody, Enter
<1>6. Finds(UnitFound(Node, Primary(Node)))
  <2>1. UnitSlots(Node) # {}
    BY <1>1 DEF UnitSlots, IsA
  <2> QED
    BY <1>2, <2>1, PrimaryIsNode, FindsUnit
<1> QED
  BY <1>1, <1>5, <1>6, Entering

LEMMA ResolveBlockStatementEnters ==
  ASSUME WalkInv, ResolveBlockStatement
  PROVE  Entered
<1> DEFINE outside == Chain(scopes)
           own == Own(Node)
           inside == Chain(scopes \o own)
<1>1. Walking /\ IsA(Node, {"block"}) /\ IsA(Node, Regions)
  BY DEF ResolveBlockStatement, At, IsA, Regions
<1>2. design \in Designs /\ Node \in Nodes /\ IsChain(outside) /\ IsChain(inside)
  BY <1>1, Chains, NodeIs DEF WalkInv, Typed
<1>3. own = <<Scope(DeclaredBy(Node))>>
  BY <1>1, OwnIs
<1>4. Todo(Node) = Items(Node)
  BY <1>1 DEF Todo, IsA
<1>5. /\ frames' = Append(Passed, [node |-> Node, todo |-> Todo(Node), base |-> Len(scopes)])
      /\ scopes' = scopes \o own /\ unit' = unit
      /\ Record(NamesFound(outside, {Node}, "outer") ++ InterfacesFound(inside, Node)
                  ++ ActualsFound(outside, inside, Node) ++ FormalsFound(inside, Node))
  BY <1>3, <1>4 DEF ResolveBlockStatement, Enter
<1>6. Finds(NamesFound(outside, {Node}, "outer") ++ InterfacesFound(inside, Node)
              ++ ActualsFound(outside, inside, Node) ++ FormalsFound(inside, Node))
  <2> HIDE DEF outside, inside
  <2>1. Finds(NamesFound(outside, {Node}, "outer"))
    BY <1>2, FindsNames DEF Parts
  <2>2. Finds(InterfacesFound(inside, Node))
    BY <1>2, FindsInterfaces
  <2>3. Finds(ActualsFound(outside, inside, Node)) /\ Finds(FormalsFound(inside, Node))
    BY <1>2, FindsActuals, FindsFormals
  <2> QED
    BY <2>1, <2>2, <2>3, FindsBoth
<1> QED
  BY <1>1, <1>5, <1>6, Entering

LEMMA ResolveGenerateBodyEnters ==
  ASSUME WalkInv, ResolveGenerateBody
  PROVE  Entered
<1> DEFINE outside == Chain(scopes)
           own == Own(Node)
           inside == Chain(scopes \o own)
<1>1. Walking /\ IsA(Node, {"generate"}) /\ IsA(Node, Regions)
  BY DEF ResolveGenerateBody, At, IsA, Regions
<1>2. design \in Designs /\ Node \in Nodes /\ IsChain(outside) /\ IsChain(inside)
  BY <1>1, Chains, NodeIs DEF WalkInv, Typed
<1>3. own = <<Scope(N(Node).declarations)>>
  BY <1>1, OwnIs DEF Body, IsA
<1>4. Todo(Node) = Items(Node)
  BY <1>1 DEF Todo, IsA
<1>5. /\ frames' = Append(Passed, [node |-> Node, todo |-> Todo(Node), base |-> Len(scopes)])
      /\ scopes' = scopes \o own /\ unit' = unit
      /\ Record(NamesFound(outside, {Node}, "outer"))
  BY <1>3, <1>4 DEF ResolveGenerateBody, Enter
<1>6. Finds(NamesFound(outside, {Node}, "outer"))
  BY <1>2, FindsNames DEF Parts
<1> QED
  BY <1>1, <1>5, <1>6, Entering

LEMMA ResolveProcessEnters ==
  ASSUME WalkInv, ResolveProcess
  PROVE  Entered
<1> DEFINE outside == Chain(scopes)
           own == Own(Node)
           inside == Chain(scopes \o own)
<1>1. Walking /\ IsA(Node, {"process"}) /\ IsA(Node, Regions)
  BY DEF ResolveProcess, At, IsA, Regions
<1>2. design \in Designs /\ Node \in Nodes /\ IsChain(outside) /\ IsChain(inside)
  BY <1>1, Chains, NodeIs DEF WalkInv, Typed
<1>3. own = <<Scope(N(Node).declarations)>>
  BY <1>1, OwnIs DEF Body, IsA
<1>4. Todo(Node) = Items(Node)
  BY <1>1 DEF Todo, IsA
<1>5. /\ frames' = Append(Passed, [node |-> Node, todo |-> Todo(Node), base |-> Len(scopes)])
      /\ scopes' = scopes \o own /\ unit' = unit
      /\ Record(NamesFound(outside, {Node}, "outer"))
  BY <1>3, <1>4 DEF ResolveProcess, Enter
<1>6. Finds(NamesFound(outside, {Node}, "outer"))
  BY <1>2, FindsNames DEF Parts
<1> QED
  BY <1>1, <1>5, <1>6, Entering

LEMMA ResolveSubprogramBodyEnters ==
  ASSUME WalkInv, ResolveSubprogramBody
  PROVE  Entered
<1> DEFINE outside == Chain(scopes)
           own == Own(Node)
           inside == Chain(scopes \o own)
<1>1. Walking /\ IsA(Node, {"subprogram_body"}) /\ IsA(Node, Regions)
  BY DEF ResolveSubprogramBody, At, IsA, Regions
<1>2. design \in Designs /\ Node \in Nodes /\ IsChain(outside) /\ IsChain(inside)
  BY <1>1, Chains, NodeIs DEF WalkInv, Typed
<1>3. own = <<Scope(N(Node).declarations)>>
  BY <1>1, OwnIs DEF Body, IsA
<1>4. Todo(Node) = Items(Node)
  BY <1>1 DEF Todo, IsA
<1>5. /\ frames' = Append(Passed, [node |-> Node, todo |-> Todo(Node), base |-> Len(scopes)])
      /\ scopes' = scopes \o own /\ unit' = unit
      /\ Record(NamesFound(outside, {N(Node).specification}, "names")
                  ++ InterfacesFound(outside, N(Node).specification))
  BY <1>3, <1>4 DEF ResolveSubprogramBody, Enter
<1>6. Finds(NamesFound(outside, {N(Node).specification}, "names")
              ++ InterfacesFound(outside, N(Node).specification))
  <2>1. N(Node).specification \in Nodes
    BY <1>1, <1>2, NodeFacts DEF IsA
  <2>2. Finds(NamesFound(outside, {N(Node).specification}, "names"))
    BY <1>2, <2>1, FindsNames DEF Parts
  <2>3. Finds(InterfacesFound(outside, N(Node).specification))
    BY <1>2, <2>1, FindsInterfaces
  <2> QED
    BY <2>2, <2>3, FindsBoth
<1> QED
  BY <1>1, <1>5, <1>6, Entering

LEMMA Passing ==
  ASSUME NEW found, NEW kinds, Walking, IsA(Node, kinds), kinds \cap Regions = {},
         frames' = Passed, scopes' = scopes, unit' = unit, Record(found), Finds(found)
  PROVE  PassedBy
BY DEF PassedBy, IsA

LEMMA ResolveDeclarationPasses ==
  ASSUME WalkInv, ResolveDeclaration
  PROVE  PassedBy
<1> DEFINE chain == Chain(scopes)
           kinds == {"signal", "component", "subprogram_declaration", "attribute_specification",
                     "disconnection_specification", "use_clause"}
           found == IF IsA(Node, {"use_clause"}) THEN <<>>
                    ELSE NamesFound(chain, {Node}, "names") ++ InterfacesFound(chain, Node)
<1>1. Walking /\ IsA(Node, kinds) /\ kinds \cap Regions = {}
  BY DEF ResolveDeclaration, At, Regions
<1>2. design \in Designs /\ Node \in Nodes /\ IsChain(chain)
  BY <1>1, Chains, NodeIs DEF WalkInv, Typed
<1>3. frames' = Passed /\ scopes' = scopes /\ unit' = unit /\ Record(found)
  BY DEF ResolveDeclaration, PassBy
<1>4. Finds(found)
  <2> HIDE DEF chain
  <2>1. Finds(NamesFound(chain, {Node}, "names"))
    BY <1>2, FindsNames DEF Parts
  <2>2. Finds(InterfacesFound(chain, Node))
    BY <1>2, FindsInterfaces
  <2> QED
    BY <2>1, <2>2, FindsBoth, FindsNothing
<1> HIDE DEF kinds, found
<1> QED
  BY <1>1, <1>3, <1>4, Passing

LEMMA ResolveStatementPasses ==
  ASSUME WalkInv, ResolveStatement
  PROVE  PassedBy
<1> DEFINE chain == Chain(scopes)
           kinds == {"statement"}
           found == NamesFound(chain, {Node}, "names")
<1>1. Walking /\ IsA(Node, kinds) /\ kinds \cap Regions = {}
  BY DEF ResolveStatement, At, Regions
<1>2. design \in Designs /\ Node \in Nodes /\ IsChain(chain)
  BY <1>1, Chains, NodeIs DEF WalkInv, Typed
<1>3. frames' = Passed /\ scopes' = scopes /\ unit' = unit /\ Record(found)
  BY DEF ResolveStatement, PassBy
<1>4. Finds(found)
  BY <1>2, FindsNames DEF Parts
<1> HIDE DEF kinds, found
<1> QED
  BY <1>1, <1>3, <1>4, Passing

LEMMA ResolveConfigurationSpecificationPasses ==
  ASSUME WalkInv, ResolveConfigurationSpecification
  PROVE  PassedBy
<1> DEFINE chain == Chain(scopes)
           kinds == {"configuration_specification"}
           found == ComponentFound(chain, Node) ++ BindingFound(chain, Node)
<1>1. Walking /\ IsA(Node, kinds) /\ kinds \cap Regions = {}
  BY DEF ResolveConfigurationSpecification, At, Regions
<1>2. design \in Designs /\ Node \in Nodes /\ IsChain(chain)
  BY <1>1, Chains, NodeIs DEF WalkInv, Typed
<1>3. frames' = Passed /\ scopes' = scopes /\ unit' = unit /\ Record(found)
  BY DEF ResolveConfigurationSpecification, PassBy
<1>4. Finds(found)
  <2>1. ComponentSlots(Node) # {}
    BY <1>1 DEF ComponentSlots, IsA
  <2> HIDE DEF chain
  <2>2. Finds(ComponentFound(chain, Node)) /\ Finds(BindingFound(chain, Node))
    BY <1>2, <2>1, FindsComponent, FindsBinding
  <2> QED
    BY <2>2, FindsBoth
<1> HIDE DEF kinds, found
<1> QED
  BY <1>1, <1>3, <1>4, Passing

LEMMA ResolveEntityInstantiationPasses ==
  ASSUME WalkInv, ResolveEntityInstantiation
  PROVE  PassedBy
<1> DEFINE chain == Chain(scopes)
           kinds == {"entity_instantiation"}
           e == FindUnit("entity", Lib(chain), N(Node).of)
           found == UnitFound(Node, e) ++ AssociationsFound(chain, Node, e, None)
<1>1. Walking /\ IsA(Node, kinds) /\ kinds \cap Regions = {}
  BY DEF ResolveEntityInstantiation, At, Regions
<1>2. design \in Designs /\ Node \in Nodes /\ IsChain(chain)
  BY <1>1, Chains, NodeIs DEF WalkInv, Typed
<1>3. frames' = Passed /\ scopes' = scopes /\ unit' = unit /\ Record(found)
  BY DEF ResolveEntityInstantiation, PassBy
<1>4. Finds(found)
  <2>1. UnitSlots(Node) # {}
    BY <1>1 DEF UnitSlots, IsA, Instantiations
  <2>2. e \in Nodes \cup {None}
    BY <1>2, UnitIsNode
  <2> HIDE DEF chain, e
  <2>3. Finds(UnitFound(Node, e))
    BY <1>2, <2>1, <2>2, FindsUnit
  <2>4. Finds(AssociationsFound(chain, Node, e, None))
    BY <1>2, <2>2, FindsAssociations
  <2> QED
    BY <2>3, <2>4, FindsBoth
<1> HIDE DEF kinds, found
<1> QED
  BY <1>1, <1>3, <1>4, Passing

(* A specification that matches is a node, and what an instance is bound to *)
(* is one or nothing.                                                       *)
LEMMA MatchingNodes ==
  ASSUME NEW chain \in Seq(ScopeType), NEW n
  PROVE  Matching(chain, n) # <<>> =>
           Matching(chain, n)[1] \in Nodes /\ Matching(chain, n)[1] \in Specs
<1> DEFINE lists == [k \in DOMAIN chain |-> chain[k].specs]
<1>1. \A t \in ScopeType : t.specs \in Seq(Specs)
  BY DEF ScopeType
<1>2. Len(chain) \in Nat /\ DOMAIN chain = 1..Len(chain)
      /\ \A k \in DOMAIN chain : chain[k] \in ScopeType
  OBVIOUS
<1> DEFINE W == Seq(Specs)
<1>3. \A k \in DOMAIN chain : chain[k].specs \in W
  BY <1>1, <1>2
<1> HIDE DEF W
<1>4. lists \in Seq(W)
  BY <1>2, <1>3
<1> HIDE DEF lists
<1>5. FlattenSeq(lists) \in Seq(Specs)
  BY <1>4, FlattenedIsSeq DEF W
<1>6. Matching(chain, n) \in Seq(Specs)
  BY <1>5, AmongKeeps DEF Matching, lists
<1>7. \A s \in Seq(Specs) : s # <<>> => s[1] \in Specs
  <2> TAKE s \in Seq(Specs)
  <2> HAVE s # <<>>
  <2>1. Len(s) \in Nat /\ Len(s) # 0
    OBVIOUS
  <2>2. 1 \in 1..Len(s)
    BY <2>1
  <2> QED
    BY <2>2
<1>8. Specs \subseteq Nodes
  BY DEF Specs, OfKind
<1> QED
  BY <1>6, <1>7, <1>8

LEMMA NodeOfRef ==
  ASSUME NEW r \in Ref \cup {None}
  PROVE  NodeOf(r) \in Nodes \cup {None}
BY RefsAre DEF NodeOf

LEMMA MeantIs ==
  ASSUME NEW found \in Seq(Ref)
  PROVE  Meant(found) \in Ref \cup {None}
<1>1. CASE Len(found) = 1
  <2>1. 1 \in 1..Len(found)
    BY <1>1
  <2>2. found[1] \in Ref
    BY <2>1
  <2> QED
    BY <2>2 DEF Meant
<1>2. CASE Len(found) # 1
  BY <1>2 DEF Meant
<1> QED
  BY <1>1, <1>2

LEMMA BoundIsNode ==
  ASSUME Typed, NEW chain, NEW n \in Nodes, IsA(n, {"component_instantiation"})
  PROVE  BoundEntity(chain, n) \in Nodes \cup {None}
<1> DEFINE matching == Matching(chain, n)
           left == NodeOf(refs[<<n, "unit", 0>>])
           bound == FindUnit("entity", Lib(chain), N(matching[1]).target)
<1>1. <<n, "unit", 0>> \in Slots
  <2>1. <<n, "unit", 0>> \in UnitSlots(n)
    BY DEF UnitSlots, IsA, Instantiations
  <2> QED
    BY <2>1 DEF Slots, SlotsOf
<1>2. left \in Nodes \cup {None}
  BY <1>1, NodeOfRef DEF Typed
<1>3. bound \in Nodes \cup {None}
  BY UnitIsNode DEF Typed
<1>4. BoundEntity(chain, n) =
        CASE matching = <<>> -> left
          [] matching # <<>> /\ N(matching[1]).aspect = "entity" -> bound
          [] OTHER -> None
  BY DEF BoundEntity
<1> HIDE DEF left, bound, matching
<1>5. BoundEntity(chain, n) \in {left, bound, None}
  BY <1>4
<1> QED
  BY <1>2, <1>3, <1>5

LEMMA ResolveComponentInstantiationPasses ==
  ASSUME WalkInv, ResolveComponentInstantiation
  PROVE  PassedBy
<1> DEFINE chain == Chain(scopes)
           kinds == {"component_instantiation"}
           e == BoundEntity(chain, Node)
           c == NodeOf(Meant(AsComponent(Lookup(chain, N(Node).of))))
           found == ComponentFound(chain, Node) ++ UnitFound(Node, e)
                      ++ MatchingBindingFound(chain, Node)
                      ++ AssociationsFound(chain, Node, e, c)
<1>1. Walking /\ IsA(Node, kinds) /\ kinds \cap Regions = {}
  BY DEF ResolveComponentInstantiation, At, Regions
<1>2. design \in Designs /\ Node \in Nodes /\ IsChain(chain) /\ Typed
      /\ chain \in Seq(ScopeType)
  BY <1>1, Chains, NodeIs, ChainType DEF WalkInv, Typed
<1>3. frames' = Passed /\ scopes' = scopes /\ unit' = unit /\ Record(found)
  BY DEF ResolveComponentInstantiation, PassBy
<1>4. Finds(found)
  <2>1. UnitSlots(Node) # {} /\ ComponentSlots(Node) # {}
    BY <1>1 DEF UnitSlots, ComponentSlots, IsA, Instantiations
  <2>2. e \in Nodes \cup {None}
    BY <1>1, <1>2, BoundIsNode
  <2>3. c \in Nodes \cup {None}
    <3>1. Lookup(chain, N(Node).of) \in Seq(Ref) /\ <<>> \in Seq(Ref)
      BY <1>2, LookupType
    <3>2. AsComponent(Lookup(chain, N(Node).of)) \in Seq(Ref)
      BY <3>1 DEF AsComponent
    <3> QED
      BY <3>2, MeantIs, NodeOfRef
  <2>4. Finds(MatchingBindingFound(chain, Node))
    <3>1. CASE Matching(chain, Node) = <<>>
      BY <3>1, FindsNothing DEF MatchingBindingFound
    <3>2. CASE Matching(chain, Node) # <<>>
      <4>1. Matching(chain, Node)[1] \in Nodes
        BY <1>2, <3>2, MatchingNodes
      <4>2. Finds(BindingFound(chain, Matching(chain, Node)[1]))
        BY <1>2, <4>1, FindsBinding
      <4> QED
        BY <3>2, <4>2 DEF MatchingBindingFound
    <3> QED
      BY <3>1, <3>2
  <2> HIDE DEF chain, e, c
  <2>5. Finds(ComponentFound(chain, Node))
    BY <1>2, <2>1, FindsComponent
  <2>6. Finds(UnitFound(Node, e))
    BY <1>2, <2>1, <2>2, FindsUnit
  <2>7. Finds(AssociationsFound(chain, Node, e, c))
    BY <1>2, <2>2, <2>3, FindsAssociations
  <2> QED
    BY <2>4, <2>5, <2>6, <2>7, FindsBoth
<1> HIDE DEF kinds, found
<1> QED
  BY <1>1, <1>3, <1>4, Passing

LEMMA ResolveCases ==
  ASSUME WalkInv, Resolve
  PROVE  Entered \/ PassedBy \/ Leave \/ Link
BY ResolveEntityEnters, ResolvePackageEnters, ResolvePackageInstantiationEnters,
   ResolveArchitectureEnters, ResolvePackageBodyEnters, ResolveBlockStatementEnters,
   ResolveGenerateBodyEnters, ResolveProcessEnters, ResolveSubprogramBodyEnters,
   ResolveDeclarationPasses, ResolveStatementPasses,
   ResolveConfigurationSpecificationPasses, ResolveEntityInstantiationPasses,
   ResolveComponentInstantiationPasses
   DEF Resolve

--------------------------------------------------------------------------------
(* Every step keeps the invariant of the walk. *)
LEMMA RecordType ==
  ASSUME Typed, NEW found, Finds(found), Record(found)
  PROVE  /\ refs' \in [Slots -> Ref \cup {None}] /\ ambiguous' \subseteq Slots
         /\ design' = design /\ runs' = runs
<1>1. DOMAIN refs = Slots /\ \A s \in Slots : refs[s] \in Ref \cup {None}
  BY DEF Typed
<1>2. refs' = [s \in Slots |-> IF s \in DOMAIN found THEN Meant(found[s]) ELSE refs[s]]
  BY <1>1 DEF Record
<1>3. \A s \in DOMAIN found : Meant(found[s]) \in Ref \cup {None}
  BY MeantIs DEF Finds
<1>4. refs' \in [Slots -> Ref \cup {None}]
  BY <1>1, <1>2, <1>3
<1>5. ambiguous' \subseteq Slots
  BY DEF Record, Finds, Typed
<1> QED
  BY <1>4, <1>5 DEF Record

LEMMA SlotNode ==
  ASSUME NEW s \in Slots
  PROVE  s[1] \in Nodes /\ s \in SlotsOf(s[1])
<1>1. PICK n \in Nodes : s \in SlotsOf(n)
  BY DEF Slots
<1>2. s[1] = n
  <2>1. \A p, q : <<n, p, q>>[1] = n
    OBVIOUS
  <2>2. \E p, q : s = <<n, p, q>>
    BY <1>1 DEF SlotsOf, NameSlots, UnitSlots, ComponentSlots, Numbered
  <2> QED
    BY <2>1, <2>2
<1> QED
  BY <1>1, <1>2

LEMMA WalkInit ==
  ASSUME Init
  PROVE  WalkInv
<1>1. design \in Designs
  BY DEF Init
<1>2. Len(Order) \in Nat
  BY <1>1, OrderIs
<1>3. frames = <<>> /\ scopes = <<>> /\ unit = 0 /\ ambiguous = {} /\ runs = 0
      /\ refs = [s \in Slots |-> None]
  BY DEF Init, Slots
<1>4. Typed
  BY <1>1, <1>2, <1>3, RunsAssumption DEF Typed
<1>5. Stacked
  BY <1>3 DEF Stacked
<1> QED
  BY <1>4, <1>5 DEF WalkInv

LEMMA EnterKeeps ==
  ASSUME WalkInv, Entered
  PROVE  WalkInv'
<1> DEFINE m == Len(frames)
           frame == [node |-> Node, todo |-> Todo(Node), base |-> Len(scopes)]
           passed == Passed
           own == Own(Node)
<1>1. Walking /\ IsA(Node, Regions) /\ frames' = Append(passed, frame)
      /\ scopes' = scopes \o own /\ unit' = unit
  BY DEF Entered
<1>2. PICK found : Finds(found) /\ Record(found)
  BY DEF Entered
<1>3. Typed
  BY DEF WalkInv
<1>4. /\ refs' \in [Slots -> Ref \cup {None}] /\ ambiguous' \subseteq Slots
      /\ design' = design /\ runs' = runs
  BY <1>2, <1>3, RecordType
<1>5. /\ Node \in Nodes /\ unit \in 1..Len(Order) /\ passed \in Seq(FrameType)
      /\ Len(passed) = m
      /\ \A k \in 1..m : passed[k].base = frames[k].base
  BY <1>1, NodeIs
<1>6. own \in Seq(ScopeType) /\ Todo(Node) \in Seq(Nodes)
  BY <1>1, <1>3, <1>5, OwnType DEF Typed
<1>7. scopes \in Seq(ScopeType) /\ frames \in Seq(FrameType)
  BY <1>3 DEF Typed
<1> HIDE DEF passed, own
<1>8. frame \in FrameType /\ frame.base = Len(scopes)
  BY <1>5, <1>6, <1>7 DEF FrameType
<1> HIDE DEF frame
<1>9. scopes' \in Seq(ScopeType) /\ Len(scopes') = Len(scopes) + Len(own)
  BY <1>1, <1>6, <1>7
<1>10. frames' \in Seq(FrameType) /\ Len(frames') = m + 1
       /\ \A k \in 1..(m + 1) : frames'[k].base = IF k = m + 1 THEN Len(scopes) ELSE frames[k].base
  <2>1. frames' \in Seq(FrameType) /\ Len(frames') = m + 1
    BY <1>1, <1>5, <1>8
  <2>2. \A k \in 1..(m + 1) : frames'[k] = IF k = m + 1 THEN frame ELSE passed[k]
    BY <1>1, <1>5
  <2>3. \A k \in 1..(m + 1) : k = m + 1 \/ k \in 1..m
    BY <1>7
  <2> QED
    BY <1>5, <1>8, <2>1, <2>2, <2>3
<1>11. Typed'
  BY <1>1, <1>3, <1>4, <1>9, <1>10, Fixed DEF Typed
<1>12. Stacked'
  <2>1. m \in Nat /\ Len(scopes) \in Nat /\ Len(own) \in Nat
    BY <1>6, <1>7
  <2>2. \A k \in 1..m : frames[k].base <= Len(scopes) /\ frames[k].base \in Nat
    <3>1. \A f \in FrameType : f.base \in Nat
      BY DEF FrameType
    <3>2. \A k \in 1..m : frames[k] \in FrameType
      BY <1>7
    <3> QED
      BY <3>1, <3>2 DEF WalkInv, Stacked
  <2>3. \A j, k \in 1..m : j <= k => frames[j].base <= frames[k].base
    BY DEF WalkInv, Stacked
  <2>4. unit' \in 1..Len(Order')
    BY <1>1, <1>4, <1>5, Fixed
  <2>5. ASSUME NEW k \in 1..(m + 1) PROVE frames'[k].base <= Len(scopes')
    BY <1>9, <1>10, <2>1, <2>2
  <2>6. ASSUME NEW j \in 1..(m + 1), NEW k \in 1..(m + 1), j <= k
        PROVE  frames'[j].base <= frames'[k].base
    <3>1. CASE k = m + 1
      <4>1. frames'[k].base = Len(scopes)
        BY <1>10, <3>1
      <4>2. CASE j = m + 1
        BY <1>10, <2>1, <3>1, <4>2
      <4>3. CASE j # m + 1
        <5>1. j \in 1..m
          BY <2>1, <4>3
        <5> QED
          BY <1>10, <2>2, <4>1, <4>3, <5>1
      <4> QED
        BY <4>2, <4>3
    <3>2. CASE k # m + 1
      <4>1. j \in 1..m /\ k \in 1..m /\ j # m + 1
        BY <2>1, <2>6, <3>2
      <4> QED
        BY <1>10, <2>3, <2>6, <3>2, <4>1
    <3> QED
      BY <3>1, <3>2
  <2> HIDE DEF m
  <2> QED
    BY <1>10, <2>4, <2>5, <2>6 DEF Stacked
<1> QED
  BY <1>11, <1>12 DEF WalkInv

LEMMA PassKeeps ==
  ASSUME WalkInv, PassedBy
  PROVE  WalkInv'
<1>1. Walking /\ frames' = Passed /\ scopes' = scopes /\ unit' = unit
  BY DEF PassedBy
<1>2. PICK found : Finds(found) /\ Record(found)
  BY DEF PassedBy
<1>3. Typed /\ Stacked
  BY DEF WalkInv
<1>4. /\ refs' \in [Slots -> Ref \cup {None}] /\ ambiguous' \subseteq Slots
      /\ design' = design /\ runs' = runs
  BY <1>2, <1>3, RecordType
<1>5. /\ frames' \in Seq(FrameType) /\ Len(frames') = Len(frames)
      /\ unit \in 1..Len(Order)
      /\ \A k \in 1..Len(frames) : frames'[k].base = frames[k].base
  BY <1>1, NodeIs
<1>6. Typed'
  BY <1>1, <1>3, <1>4, <1>5, Fixed DEF Typed
<1>7. Stacked'
  BY <1>1, <1>3, <1>4, <1>5, Fixed DEF Stacked
<1> QED
  BY <1>6, <1>7 DEF WalkInv

LEMMA LeaveKeeps ==
  ASSUME WalkInv, Leave
  PROVE  /\ WalkInv' /\ design' = design
         /\ Len(frames') = Len(frames) - 1
         /\ \A k \in 1..(Len(frames) - 1) : frames'[k] = frames[k]
         /\ scopes' = SubSeq(scopes, 1, frames[Len(frames)].base)
         /\ frames[Len(frames)].base \in 0..Len(scopes)
<1> DEFINE m == Len(frames)
           b == frames[m].base
<1>1. Typed /\ Stacked
  BY DEF WalkInv
<1>2. frames \in Seq(FrameType) /\ scopes \in Seq(ScopeType) /\ frames # <<>>
  BY <1>1 DEF Typed, Leave
<1>3. m \in Nat /\ m # 0 /\ m \in 1..m /\ frames[m] \in FrameType
  BY <1>2
<1>4. b \in Nat /\ b <= Len(scopes) /\ Len(scopes) \in Nat /\ b \in 0..Len(scopes)
  BY <1>1, <1>2, <1>3 DEF Stacked, FrameType
<1>5. scopes' = SubSeq(scopes, 1, b) /\ frames' = SubSeq(frames, 1, m - 1)
  BY DEF Leave, Here, Front
<1>6. unit' = IF m = 1 THEN unit + 1 ELSE unit
  BY DEF Leave
<1>7. design' = design /\ refs' = refs /\ ambiguous' = ambiguous /\ runs' = runs
  BY DEF Leave
<1>8. unit \in 1..Len(Order) /\ Len(Order) \in Nat
  BY <1>1, <1>2, OrderIs DEF Stacked, Typed
<1> HIDE DEF b, m
<1>9. scopes' \in Seq(ScopeType) /\ Len(scopes') = b
  BY <1>2, <1>4, <1>5
<1>10. frames' \in Seq(FrameType) /\ Len(frames') = m - 1
       /\ \A k \in 1..(m - 1) : frames'[k] = frames[k]
  <2>1. \A s \in Seq(FrameType) : \A i \in 0..Len(s) :
          /\ SubSeq(s, 1, i) \in Seq(FrameType) /\ Len(SubSeq(s, 1, i)) = i
          /\ \A k \in 1..i : SubSeq(s, 1, i)[k] = s[k]
    OBVIOUS
  <2>2. m - 1 \in 0..Len(frames)
    BY <1>3 DEF m
  <2> QED
    BY <1>2, <1>5, <2>1, <2>2
<1>11. unit' \in 0..(Len(Order) + 1)
  BY <1>6, <1>8
<1>12. Typed'
  BY <1>1, <1>7, <1>9, <1>10, <1>11, Fixed DEF Typed
<1>13. Stacked'
  <2>1. frames' # <<>> => unit' \in 1..Len(Order)
    <3> HAVE frames' # <<>>
    <3>1. m # 1
      BY <1>10
    <3> QED
      BY <1>6, <1>8, <3>1
  <2>2. \A k \in 1..(m - 1) : k \in 1..m /\ k <= m
    BY <1>3
  <2>3. \A k \in 1..(m - 1) : frames[k].base <= b
    BY <1>1, <1>3, <2>2 DEF Stacked, b, m
  <2>4. \A j, k \in 1..(m - 1) : j <= k => frames[j].base <= frames[k].base
    BY <1>1, <2>2 DEF Stacked, m
  <2>5. frames' # <<>> => unit' \in 1..Len(Order')
    BY <1>7, <2>1, Fixed
  <2>6. \A k \in 1..(m - 1) : frames'[k].base <= Len(scopes')
    BY <1>9, <1>10, <2>3
  <2>7. \A j, k \in 1..(m - 1) : j <= k => frames'[j].base <= frames'[k].base
    BY <1>10, <2>4
  <2> QED
    BY <1>10, <2>5, <2>6, <2>7 DEF Stacked
<1>14. WalkInv'
  BY <1>12, <1>13 DEF WalkInv
<1> QED
  BY <1>4, <1>5, <1>7, <1>10, <1>14 DEF b, m

LEMMA LinkedIs ==
  ASSUME Typed, NEW s \in Slots, IsA(s[1], {"component_instantiation"})
  PROVE  Linked(s[1]) \in Ref \cup {None}
<1> DEFINE n == s[1]
           e == FindUnit("entity", N(UnitOf(n)).lib, <<N(NodeOf(refs[<<n, "component", 0>>])).id>>)
<1>1. n \in Nodes
  BY SlotNode
<1>2. <<n, "unit", 0>> \in Slots
  <2>1. <<n, "unit", 0>> \in UnitSlots(n)
    BY DEF UnitSlots, IsA, Instantiations
  <2> QED
    BY <1>1, <2>1 DEF Slots, SlotsOf
<1>3. refs[<<n, "unit", 0>>] \in Ref \cup {None}
  BY <1>2 DEF Typed
<1>4. e \in Nodes \cup {None}
  BY UnitIsNode DEF Typed
<1>5. Linked(n) \in {Meant(Candidate(e)), refs[<<n, "unit", 0>>]}
  BY DEF Linked
<1> HIDE DEF n, e
<1>6. Meant(Candidate(e)) \in Ref \cup {None}
  BY <1>4, CandidateType, MeantIs
<1> QED
  BY <1>3, <1>5, <1>6 DEF n

LEMMA LinkKeeps ==
  ASSUME WalkInv, Link
  PROVE  WalkInv' /\ frames = <<>> /\ frames' = <<>>
<1>1. Typed /\ Stacked
  BY DEF WalkInv
<1>2. Len(Order) \in Nat
  BY <1>1, OrderIs DEF Typed
<1>3. frames = <<>>
  BY <1>1, <1>2 DEF Link, Stacked
<1>4. /\ unit' = 0 /\ design' = design /\ frames' = frames /\ scopes' = scopes
      /\ ambiguous' = ambiguous /\ runs' = runs
  BY DEF Link
<1>5. refs' \in [Slots -> Ref \cup {None}]
  <2>1. refs' = [s \in Slots |-> IF IsA(s[1], {"component_instantiation"}) /\ s[2] = "unit"
                                 THEN Linked(s[1]) ELSE refs[s]]
    BY <1>1 DEF Link, Typed
  <2>2. \A s \in Slots : refs[s] \in Ref \cup {None}
    BY <1>1 DEF Typed
  <2> QED
    BY <1>1, <2>1, <2>2, LinkedIs
<1>6. Typed'
  BY <1>1, <1>2, <1>4, <1>5, Fixed DEF Typed
<1>7. Stacked'
  BY <1>3, <1>4 DEF Stacked
<1> QED
  BY <1>3, <1>4, <1>6, <1>7 DEF WalkInv

LEMMA StartKeeps ==
  ASSUME WalkInv, ResolveReferences
  PROVE  WalkInv' /\ frames = <<>> /\ frames' = <<>>
<1>1. Typed /\ Stacked
  BY DEF WalkInv
<1>2. Len(Order) \in Nat
  BY <1>1, OrderIs DEF Typed
<1>3. frames = <<>>
  BY <1>1, <1>2 DEF ResolveReferences, Stacked
<1>4. /\ unit' = 1 /\ runs' = runs + 1 /\ runs < MaxRuns /\ design' = design
      /\ frames' = frames /\ scopes' = scopes /\ refs' = refs /\ ambiguous' = ambiguous
  BY DEF ResolveReferences
<1>5. runs' \in 0..MaxRuns
  BY <1>1, <1>4, RunsAssumption DEF Typed
<1>6. Typed'
  BY <1>1, <1>2, <1>4, <1>5, Fixed DEF Typed
<1>7. Stacked'
  BY <1>3, <1>4 DEF Stacked
<1> QED
  BY <1>3, <1>4, <1>6, <1>7 DEF WalkInv

LEMMA SameKeeps ==
  ASSUME WalkInv, UNCHANGED vars
  PROVE  WalkInv'
<1>1. Typed'
  BY Fixed DEF WalkInv, Typed, vars
<1>2. Stacked'
  BY Fixed DEF WalkInv, Stacked, vars
<1> QED
  BY <1>1, <1>2 DEF WalkInv

LEMMA WalkStep ==
  ASSUME WalkInv, [Next]_vars
  PROVE  WalkInv'
<1>1. CASE Resolve
  BY <1>1, ResolveCases, EnterKeeps, PassKeeps, LeaveKeeps, LinkKeeps
<1>2. CASE ResolveReferences
  BY <1>2, StartKeeps
<1>3. CASE Done \/ UNCHANGED vars
  BY <1>3, SameKeeps DEF Done
<1> QED
  BY <1>1, <1>2, <1>3 DEF Next

LEMMA WalkInvariant == Spec => []WalkInv
<1>1. Init => WalkInv
  BY WalkInit
<1>2. WalkInv /\ [Next]_vars => WalkInv'
  BY WalkStep
<1> QED
  BY <1>1, <1>2, PTL DEF Spec

LEMMA TypesFollow ==
  ASSUME WalkInv
  PROVE  TypeOK
<1> USE DEF WalkInv, Typed
<1>1. ToSet(Units) \subseteq Nodes
  <2>1. Units \in Seq(Nodes)
    BY NodesAssumption DEF Units, Nodes
  <2> QED
    BY <2>1 DEF ToSet
<1>2. \A k \in DOMAIN frames : frames[k].base \in 0..Len(scopes)
  <2>1. \A f \in FrameType : f.base \in Nat
    BY DEF FrameType
  <2>2. DOMAIN frames = 1..Len(frames) /\ \A k \in 1..Len(frames) : frames[k] \in FrameType
    OBVIOUS
  <2>3. Len(scopes) \in Nat /\ \A k \in 1..Len(frames) : frames[k].base <= Len(scopes)
    BY DEF Stacked
  <2> QED
    BY <2>1, <2>2, <2>3
<1>3. \A s \in DOMAIN refs :
        refs[s] # None => refs[s].of # <<>> /\ ToSet(refs[s].of) \subseteq Nodes
  <2>1. \A r \in Ref : r.of # <<>> /\ ToSet(r.of) \subseteq Nodes
    BY RefsAre DEF ToSet
  <2> QED
    BY <2>1
<1>4. ambiguous \subseteq DOMAIN refs
  OBVIOUS
<1> QED
  BY <1>1, <1>2, <1>3, <1>4 DEF TypeOK

(* The walk keeps the types of what it holds, in every design: frames stand *)
(* on scopes that are there, references are to nodes.                       *)
THEOREM TypeCorrect == Spec => []TypeOK
<1>1. Spec => []WalkInv
  BY WalkInvariant
<1>2. WalkInv => TypeOK
  BY TypesFollow
<1> QED
  BY <1>1, <1>2, PTL

--------------------------------------------------------------------------------
(* What a stack of scopes shows, and the groups of declarations that it     *)
(* should: a root scope that declares nothing may be outermost.             *)
SymbolsOf(chain) == [k \in DOMAIN chain |-> chain[k].symbols]
View(stack) == SymbolsOf(Chain(stack))
Declares(groups) == [k \in DOMAIN groups |-> Inserted(groups[k])]
Shows(view, groups) ==
  view \in {Declares(groups), Append(Declares(groups), Inserted(<<>>))}

LEMMA RootsAre ==
  ASSUME NEW stack \in Seq(ScopeType)
  PROVE  LET roots == {k \in DOMAIN stack : stack[k].root} \cup {1} IN
         /\ roots \in SUBSET (1..(Len(stack) + 1))
         /\ Max(roots) \in roots /\ \A k \in roots : k <= Max(roots)
<1> DEFINE roots == {k \in DOMAIN stack : stack[k].root} \cup {1}
<1>1. Len(stack) + 1 \in Nat /\ roots \in SUBSET (0..(Len(stack) + 1)) /\ roots # {}
  OBVIOUS
<1>2. roots \in SUBSET (1..(Len(stack) + 1))
  OBVIOUS
<1> HIDE DEF roots
<1>3. Max(roots) \in roots /\ \A k \in roots : k <= Max(roots)
  BY <1>1, MaxIsGreatest
<1> QED
  BY <1>2, <1>3 DEF roots

(* A scope put on the stack is the first of the chain; the others follow it *)
(* unless it is a root.                                                     *)
LEMMA ChainGrows ==
  ASSUME NEW stack \in Seq(ScopeType), NEW s \in ScopeType
  PROVE  Chain(Append(stack, s)) = IF s.root THEN <<s>> ELSE <<s>> \o Chain(stack)
<1> DEFINE more == Append(stack, s)
           m == Len(stack)
           roots == {k \in DOMAIN stack : stack[k].root} \cup {1}
           grown == {k \in DOMAIN more : more[k].root} \cup {1}
           a == Max(roots)
           b == Max(grown)
<1>1. /\ m \in Nat /\ more \in Seq(ScopeType) /\ Len(more) = m + 1 /\ more[m + 1] = s
      /\ DOMAIN more = 1..(m + 1) /\ DOMAIN stack = 1..m
      /\ \A k \in 1..m : more[k] = stack[k]
  OBVIOUS
<1>2. roots \in SUBSET (1..(m + 1)) /\ a \in roots /\ \A k \in roots : k <= a
  BY RootsAre
<1>3. grown \in SUBSET (1..(m + 2)) /\ b \in grown /\ \A k \in grown : k <= b
  <2>1. (m + 1) + 1 = m + 2
    BY <1>1
  <2> QED
    BY <1>1, <2>1, RootsAre
<1>4. grown = roots \cup (IF s.root THEN {m + 1} ELSE {})
  <2> HIDE DEF more, m
  <2>1. \A k \in 1..(m + 1) : k = m + 1 \/ k \in 1..m
    BY <1>1
  <2>2. \A k \in 1..m : k \in 1..(m + 1)
    BY <1>1
  <2>3. m + 1 \in 1..(m + 1)
    BY <1>1
  <2> QED
    BY <1>1, <2>1, <2>2, <2>3
<1>5. Chain(stack) = Reverse(SubSeq(stack, a, m)) /\ Chain(more) = Reverse(SubSeq(more, b, m + 1))
  BY <1>1 DEF Chain
<1> HIDE DEF roots, grown, more, a, b
<1>6. b = IF s.root THEN m + 1 ELSE a
  BY <1>1, <1>2, <1>3, <1>4
<1>7. a \in 1..(m + 1)
  BY <1>2
<1> HIDE DEF m
<1>8. CASE s.root
  <2>1. SubSeq(more, m + 1, m + 1) = <<s>>
    <3>1. \A q \in Seq(ScopeType) : \A k \in 1..Len(q) :
            Len(SubSeq(q, k, k)) = 1 /\ SubSeq(q, k, k)[1] = q[k]
            /\ SubSeq(q, k, k) \in Seq(ScopeType)
      OBVIOUS
    <3> DEFINE one == SubSeq(more, m + 1, m + 1)
    <3>2. one \in Seq(ScopeType) /\ Len(one) = 1 /\ one[1] = s
      BY <1>1, <3>1
    <3> HIDE DEF one
    <3>3. one = <<s>>
      BY <3>2
    <3> QED
      BY <3>3 DEF one
  <2>2. Reverse(<<s>>) = <<s>>
    BY DEF Reverse
  <2> QED
    BY <1>5, <1>6, <1>8, <2>1, <2>2 DEF more
<1>9. CASE ~s.root
  <2> DEFINE part == SubSeq(stack, a, m)
             longer == SubSeq(more, a, m + 1)
             n == (m - a) + 1
  <2>1. n \in Nat /\ a \in Nat
    BY <1>1, <1>7
  <2>2. part \in Seq(ScopeType) /\ Len(part) = n /\ \A i \in 1..n : part[i] = stack[(a + i) - 1]
    BY <1>1, <1>7 DEF m
  <2>3. longer \in Seq(ScopeType) /\ Len(longer) = n + 1
        /\ \A i \in 1..(n + 1) : longer[i] = more[(a + i) - 1]
    BY <1>1, <1>7
  <2>4. \A i \in 1..n : longer[i] = part[i]
    <3> TAKE i \in 1..n
    <3>1. (a + i) - 1 \in 1..m /\ i \in 1..(n + 1)
      BY <1>1, <1>7
    <3> QED
      BY <1>1, <2>2, <2>3, <3>1
  <2>5. longer[n + 1] = s
    <3>1. (a + (n + 1)) - 1 = m + 1 /\ n + 1 \in 1..(n + 1)
      BY <1>1, <1>7
    <3> QED
      BY <1>1, <2>3, <3>1
  <2> HIDE DEF part, longer, n
  <2>6. /\ Reverse(part) \in Seq(ScopeType) /\ Len(Reverse(part)) = n
        /\ \A i \in 1..n : Reverse(part)[i] = part[(n - i) + 1]
    BY <2>2, ReverseType
  <2>7. /\ Reverse(longer) \in Seq(ScopeType) /\ Len(Reverse(longer)) = n + 1
        /\ \A i \in 1..(n + 1) : Reverse(longer)[i] = longer[((n + 1) - i) + 1]
    BY <2>3, ReverseType
  <2> DEFINE back == Reverse(part)
             front == Reverse(longer)
             both == <<s>> \o back
  <2> HIDE DEF back, front
  <2>8. /\ both \in Seq(ScopeType) /\ Len(both) = n + 1 /\ both[1] = s
        /\ \A i \in 2..(n + 1) : both[i] = back[i - 1]
    BY <2>1, <2>6 DEF back
  <2>9. \A i \in 1..(n + 1) : front[i] = both[i]
    <3> TAKE i \in 1..(n + 1)
    <3>1. CASE i = 1
      <4>1. ((n + 1) - i) + 1 = n + 1
        BY <2>1, <3>1
      <4> QED
        BY <2>5, <2>7, <2>8, <3>1, <4>1 DEF front
    <3>2. CASE i # 1
      <4>1. i \in 2..(n + 1) /\ i - 1 \in 1..n /\ (n - (i - 1)) + 1 = ((n + 1) - i) + 1
            /\ (n - (i - 1)) + 1 \in 1..n
        BY <2>1, <3>2
      <4> QED
        BY <2>4, <2>6, <2>7, <2>8, <4>1 DEF front, back
    <3> QED
      BY <3>1, <3>2
  <2>10. front = both
    <3> HIDE DEF both
    <3> QED
      BY <2>1, <2>7, <2>8, <2>9 DEF front
  <2> QED
    BY <1>5, <1>6, <1>9, <2>10 DEF part, longer, more, front, back
<1> QED
  BY <1>8, <1>9

LEMMA ViewGrows ==
  ASSUME NEW stack \in Seq(ScopeType), NEW s \in ScopeType
  PROVE  /\ View(stack) \in Seq(Symbols)
         /\ View(Append(stack, s)) =
              IF s.root THEN <<s.symbols>> ELSE <<s.symbols>> \o View(stack)
<1> DEFINE c == Chain(stack)
<1>1. \A t \in ScopeType : t.symbols \in Symbols
  BY DEF ScopeType
<1>2. c \in Seq(ScopeType)
  BY ChainType
<1>3. Chain(Append(stack, s)) = IF s.root THEN <<s>> ELSE <<s>> \o c
  BY ChainGrows
<1> HIDE DEF c
<1>4. SymbolsOf(c) \in Seq(Symbols)
  BY <1>1, <1>2 DEF SymbolsOf
<1>5. SymbolsOf(<<s>>) = <<s.symbols>>
  BY DEF SymbolsOf
<1>6. SymbolsOf(<<s>> \o c) = <<s.symbols>> \o SymbolsOf(c)
  <2> DEFINE x == <<s>> \o c
             y == <<s.symbols>> \o SymbolsOf(c)
             n == Len(c)
  <2>1. n \in Nat /\ Len(SymbolsOf(c)) = n /\ \A i \in 1..n : SymbolsOf(c)[i] = c[i].symbols
    BY <1>2, <1>4 DEF SymbolsOf
  <2>2. x \in Seq(ScopeType) /\ Len(x) = n + 1 /\ x[1] = s /\ \A i \in 2..(n + 1) : x[i] = c[i - 1]
    BY <1>2
  <2>3. s.symbols \in Symbols
    BY <1>1
  <2>4. y \in Seq(Symbols) /\ Len(y) = n + 1 /\ y[1] = s.symbols
        /\ \A i \in 2..(n + 1) : y[i] = SymbolsOf(c)[i - 1]
    BY <1>4, <2>1, <2>3
  <2>5. SymbolsOf(x) \in Seq(Symbols) /\ Len(SymbolsOf(x)) = n + 1
        /\ \A i \in 1..(n + 1) : SymbolsOf(x)[i] = x[i].symbols
    <3> HIDE DEF x, n
    <3> QED
      BY <1>1, <2>1, <2>2 DEF SymbolsOf
  <2> HIDE DEF x, y, n
  <2>6. \A i \in 1..(n + 1) : SymbolsOf(x)[i] = y[i]
    <3> TAKE i \in 1..(n + 1)
    <3>1. CASE i = 1
      BY <2>2, <2>4, <2>5, <3>1
    <3>2. CASE i # 1
      <4>1. i \in 2..(n + 1) /\ i - 1 \in 1..n
        BY <2>1, <3>2
      <4> QED
        BY <2>1, <2>2, <2>4, <2>5, <4>1
    <3> QED
      BY <3>1, <3>2
  <2>7. SymbolsOf(x) = y
    BY <2>1, <2>4, <2>5, <2>6
  <2> QED
    BY <2>7 DEF x, y
<1> QED
  BY <1>3, <1>4, <1>5, <1>6 DEF View, c

--------------------------------------------------------------------------------
(* The regions around a node, by the text. *)
Enclosed == {"block", "generate", "process", "subprogram_body"}

LEMMA ParentIs ==
  ASSUME design \in Designs, NEW n \in Nodes
  PROVE  /\ Depth(design)[n] \in 0..Cardinality(Nodes) /\ Cardinality(Nodes) \in Nat
         /\ \A r \in Nodes : n \in Children(r) =>
              ParentOf(n) = r /\ Depth(design)[r] < Depth(design)[n]
         /\ IsA(n, Enclosed) => ParentOf(n) \in Nodes /\ n \in Children(ParentOf(n))
<1>1. Holders(design, n) = {r \in Nodes : n \in Children(r)}
  BY DEF Holders, Children, Items, N, Nodes
<1>2. /\ Depth(design)[n] \in 0..Cardinality(Nodes)
      /\ \A r, s \in Holders(design, n) : r = s /\ Depth(design)[r] < Depth(design)[n]
  BY ForestAssumption DEF Nodes
<1>3. IsFiniteSet(Nodes)
  BY NodesAssumption DEF Nodes
<1>4. IsA(n, Enclosed) => Holders(design, n) # {}
  <2>1. /\ n \in ToSet(design.units) <=>
             Holders(design, n) \cup Owners(design, n) \cup Bodies(design, n) = {}
        /\ n \in ToSet(design.units) =>
             N(n).kind \in {"package", "entity", "package_instantiation", "architecture", "package_body"}
        /\ Owners(design, n) # {} => N(n).kind = "signal"
        /\ Bodies(design, n) # {} => N(n).kind = "subprogram_declaration"
    BY ForestAssumption, KindsAssumption DEF Nodes, N
  <2>2. IsA(n, Enclosed) => /\ N(n).kind \notin {"package", "entity", "package_instantiation",
                                                 "architecture", "package_body"}
                            /\ N(n).kind # "signal" /\ N(n).kind # "subprogram_declaration"
    BY DEF IsA, Enclosed
  <2> QED
    BY <2>1, <2>2
<1>5. Cardinality(Nodes) \in Nat
  BY <1>3, FS_CardinalityType
<1>6. ASSUME NEW r \in Nodes, n \in Children(r)
      PROVE  ParentOf(n) = r /\ Depth(design)[r] < Depth(design)[n]
  <2>1. r \in Holders(design, n)
    BY <1>1, <1>6
  <2>2. PICK p \in Nodes : p = ParentOf(n) /\ n \in Children(p)
    BY <1>6 DEF ParentOf
  <2>3. p \in Holders(design, n)
    BY <1>1, <2>2
  <2> QED
    BY <1>2, <2>1, <2>2, <2>3
<1>7. IsA(n, Enclosed) => ParentOf(n) \in Nodes /\ n \in Children(ParentOf(n))
  BY <1>1, <1>4, <1>6
<1> QED
  BY <1>2, <1>5, <1>6, <1>7

LEMMA GroupsType ==
  ASSUME design \in Designs, NEW n \in Nodes
  PROVE  Groups(n) \in Seq(Seq(Nodes))
<1>1. N(n).declarations \in Seq(Nodes)
  BY NodeFacts
<1>2. DeclaredBy(n) \in Seq(Nodes) /\ DeclaredBy(Primary(n)) \in Seq(Nodes)
  BY DeclaredAre, PrimaryIsNode
<1>3. \A x, y \in Seq(Nodes) : /\ <<x, y>> \in Seq(Seq(Nodes)) /\ <<x \o y>> \in Seq(Seq(Nodes))
                              /\ <<x>> \in Seq(Seq(Nodes))
  OBVIOUS
<1> DEFINE d == N(n).declarations
           e == DeclaredBy(Primary(n))
           f == DeclaredBy(n)
<1>4. /\ <<d, e>> \in Seq(Seq(Nodes)) /\ <<e \o d>> \in Seq(Seq(Nodes))
      /\ <<f>> \in Seq(Seq(Nodes))
  BY <1>1, <1>2, <1>3
<1>5. Groups(n) \in {<<d, e>>, <<e \o d>>, <<f>>}
  BY DEF Groups
<1> HIDE DEF d, e, f
<1> QED
  BY <1>4, <1>5

(* Induction down the trees of the AST. *)
LEMMA Downwards ==
  ASSUME design \in Designs, NEW S,
         \A n \in Nodes : (\A r \in Nodes : n \in Children(r) => r \in S) => n \in S
  PROVE  Nodes \subseteq S
<1> DEFINE Known == {k \in Nat : \A n \in Nodes : Depth(design)[n] < k => n \in S}
<1>1. \A n \in Nodes : Depth(design)[n] \in Nat
  <2> TAKE n \in Nodes
  <2>1. Depth(design)[n] \in 0..Cardinality(Nodes) /\ Cardinality(Nodes) \in Nat
    BY ParentIs
  <2> QED
    BY <2>1
<1>2. 0 \in Known
  BY <1>1
<1>3. ASSUME NEW k \in Nat, k \in Known PROVE k + 1 \in Known
  <2> SUFFICES ASSUME NEW n \in Nodes, Depth(design)[n] < k + 1 PROVE n \in S
    OBVIOUS
  <2>1. ASSUME NEW r \in Nodes, n \in Children(r) PROVE r \in S
    <3>1. Depth(design)[r] < Depth(design)[n]
      BY <2>1, ParentIs
    <3>2. Depth(design)[r] < k
      BY <1>1, <3>1
    <3> QED
      BY <1>3, <3>2
  <2> QED
    BY <2>1
<1> HIDE DEF Known
<1>4. Nat \subseteq Known
  BY <1>2, <1>3, CountingUp
<1>5. \A n \in Nodes : Depth(design)[n] + 1 \in Known /\ Depth(design)[n] < Depth(design)[n] + 1
  BY <1>1, <1>4
<1> QED
  BY <1>5 DEF Known

(* What a region has of its own, followed by what is around it: one and     *)
(* only one function is this, because the AST is a forest.                  *)
Gathers(g, own) ==
  g = [r \in Nodes |-> IF IsA(r, Enclosed) THEN own[r] \o g[ParentOf(r)] ELSE own[r]]

LEMMA GatheringExists ==
  ASSUME design \in Designs, NEW W, NEW own \in [Nodes -> Seq(W)]
  PROVE  \E g : Gathers(g, own)
<1> DEFINE c == Cardinality(Nodes)
           m == c + 2
           S == [Nodes -> Seq(W)]
           Then(g) == [r \in Nodes |-> IF IsA(r, Enclosed) THEN own[r] \o g[ParentOf(r)] ELSE own[r]]
           step == [p \in (1..m) \X S |-> Then(p[2])]
<1>1. c \in Nat /\ m \in Nat /\ \A r \in Nodes : Depth(design)[r] \in 0..c
  <2>1. IsFiniteSet(Nodes)
    BY NodesAssumption DEF Nodes
  <2>2. c \in Nat
    BY <2>1, FS_CardinalityType
  <2> QED
    BY <2>2, ParentIs
<1>2. \A r \in Nodes : IsA(r, Enclosed) =>
        ParentOf(r) \in Nodes /\ Depth(design)[ParentOf(r)] < Depth(design)[r]
        /\ r \in Children(ParentOf(r))
  BY ParentIs
<1>3. \A x, y \in Seq(W) : x \o y \in Seq(W)
  OBVIOUS
<1>4. \A g \in S : Then(g) \in S
  BY <1>2, <1>3
<1>5. own \in S
  OBVIOUS
<1> HIDE DEF c, m
<1>6. \A k \in 1..m : \A g \in S : step[<<k, g>>] = Then(g)
  <2> HIDE DEF Then, S
  <2> QED
    OBVIOUS
<1>7. PICK f \in [0..m -> S] : Follows(f, m, own, step)
  <2> HIDE DEF Then, S
  <2>1. Stays(m, S, step)
    <3> HIDE DEF step
    <3> QED
      BY <1>4, <1>6 DEF Stays
  <2> HIDE DEF step
  <2> QED
    BY <1>1, <1>5, <2>1, Recursion
<1>8. \A k \in 1..m : f[k] = Then(f[k - 1]) /\ f[k - 1] \in S /\ f[k] \in S
  <2> TAKE k \in 1..m
  <2>1. k - 1 \in 0..m /\ k \in 0..m
    BY <1>1
  <2> HIDE DEF Then, S, step
  <2> QED
    BY <1>6, <1>7, <2>1 DEF Follows
<1>9. \A k \in 1..m : \A r \in Nodes :
        f[k][r] = IF IsA(r, Enclosed) THEN own[r] \o f[k - 1][ParentOf(r)] ELSE own[r]
  <2> TAKE k \in 1..m
  <2> TAKE r \in Nodes
  <2> DEFINE before == f[k - 1]
             after == f[k]
  <2>1. after = Then(before)
    BY <1>8
  <2> HIDE DEF before, after
  <2>2. after[r] = IF IsA(r, Enclosed) THEN own[r] \o before[ParentOf(r)] ELSE own[r]
    BY <2>1
  <2> QED
    BY <2>2 DEF before, after
<1> DEFINE Settled(k) == \A r \in Nodes : Depth(design)[r] < k => f[k + 1][r] = f[k][r]
           h == [k \in 0..(c + 1) |-> IF Settled(k) THEN 1 ELSE 0]
<1>10. ASSUME NEW k \in 1..(c + 1), Settled(k - 1) PROVE Settled(k)
  <2> SUFFICES ASSUME NEW r \in Nodes, Depth(design)[r] < k PROVE f[k + 1][r] = f[k][r]
    OBVIOUS
  <2>1. k \in 1..m /\ k + 1 \in 1..m /\ (k + 1) - 1 = k /\ (k - 1) + 1 = k
    BY <1>1 DEF m
  <2>2. CASE IsA(r, Enclosed)
    <3>1. ParentOf(r) \in Nodes /\ Depth(design)[ParentOf(r)] < k - 1
      <4>1. ParentOf(r) \in Nodes /\ Depth(design)[ParentOf(r)] < Depth(design)[r]
        BY <1>2, <2>2
      <4>2. Depth(design)[ParentOf(r)] \in Nat /\ Depth(design)[r] \in Nat
        BY <1>1, <4>1
      <4> QED
        BY <4>1, <4>2
    <3>2. f[k][ParentOf(r)] = f[k - 1][ParentOf(r)]
      BY <1>10, <2>1, <3>1
    <3> QED
      BY <1>9, <2>1, <2>2, <3>2
  <2>3. CASE ~IsA(r, Enclosed)
    BY <1>9, <2>1, <2>3
  <2> QED
    BY <2>2, <2>3
<1>11. Settled(0)
  BY <1>1
<1>12. Settled(c + 1)
  <2> HIDE DEF Settled
  <2>1. \A k \in 1..(c + 1) : h[k - 1] \in {1} => h[k] \in {1}
    <3> TAKE k \in 1..(c + 1)
    <3>1. k \in 0..(c + 1) /\ k - 1 \in 0..(c + 1)
      BY <1>1
    <3> QED
      BY <1>10, <3>1
  <2>2. h[0] \in {1} /\ c + 1 \in Nat /\ c + 1 \in 0..(c + 1)
    BY <1>1, <1>11
  <2>3. \A k \in 0..(c + 1) : h[k] \in {1}
    <3> HIDE DEF h
    <3> QED
      BY <2>1, <2>2, Upwards
  <2> QED
    BY <2>2, <2>3
<1> DEFINE last == f[c + 1]
<1>13. f[m] = Then(last) /\ f[m] \in S /\ last \in S
  <2>1. m \in 1..m /\ m - 1 = c + 1
    BY <1>1 DEF m
  <2> HIDE DEF Then, S
  <2> QED
    BY <1>8, <2>1
<1>14. \A r \in Nodes : f[m][r] = last[r]
  <2>1. (c + 1) + 1 = m /\ \A r \in Nodes : Depth(design)[r] < c + 1
    BY <1>1 DEF m
  <2> QED
    BY <1>12, <2>1
<1>15. f[m] = last
  <2>1. \A x, y \in S : (\A r \in Nodes : x[r] = y[r]) => x = y
    OBVIOUS
  <2> HIDE DEF last, S
  <2> QED
    BY <1>13, <1>14, <2>1
<1>16. Gathers(last, own)
  <2> HIDE DEF last
  <2> QED
    BY <1>13, <1>15 DEF Gathers
<1> HIDE DEF last
<1> QED
  BY <1>16

LEMMA GatheredIs ==
  ASSUME design \in Designs, NEW W, NEW own \in [Nodes -> Seq(W)], NEW g, Gathers(g, own)
  PROVE  g \in [Nodes -> Seq(W)]
<1>1. \A n \in Nodes : g[n] = IF IsA(n, Enclosed) THEN own[n] \o g[ParentOf(n)] ELSE own[n]
  BY DEF Gathers
<1> DEFINE Good == {n \in Nodes : g[n] \in Seq(W)}
<1>2. ASSUME NEW n \in Nodes, \A r \in Nodes : n \in Children(r) => r \in Good
      PROVE  n \in Good
  <2>1. own[n] \in Seq(W)
    OBVIOUS
  <2>2. CASE IsA(n, Enclosed)
    <3>1. g[ParentOf(n)] \in Seq(W)
      BY <1>2, <2>2, ParentIs
    <3>2. \A x, y \in Seq(W) : x \o y \in Seq(W)
      OBVIOUS
    <3> QED
      BY <1>1, <2>1, <2>2, <3>1, <3>2
  <2>3. CASE ~IsA(n, Enclosed)
    BY <1>1, <2>1, <2>3
  <2> QED
    BY <2>2, <2>3
<1>3. Nodes \subseteq Good
  <2> HIDE DEF Good
  <2> QED
    BY <1>2, Downwards
<1>4. g = [n \in Nodes |-> g[n]]
  BY DEF Gathers
<1> QED
  BY <1>3, <1>4

(* The regions around a node are itself and those around what it stands in. *)
LEMMA AroundIs ==
  ASSUME design \in Designs, NEW n \in Nodes
  PROVE  /\ Around(n) \in Seq(Seq(Nodes))
         /\ Around(n) = IF IsA(n, Enclosed) THEN Groups(n) \o Around(ParentOf(n)) ELSE Groups(n)
<1> DEFINE Is(g) == g = [r \in Nodes |-> IF IsA(r, Enclosed) THEN Groups(r) \o g[ParentOf(r)] ELSE Groups(r)]
           G == CHOOSE g : Is(g)
           W == Seq(Nodes)
           own == [r \in Nodes |-> Groups(r)]
<1>1. \A r \in Nodes : Around(r) = G[r]
  BY DEF Around, Enclosed
<1>2. own \in [Nodes -> Seq(W)] /\ \A r \in Nodes : own[r] = Groups(r)
  BY GroupsType
<1>3. \A g : Is(g) <=> Gathers(g, own)
  <2> TAKE g
  <2> DEFINE x == [r \in Nodes |-> IF IsA(r, Enclosed) THEN Groups(r) \o g[ParentOf(r)] ELSE Groups(r)]
             y == [r \in Nodes |-> IF IsA(r, Enclosed) THEN own[r] \o g[ParentOf(r)] ELSE own[r]]
  <2>1. x = y
    BY <1>2
  <2> QED
    BY <2>1 DEF Gathers
<1> HIDE DEF W, own, Is
<1>4. \E g : Is(g)
  BY <1>2, <1>3, GatheringExists
<1>5. Gathers(G, own)
  BY <1>3, <1>4
<1> HIDE DEF G
<1>6. G \in [Nodes -> Seq(W)]
  BY <1>2, <1>5, GatheredIs
<1>8. \A r \in Nodes : G[r] = IF IsA(r, Enclosed) THEN own[r] \o G[ParentOf(r)] ELSE own[r]
  BY <1>5 DEF Gathers
<1>7. IsA(n, Enclosed) => ParentOf(n) \in Nodes
  BY ParentIs
<1> QED
  BY <1>1, <1>2, <1>6, <1>7, <1>8 DEF W

LEMMA FunctionIsSeq ==
  ASSUME NEW T, NEW m \in Nat, NEW q \in [1..m -> T]
  PROVE  q \in Seq(T) /\ Len(q) = m
OBVIOUS

(* One group more is one scope more. *)
LEMMA ShowsMore ==
  ASSUME design \in Designs, NEW view \in Seq(Symbols), NEW groups \in Seq(Seq(Nodes)),
         Shows(view, groups), NEW g \in Seq(Nodes)
  PROVE  Shows(<<Inserted(g)>> \o view, <<g>> \o groups)
<1> DEFINE m == Len(groups)
           W == Seq(Nodes)
           ds == Declares(groups)
           x == Inserted(g)
           e == Inserted(<<>>)
           more == <<g>> \o groups
           all == Declares(more)
           grown == <<x>> \o ds
<1>1. \A d \in W : Inserted(d) \in Symbols
  BY InsertedNames
<1>2. <<>> \in W
  OBVIOUS
<1>3. m \in Nat /\ groups \in Seq(W)
      /\ more \in Seq(W) /\ Len(more) = m + 1 /\ more[1] = g
      /\ \A i \in 2..(m + 1) : more[i] = groups[i - 1]
  OBVIOUS
<1> HIDE DEF W, more
<1>4. \A s \in Seq(W) : /\ Declares(s) \in Seq(Symbols) /\ Len(Declares(s)) = Len(s)
                        /\ \A i \in 1..Len(s) : Declares(s)[i] = Inserted(s[i])
  <2> TAKE s \in Seq(W)
  <2>1. Len(s) \in Nat /\ DOMAIN s = 1..Len(s) /\ \A i \in 1..Len(s) : s[i] \in W
    OBVIOUS
  <2>2. Declares(s) = [i \in 1..Len(s) |-> Inserted(s[i])]
    BY <2>1 DEF Declares
  <2>3. Declares(s) \in [1..Len(s) -> Symbols]
    BY <1>1, <2>1, <2>2
  <2> QED
    BY <2>1, <2>2, <2>3, FunctionIsSeq
<1>5. ds \in Seq(Symbols) /\ Len(ds) = m /\ \A i \in 1..m : ds[i] = Inserted(groups[i])
  BY <1>3, <1>4
<1>6. all \in Seq(Symbols) /\ Len(all) = m + 1 /\ \A i \in 1..(m + 1) : all[i] = Inserted(more[i])
  BY <1>3, <1>4
<1>7. x \in Symbols /\ e \in Symbols
  BY <1>1, <1>2 DEF W
<1> HIDE DEF ds, x, e, all
<1>8. grown \in Seq(Symbols) /\ Len(grown) = m + 1 /\ grown[1] = x
      /\ \A i \in 2..(m + 1) : grown[i] = ds[i - 1]
  BY <1>5, <1>7
<1> HIDE DEF grown, m
<1>9. \A i \in 1..(m + 1) : all[i] = grown[i]
  <2> TAKE i \in 1..(m + 1)
  <2>1. CASE i = 1
    BY <1>3, <1>6, <1>8, <2>1 DEF x
  <2>2. CASE i # 1
    <3>1. i \in 2..(m + 1) /\ i - 1 \in 1..m
      BY <1>3, <2>2
    <3> QED
      BY <1>3, <1>5, <1>6, <1>8, <3>1
  <2> QED
    BY <2>1, <2>2
<1>10. all = grown
  BY <1>3, <1>6, <1>8, <1>9
<1>11. <<x>> \o Append(ds, e) = Append(<<x>> \o ds, e)
  BY <1>5, <1>7
<1>12. view = ds \/ view = Append(ds, e)
  BY DEF Shows, ds, e
<1>13. <<x>> \o view = all \/ <<x>> \o view = Append(all, e)
  BY <1>10, <1>11, <1>12 DEF grown
<1> QED
  BY <1>13 DEF Shows, all, more, e, x

LEMMA ShowsNothing ==
  Shows(<<>>, <<>>) /\ Shows(<<Inserted(<<>>)>>, <<>>)
<1> DEFINE none == <<>>
           e == Inserted(none)
<1>1. Declares(none) = none
  BY DEF Declares
<1> HIDE DEF e
<1>2. Append(none, e) = <<e>>
  OBVIOUS
<1> QED
  BY <1>1, <1>2 DEF Shows, e

(* The scopes put on the stack for a region show what it declares, and what *)
(* the regions around it do if it sees them.                                *)
LEMMA OwnShows ==
  ASSUME design \in Designs, NEW stack \in Seq(ScopeType), NEW n \in Nodes, IsA(n, Regions),
         IsA(n, Enclosed) => Shows(View(stack), Around(ParentOf(n)))
  PROVE  Shows(View(stack \o Own(n)), Around(n))
<1> DEFINE root == RootScope(n)
           d == N(n).declarations
           f == DeclaredBy(n)
           e == DeclaredBy(Primary(n))
           full == [RootScope(n) EXCEPT !.symbols = Inserted(f)]
           base == Append(stack, root)
           none == <<>>
<1>1. d \in Seq(Nodes) /\ f \in Seq(Nodes) /\ e \in Seq(Nodes) /\ e \o d \in Seq(Nodes)
      /\ none \in Seq(Nodes)
  <2>1. d \in Seq(Nodes) /\ f \in Seq(Nodes) /\ e \in Seq(Nodes)
    BY NodeFacts, DeclaredAre, PrimaryIsNode
  <2> HIDE DEF d, e, f
  <2> QED
    BY <2>1
<1>2. root \in ScopeType /\ root.root /\ root.symbols = Inserted(none)
  BY RootIs
<1>3. full \in ScopeType /\ full.root /\ full.symbols = Inserted(f)
  <2>1. Inserted(f) \in Symbols
    BY <1>1, InsertedNames
  <2> HIDE DEF f
  <2> QED
    BY <2>1, RootIs
<1>4. \A g \in Seq(Nodes) : Scope(g) \in ScopeType /\ Scope(g).symbols = Inserted(g) /\ ~Scope(g).root
  BY ScopeIs
<1>5. Around(n) = IF IsA(n, Enclosed) THEN Groups(n) \o Around(ParentOf(n)) ELSE Groups(n)
  BY AroundIs
<1>6. /\ IsA(n, {"architecture"}) => Groups(n) = <<d, e>>
      /\ IsA(n, {"package_body"}) => Groups(n) = <<e \o d>>
      /\ ~IsA(n, {"architecture"}) /\ ~IsA(n, {"package_body"}) => Groups(n) = <<f>>
  <2> HIDE DEF d, e, f
  <2>1. Groups(n) = CASE IsA(n, {"architecture"}) -> <<d, e>>
                      [] IsA(n, {"package_body"}) -> <<e \o d>>
                      [] OTHER -> <<f>>
    BY DEF Groups, d, e, f
  <2>2. ~(IsA(n, {"architecture"}) /\ IsA(n, {"package_body"}))
    BY DEF IsA
  <2> QED
    BY <2>1, <2>2
<1>7. /\ N(n).kind \in Body \cup {"package_instantiation"} => f = d
      /\ N(n).kind = "package_instantiation" => f = none
  <2>1. N(n).kind \in Body \cup {"package_instantiation"} => N(n).interfaces = none
    BY KindsAssumption DEF Body, N, Nodes
  <2>2. N(n).kind = "package_instantiation" => d = none
    BY KindsAssumption DEF N, Nodes
  <2>3. n # None
    BY NodeFacts
  <2>4. f = N(n).interfaces \o d
    BY <2>3 DEF DeclaredBy
  <2> HIDE DEF d, f
  <2>5. none \o d = d
    BY <1>1
  <2> QED
    BY <2>1, <2>2, <2>4, <2>5
<1> HIDE DEF root, full, d, e, f
<1>8. /\ \A x \in ScopeType : stack \o <<x>> = Append(stack, x)
      /\ \A x, y \in ScopeType : stack \o <<x, y>> = Append(Append(stack, x), y)
      /\ \A x, y, z \in ScopeType : stack \o <<x, y, z>> = Append(Append(Append(stack, x), y), z)
      /\ \A q \in Seq(ScopeType) : \A x \in ScopeType : Append(q, x) \in Seq(ScopeType)
  OBVIOUS
<1>9. base \in Seq(ScopeType) /\ Shows(View(base), none)
  BY <1>2, <1>8, ViewGrows, ShowsNothing
<1>10. Shows(View(Append(stack, full)), <<f>>)
  <2>1. View(Append(stack, full)) = <<Inserted(f)>>
    BY <1>3, ViewGrows
  <2>2. Shows(<<Inserted(f)>> \o none, <<f>> \o none)
    <3>1. none \in Seq(Symbols) /\ none \in Seq(Seq(Nodes))
      OBVIOUS
    <3> QED
      BY <1>1, <3>1, ShowsNothing, ShowsMore
  <2>3. <<Inserted(f)>> \o none = <<Inserted(f)>> /\ <<f>> \o none = <<f>>
    OBVIOUS
  <2> QED
    BY <2>1, <2>2, <2>3
<1> HIDE DEF base, none
<1>11. ASSUME NEW q \in Seq(ScopeType), NEW groups \in Seq(Seq(Nodes)), Shows(View(q), groups),
              NEW g \in Seq(Nodes)
       PROVE  Append(q, Scope(g)) \in Seq(ScopeType)
              /\ Shows(View(Append(q, Scope(g))), <<g>> \o groups)
  <2>1. View(q) \in Seq(Symbols) /\ View(Append(q, Scope(g))) = <<Inserted(g)>> \o View(q)
    BY <1>4, ViewGrows
  <2>2. Shows(<<Inserted(g)>> \o View(q), <<g>> \o groups)
    BY <1>11, <2>1, ShowsMore
  <2> QED
    BY <1>4, <1>8, <2>1, <2>2
<1>12. none \in Seq(Seq(Nodes)) /\ \A g \in Seq(Nodes) : <<g>> \o none = <<g>> /\ <<g>> \in Seq(Seq(Nodes))
  BY DEF none
<1>13. CASE IsA(n, {"entity"})
  <2>1. Own(n) = <<full>>
    BY <1>13, OwnIs DEF full, f
  <2>2. Around(n) = <<f>>
    BY <1>5, <1>6, <1>13 DEF IsA, Enclosed
  <2> QED
    BY <1>3, <1>8, <1>10, <2>1, <2>2
<1>14. CASE IsA(n, {"package"})
  <2>1. Own(n) = <<root, Scope(f)>>
    BY <1>14, OwnIs DEF root, f
  <2>2. Around(n) = <<f>>
    BY <1>5, <1>6, <1>14 DEF IsA, Enclosed
  <2>3. stack \o Own(n) = Append(base, Scope(f))
    BY <1>1, <1>2, <1>4, <1>8, <2>1 DEF base
  <2> QED
    BY <1>1, <1>9, <1>11, <1>12, <2>2, <2>3
<1>15. CASE IsA(n, {"package_instantiation"})
  <2>1. Own(n) = <<root>>
    BY <1>15, OwnIs DEF root
  <2>2. Around(n) = <<none>> /\ f = none
    BY <1>5, <1>6, <1>7, <1>15 DEF IsA, Enclosed
  <2>3. View(stack \o Own(n)) = <<Inserted(none)>>
    BY <1>2, <1>8, <2>1, ViewGrows
  <2>4. View(Append(stack, full)) = <<Inserted(none)>>
    BY <1>3, <2>2, ViewGrows
  <2> QED
    BY <1>10, <2>2, <2>3, <2>4
<1>16. CASE IsA(n, {"architecture"})
  <2>1. Own(n) = <<root, Scope(e), Scope(d)>>
    BY <1>16, OwnIs DEF root, e, d
  <2>2. Around(n) = <<d, e>>
    BY <1>5, <1>6, <1>16 DEF IsA, Enclosed
  <2>3. stack \o Own(n) = Append(Append(base, Scope(e)), Scope(d))
    BY <1>1, <1>2, <1>4, <1>8, <2>1 DEF base
  <2>4. Append(base, Scope(e)) \in Seq(ScopeType) /\ Shows(View(Append(base, Scope(e))), <<e>>)
        /\ <<e>> \in Seq(Seq(Nodes))
    BY <1>1, <1>9, <1>11, <1>12
  <2>5. Shows(View(Append(Append(base, Scope(e)), Scope(d))), <<d>> \o <<e>>)
    BY <1>1, <1>11, <2>4
  <2>6. <<d>> \o <<e>> = <<d, e>>
    <3> DEFINE T == Seq(Nodes)
               z == <<d>> \o <<e>>
               w == <<d, e>>
    <3>1. d \in T /\ e \in T
      BY <1>1
    <3> HIDE DEF T
    <3>2. z \in Seq(T) /\ Len(z) = 2 /\ z[1] = d /\ z[2] = e
      BY <3>1
    <3>3. w \in Seq(T) /\ Len(w) = 2 /\ w[1] = d /\ w[2] = e
      BY <3>1
    <3> HIDE DEF z, w
    <3>4. z = w
      BY <3>2, <3>3
    <3> QED
      BY <3>4 DEF z, w
  <2> QED
    BY <2>2, <2>3, <2>5, <2>6
<1>17. CASE IsA(n, {"package_body"})
  <2>1. Own(n) = <<root, Scope(e \o d)>>
    BY <1>17, OwnIs DEF root, e, d
  <2>2. Around(n) = <<e \o d>>
    BY <1>5, <1>6, <1>17 DEF IsA, Enclosed
  <2> DEFINE g == e \o d
  <2>3. g \in Seq(Nodes)
    BY <1>1
  <2> HIDE DEF g
  <2>4. stack \o Own(n) = Append(base, Scope(g))
    BY <1>2, <1>4, <1>8, <2>1, <2>3 DEF base, g
  <2>5. Shows(View(Append(base, Scope(g))), <<g>>)
    BY <1>9, <1>11, <1>12, <2>3
  <2> QED
    BY <2>2, <2>4, <2>5 DEF g
<1>18. CASE IsA(n, {"block"}) \/ IsA(n, Body)
  <2> DEFINE p == ParentOf(n)
             outer == Around(p)
  <2>1. Own(n) = <<Scope(f)>>
    <3>1. IsA(n, {"block"}) => Own(n) = <<Scope(f)>>
      BY OwnIs DEF f
    <3>2. IsA(n, Body) => Own(n) = <<Scope(d)>> /\ f = d
      BY <1>7, OwnIs DEF d, IsA
    <3> QED
      BY <1>18, <3>1, <3>2
  <2>2. IsA(n, Enclosed) /\ Around(n) = <<f>> \o outer
    BY <1>5, <1>6, <1>18 DEF IsA, Enclosed, Body
  <2>3. p \in Nodes /\ outer \in Seq(Seq(Nodes))
    BY <2>2, AroundIs, ParentIs
  <2>4. Shows(View(stack), outer)
    BY <2>2
  <2>5. stack \o Own(n) = Append(stack, Scope(f))
    BY <1>1, <1>4, <1>8, <2>1
  <2> HIDE DEF p, outer
  <2> QED
    BY <1>1, <1>11, <2>2, <2>3, <2>4, <2>5
<1>19. \/ IsA(n, {"entity"}) \/ IsA(n, {"package"}) \/ IsA(n, {"package_instantiation"})
       \/ IsA(n, {"architecture"}) \/ IsA(n, {"package_body"}) \/ IsA(n, {"block"})
       \/ IsA(n, Body)
  BY DEF IsA, Regions, Body
<1> QED
  BY <1>13, <1>14, <1>15, <1>16, <1>17, <1>18, <1>19

--------------------------------------------------------------------------------
(* The scopes a lookup at a region visits, by the nesting of the text.      *)
Links(r) == IF IsA(r, Regions) THEN Chain(Own(r)) ELSE <<>>
ChainOf(n) ==
  LET G[r \in Nodes] == IF IsA(r, Enclosed) THEN Links(r) \o G[ParentOf(r)] ELSE Links(r)
  IN  G[n]

LEMMA ChainOfIs ==
  ASSUME design \in Designs, NEW n \in Nodes
  PROVE  /\ ChainOf(n) \in Seq(ScopeType)
         /\ ChainOf(n) = IF IsA(n, Enclosed) THEN Links(n) \o ChainOf(ParentOf(n)) ELSE Links(n)
<1> DEFINE Is(g) == g = [r \in Nodes |-> IF IsA(r, Enclosed) THEN Links(r) \o g[ParentOf(r)] ELSE Links(r)]
           G == CHOOSE g : Is(g)
           own == [r \in Nodes |-> Links(r)]
<1>1. \A r \in Nodes : ChainOf(r) = G[r]
  BY DEF ChainOf
<1>2. \A r \in Nodes : Links(r) \in Seq(ScopeType)
  BY OwnType, ChainType DEF Links
<1>3. own \in [Nodes -> Seq(ScopeType)] /\ \A r \in Nodes : own[r] = Links(r)
  BY <1>2
<1>4. \A g : Is(g) <=> Gathers(g, own)
  <2> TAKE g
  <2> DEFINE x == [r \in Nodes |-> IF IsA(r, Enclosed) THEN Links(r) \o g[ParentOf(r)] ELSE Links(r)]
             y == [r \in Nodes |-> IF IsA(r, Enclosed) THEN own[r] \o g[ParentOf(r)] ELSE own[r]]
  <2>1. x = y
    BY <1>3
  <2> QED
    BY <2>1 DEF Gathers
<1> HIDE DEF own, Is
<1>5. \E g : Is(g)
  BY <1>3, <1>4, GatheringExists
<1>6. Gathers(G, own)
  BY <1>4, <1>5
<1> HIDE DEF G
<1>7. G \in [Nodes -> Seq(ScopeType)]
  BY <1>3, <1>6, GatheredIs
<1>8. \A r \in Nodes : G[r] = IF IsA(r, Enclosed) THEN own[r] \o G[ParentOf(r)] ELSE own[r]
  BY <1>6 DEF Gathers
<1>9. IsA(n, Enclosed) => ParentOf(n) \in Nodes
  BY ParentIs
<1> QED
  BY <1>1, <1>3, <1>7, <1>8, <1>9

(* The scopes of a region on a stack are the region's, and those of what    *)
(* the stack already holds if the region sees it.                           *)
LEMMA OwnChain ==
  ASSUME design \in Designs, NEW stack \in Seq(ScopeType), NEW n \in Nodes, IsA(n, Regions),
         IsA(n, Enclosed) => Chain(stack) = ChainOf(ParentOf(n))
  PROVE  Chain(stack \o Own(n)) = ChainOf(n)
<1> DEFINE empty == <<>>
           Same(q) == Chain(stack \o q) = Chain(q)
<1>1. empty \in Seq(ScopeType) /\ Chain(empty) = empty
  <2>1. empty \in Seq(ScopeType)
    OBVIOUS
  <2>2. {k \in DOMAIN empty : empty[k].root} = {}
    OBVIOUS
  <2>3. Len(Chain(empty)) = 0 /\ Chain(empty) \in Seq(ScopeType)
    <3> DEFINE none == SubSeq(empty, Max({k \in DOMAIN empty : empty[k].root} \cup {1}), Len(empty))
    <3>1. Max({1}) = 1
      <4>1. {1} \in SUBSET (0..1) /\ 1 \in Nat /\ {1} # {}
        OBVIOUS
      <4> QED
        BY <4>1, MaxIsGreatest
    <3>2. none \in Seq(ScopeType) /\ Len(none) = 0
      <4>1. {k \in DOMAIN empty : empty[k].root} \cup {1} = {1}
        BY <2>2
      <4>2. SubSeq(empty, 1, 0) \in Seq(ScopeType) /\ Len(SubSeq(empty, 1, 0)) = 0
        OBVIOUS
      <4>3. Len(empty) = 0
        OBVIOUS
      <4> QED
        BY <3>1, <4>1, <4>2, <4>3
    <3>3. Chain(empty) = Reverse(none)
      BY DEF Chain
    <3> HIDE DEF none
    <3> QED
      BY <3>2, <3>3, ReverseType
  <2> QED
    BY <2>1, <2>3
<1>2. /\ \A x \in ScopeType : /\ stack \o <<x>> = Append(stack, x)
                              /\ <<x>> = Append(empty, x) /\ <<x>> \o empty = <<x>>
                              /\ <<x>> \in Seq(ScopeType)
      /\ \A q \in Seq(ScopeType) : \A x \in ScopeType :
           /\ stack \o Append(q, x) = Append(stack \o q, x)
           /\ Append(q, x) \in Seq(ScopeType) /\ stack \o q \in Seq(ScopeType)
      /\ \A x, y \in ScopeType : <<x, y>> = Append(<<x>>, y)
      /\ \A x, y, z \in ScopeType : <<x, y, z>> = Append(Append(<<x>>, y), z)
  OBVIOUS
<1>3. ASSUME NEW x \in ScopeType
      PROVE  /\ x.root => Same(<<x>>)
             /\ ~x.root => Chain(<<x>>) = <<x>> /\ Chain(stack \o <<x>>) = <<x>> \o Chain(stack)
  <2>1. Chain(Append(empty, x)) = IF x.root THEN <<x>> ELSE <<x>> \o Chain(empty)
    BY <1>1, ChainGrows
  <2>2. Chain(Append(stack, x)) = IF x.root THEN <<x>> ELSE <<x>> \o Chain(stack)
    BY ChainGrows
  <2> HIDE DEF empty
  <2> QED
    BY <1>1, <1>2, <2>1, <2>2
<1>4. ASSUME NEW q \in Seq(ScopeType), Same(q), NEW x \in ScopeType
      PROVE  Same(Append(q, x))
  <2>1. Chain(Append(q, x)) = IF x.root THEN <<x>> ELSE <<x>> \o Chain(q)
    BY ChainGrows
  <2>2. stack \o q \in Seq(ScopeType) /\ stack \o Append(q, x) = Append(stack \o q, x)
    BY <1>2
  <2>3. Chain(Append(stack \o q, x)) = IF x.root THEN <<x>> ELSE <<x>> \o Chain(stack \o q)
    BY <2>2, ChainGrows
  <2> QED
    BY <1>4, <2>1, <2>2, <2>3
<1> HIDE DEF Same, empty
<1>5. /\ IsA(n, Enclosed) => \E x \in ScopeType : ~x.root /\ Own(n) = <<x>>
      /\ ~IsA(n, Enclosed) =>
           \E x \in ScopeType : x.root /\ \/ Own(n) = <<x>>
                                          \/ \E y \in ScopeType : Own(n) = <<x, y>>
                                          \/ \E y, z \in ScopeType : Own(n) = <<x, y, z>>
  <2> DEFINE root == RootScope(n)
             d == N(n).declarations
             f == DeclaredBy(n)
             e == DeclaredBy(Primary(n))
             both == e \o d
             full == [RootScope(n) EXCEPT !.symbols = Inserted(f)]
  <2>1. d \in Seq(Nodes) /\ f \in Seq(Nodes) /\ e \in Seq(Nodes)
    BY NodeFacts, DeclaredAre, PrimaryIsNode
  <2>2. both \in Seq(Nodes)
    <3> HIDE DEF d, e
    <3> QED
      BY <2>1
  <2>3. \A g \in Seq(Nodes) : Scope(g) \in ScopeType /\ ~Scope(g).root
    BY ScopeIs
  <2>4. root \in ScopeType /\ root.root
    BY RootIs
  <2>5. full \in ScopeType /\ full.root
    <3>1. Inserted(f) \in Symbols
      BY <2>1, InsertedNames
    <3> HIDE DEF f
    <3> QED
      BY <3>1, RootIs
  <2>6. /\ IsA(n, {"entity"}) => Own(n) = <<full>>
        /\ IsA(n, {"package"}) => Own(n) = <<root, Scope(f)>>
        /\ IsA(n, {"package_instantiation"}) => Own(n) = <<root>>
        /\ IsA(n, {"architecture"}) => Own(n) = <<root, Scope(e), Scope(d)>>
        /\ IsA(n, {"package_body"}) => Own(n) = <<root, Scope(both)>>
        /\ IsA(n, {"block"}) => Own(n) = <<Scope(f)>>
        /\ IsA(n, Body) => Own(n) = <<Scope(d)>>
    BY OwnIs
  <2>7. /\ IsA(n, Enclosed) => IsA(n, {"block"}) \/ IsA(n, Body)
        /\ ~IsA(n, Enclosed) =>
             \/ IsA(n, {"entity"}) \/ IsA(n, {"package"}) \/ IsA(n, {"package_instantiation"})
             \/ IsA(n, {"architecture"}) \/ IsA(n, {"package_body"})
    BY DEF IsA, Regions, Body, Enclosed
  <2> HIDE DEF root, d, f, e, both, full
  <2> QED
    BY <2>1, <2>2, <2>3, <2>4, <2>5, <2>6, <2>7
<1>6. ChainOf(n) = IF IsA(n, Enclosed) THEN Chain(Own(n)) \o ChainOf(ParentOf(n)) ELSE Chain(Own(n))
  BY ChainOfIs DEF Links
<1>7. CASE IsA(n, Enclosed)
  BY <1>3, <1>5, <1>6, <1>7
<1>8. CASE ~IsA(n, Enclosed)
  <2>1. PICK x \in ScopeType : x.root /\ \/ Own(n) = <<x>>
                                         \/ \E y \in ScopeType : Own(n) = <<x, y>>
                                         \/ \E y, z \in ScopeType : Own(n) = <<x, y, z>>
    BY <1>5, <1>8
  <2>2. Same(<<x>>) /\ <<x>> \in Seq(ScopeType)
    BY <1>2, <1>3, <2>1
  <2>3. \A y \in ScopeType : Same(Append(<<x>>, y)) /\ Append(<<x>>, y) \in Seq(ScopeType)
    BY <1>2, <1>4, <2>2
  <2>4. \A y, z \in ScopeType : Same(Append(Append(<<x>>, y), z))
    BY <1>4, <2>3
  <2>5. Own(n) = <<x>> => Same(Own(n))
    BY <2>2
  <2>6. ASSUME NEW y \in ScopeType, Own(n) = <<x, y>> PROVE Same(Own(n))
    <3>1. Own(n) = Append(<<x>>, y)
      BY <1>2, <2>6
    <3> QED
      BY <2>3, <3>1
  <2>7. ASSUME NEW y \in ScopeType, NEW z \in ScopeType, Own(n) = <<x, y, z>> PROVE Same(Own(n))
    <3>1. Own(n) = Append(Append(<<x>>, y), z)
      BY <1>2, <2>7
    <3> QED
      BY <2>4, <3>1
  <2>8. Same(Own(n))
    BY <2>1, <2>5, <2>6, <2>7
  <2> QED
    BY <1>6, <1>8, <2>8 DEF Same
<1> QED
  BY <1>7, <1>8

LEMMA HoldersAreRegions ==
  ASSUME design \in Designs, NEW r \in Nodes, Children(r) # {}
  PROVE  IsA(r, Regions)
<1> DEFINE d == N(r).declarations
           t == N(r).statements
<1>1. d \in Seq(Nodes) /\ t \in Seq(Nodes) /\ r # None
  BY NodeFacts
<1>2. d # <<>> \/ t # <<>>
  <2> SUFFICES ASSUME d = <<>>, t = <<>> PROVE FALSE
    OBVIOUS
  <2> DEFINE e == <<>>
  <2>1. Items(r) = e \o e
    BY DEF Items
  <2>2. e \o e = e /\ ToSet(e) = {}
    BY DEF ToSet
  <2> QED
    BY <2>1, <2>2 DEF Children
<1>3. N(r).kind \in {"package", "entity", "architecture", "package_body", "block",
                     "generate", "process", "subprogram_body"}
  BY <1>2, KindsAssumption DEF N, Nodes
<1> QED
  BY <1>1, <1>3 DEF IsA, Regions

(* What a lookup at a region visits is what is declared around it.          *)
LEMMA RegionShows ==
  ASSUME design \in Designs, NEW n \in Nodes, IsA(n, Regions)
  PROVE  Shows(SymbolsOf(ChainOf(n)), Around(n))
<1> DEFINE Fit(r) == \E stack \in Seq(ScopeType) :
                       Chain(stack) = ChainOf(r) /\ Shows(View(stack), Around(r))
           S == {r \in Nodes : IsA(r, Regions) => Fit(r)}
<1>1. ASSUME NEW r \in Nodes, \A p \in Nodes : r \in Children(p) => p \in S
      PROVE  r \in S
  <2> SUFFICES ASSUME IsA(r, Regions) PROVE Fit(r)
    OBVIOUS
  <2>1. PICK stack \in Seq(ScopeType) :
          IsA(r, Enclosed) => /\ Chain(stack) = ChainOf(ParentOf(r))
                              /\ Shows(View(stack), Around(ParentOf(r)))
    <3>1. CASE ~IsA(r, Enclosed)
      <4>1. <<>> \in Seq(ScopeType)
        OBVIOUS
      <4> QED
        BY <3>1, <4>1
    <3>2. CASE IsA(r, Enclosed)
      <4>1. ParentOf(r) \in Nodes /\ r \in Children(ParentOf(r))
        BY <3>2, ParentIs
      <4>2. IsA(ParentOf(r), Regions) /\ ParentOf(r) \in S
        BY <1>1, <4>1, HoldersAreRegions
      <4> QED
        BY <4>2
    <3> QED
      BY <3>1, <3>2
  <2> DEFINE grown == stack \o Own(r)
  <2>2. Chain(grown) = ChainOf(r)
    BY <2>1, OwnChain
  <2>3. Shows(View(grown), Around(r))
    BY <2>1, OwnShows
  <2>4. grown \in Seq(ScopeType)
    <3>1. Own(r) \in Seq(ScopeType)
      BY OwnType
    <3> QED
      BY <3>1
  <2> HIDE DEF grown
  <2> QED
    BY <2>2, <2>3, <2>4
<1>2. n \in S
  <2> HIDE DEF S
  <2> QED
    BY <1>1, Downwards
<1> QED
  BY <1>2 DEF View

--------------------------------------------------------------------------------
(* The regions the walk is in, with what is still to be visited in each     *)
(* standing in it; and the scopes up to where those of the next region      *)
(* begin are those a lookup there visits by the nesting of the text.        *)
Top(fs, ss, k) == IF k = Len(fs) THEN Len(ss) ELSE fs[k + 1].base
Rests(stack, n) == IsA(n, Regions) /\ Chain(stack) = ChainOf(n)
Nests(fs, ss) ==
  /\ fs = <<>> => ss = <<>>
  /\ fs # <<>> => fs[1].base = 0
  /\ \A k \in 1..Len(fs) :
       /\ ToSet(fs[k].todo) \subseteq Children(fs[k].node)
       /\ Rests(SubSeq(ss, 1, Top(fs, ss, k)), fs[k].node)
NestInv == WalkInv /\ Nests(frames, scopes)

(* What is shown and around is a matter of the design. *)
LEMMA ShownIs ==
  ASSUME design' = design
  PROVE  /\ \A n : Children(n)' = Children(n)
         /\ \A n : ChainOf(n)' = ChainOf(n)
         /\ Nests(frames, scopes)' <=> Nests(frames', scopes')
<1>1. Nodes' = Nodes /\ Units' = Units
  BY DEF Nodes, Units
<1>2. \A n : N(n)' = N(n)
  BY DEF N
<1>3. \A n, kinds : IsA(n, kinds)' = IsA(n, kinds)
  BY DEF IsA, N
<1>4. \A n : Children(n)' = Children(n)
  BY DEF Children, Items, N
<1>5. \A n : ParentOf(n)' = ParentOf(n)
  BY DEF ParentOf, Children, Items, N, Nodes
<1>6. \A n : Primary(n)' = Primary(n) /\ DeclaredBy(n)' = DeclaredBy(n)
  BY DEF Primary, DeclaredBy, FindUnit, N, IsA, Units
<1>7. \A sy, d : InsertDeclaration(sy, d)' = InsertDeclaration(sy, d)
  BY DEF InsertDeclaration, IsA, N
<1>8. \A decls : Inserted(decls)' = Inserted(decls)
  BY <1>7 DEF Inserted
<1>9. \A kinds : OfKind(kinds)' = OfKind(kinds)
  BY <1>1, <1>3 DEF OfKind
<1>10. \A decls : Scope(decls)' = Scope(decls)
  BY <1>8, <1>9 DEF Scope
<1>11. \A n : RootScope(n)' = RootScope(n)
  BY <1>2, <1>10 DEF RootScope
<1>12. \A n : Own(n)' = Own(n)
  BY <1>2, <1>3, <1>6, <1>8, <1>10, <1>11 DEF Own
<1>13. \A stack : Chain(stack)' = Chain(stack)
  BY DEF Chain
<1>14. \A n : Links(n)' = Links(n)
  BY <1>3, <1>12, <1>13 DEF Links
<1>15. \A n : ChainOf(n)' = ChainOf(n)
  BY <1>1, <1>3, <1>5, <1>14 DEF ChainOf
<1>16. \A stack, n : Rests(stack, n)' = Rests(stack, n)
  BY <1>3, <1>13, <1>15 DEF Rests
<1>17. Nests(frames, scopes)' <=> Nests(frames', scopes')
  BY <1>4, <1>16 DEF Nests, Top
<1> QED
  BY <1>4, <1>15, <1>17

LEMMA NestInit ==
  ASSUME Init
  PROVE  NestInv
<1>1. frames = <<>> /\ scopes = <<>> /\ Len(frames) = 0
  BY DEF Init
<1>2. \A k \in 1..Len(frames) : FALSE
  BY <1>1
<1> QED
  BY <1>1, <1>2, WalkInit DEF NestInv, Nests

(* A stack is not changed below by what is put on it or taken from it. *)
LEMMA Below ==
  ASSUME NEW stack \in Seq(ScopeType)
  PROVE  /\ \A own \in Seq(ScopeType) : \A t \in 0..Len(stack) :
              SubSeq(stack \o own, 1, t) = SubSeq(stack, 1, t)
         /\ \A b \in 0..Len(stack) : \A t \in 0..b :
              SubSeq(SubSeq(stack, 1, b), 1, t) = SubSeq(stack, 1, t)
         /\ SubSeq(stack, 1, Len(stack)) = stack
         /\ \A t \in 0..Len(stack) : SubSeq(stack, 1, t) \in Seq(ScopeType)
                                     /\ Len(SubSeq(stack, 1, t)) = t
OBVIOUS

LEMMA EnterNests ==
  ASSUME NestInv, Entered
  PROVE  NestInv'
<1> DEFINE m == Len(frames)
           passed == Passed
           own == Own(Node)
           frame == [node |-> Node, todo |-> Todo(Node), base |-> Len(scopes)]
           fs == Append(passed, frame)
           ss == scopes \o own
<1>1. WalkInv /\ Nests(frames, scopes) /\ WalkInv'
  BY EnterKeeps DEF NestInv
<1>2. Walking /\ IsA(Node, Regions) /\ frames' = fs /\ scopes' = ss
  BY DEF Entered
<1>3. design' = design
  BY DEF Entered, Record
<1>4. design \in Designs /\ frames \in Seq(FrameType) /\ scopes \in Seq(ScopeType)
  BY <1>1 DEF WalkInv, Typed
<1>5. /\ Node \in Nodes /\ passed \in Seq(FrameType) /\ Len(passed) = m
      /\ frames = <<>> => IsA(Node, UnitKinds)
      /\ \A k \in 1..m : passed[k].base = frames[k].base /\ passed[k].node = frames[k].node
  BY <1>1, <1>2, NodeIs
<1>6. own \in Seq(ScopeType) /\ Todo(Node) \in Seq(Nodes)
  BY <1>2, <1>4, <1>5, OwnType
<1>7. ToSet(Todo(Node)) \subseteq Children(Node)
  BY DEF Todo, Children, ToSet
<1>8. frames # <<>> => /\ m \in 1..m
                       /\ Node \in Children(frames[m].node) /\ frames[m].node \in Nodes
                       /\ \A x \in ToSet(passed[m].todo) : x \in Children(frames[m].node)
                       /\ \A k \in 1..m : k # m => passed[k] = frames[k]
  <2> SUFFICES ASSUME frames # <<>>
               PROVE  /\ m \in 1..m
                      /\ Node \in Children(frames[m].node) /\ frames[m].node \in Nodes
                      /\ \A x \in ToSet(passed[m].todo) : x \in Children(frames[m].node)
                      /\ \A k \in 1..m : k # m => passed[k] = frames[k]
    OBVIOUS
  <2> DEFINE todo == frames[m].todo
             last == [frames[m] EXCEPT !.todo = Tail(todo)]
  <2>1. m \in Nat /\ m \in 1..m /\ frames[m] \in FrameType
    BY <1>4
  <2>2. todo \in Seq(Nodes) /\ todo # <<>> /\ frames[m].node \in Nodes
    BY <1>2, <2>1 DEF Walking, Here, FrameType
  <2>3. Node = Head(todo)
    BY DEF Node, Here
  <2>4. passed = [frames EXCEPT ![m] = last]
    BY DEF Passed
  <2>5. ToSet(todo) \subseteq Children(frames[m].node)
    BY <1>1, <2>1 DEF Nests
  <2> HIDE DEF todo
  <2>6. last.todo = Tail(todo)
    BY <2>1 DEF FrameType
  <2> HIDE DEF last
  <2>7. Head(todo) \in ToSet(todo) /\ ToSet(Tail(todo)) \subseteq ToSet(todo)
    BY <2>2 DEF ToSet
  <2> HIDE DEF m, passed
  <2>8. passed[m] = last /\ \A k \in 1..m : k # m => passed[k] = frames[k]
    BY <1>4, <2>1, <2>4 DEF m
  <2> QED
    BY <2>1, <2>2, <2>3, <2>5, <2>6, <2>7, <2>8
<1>9. \A k \in 1..m : ToSet(passed[k].todo) \subseteq Children(passed[k].node)
  BY <1>1, <1>5, <1>8 DEF Nests
<1> HIDE DEF passed, own
<1>10. frame \in FrameType /\ frame.base = Len(scopes) /\ frame.node = Node /\ frame.todo = Todo(Node)
  BY <1>4, <1>5, <1>6 DEF FrameType
<1> HIDE DEF frame
<1>11. /\ m \in Nat /\ fs \in Seq(FrameType) /\ Len(fs) = m + 1
       /\ \A k \in 1..m : fs[k] = passed[k]
       /\ fs[m + 1] = frame
  BY <1>4, <1>5, <1>10
<1> HIDE DEF fs
<1>12. \A k \in 1..m : Top(frames, scopes, k) \in 0..Len(scopes)
  <2> TAKE k \in 1..m
  <2>1. Len(scopes) \in 0..Len(scopes)
    BY <1>4
  <2>2. CASE k # m
    <3>1. k + 1 \in 1..m
      BY <1>11, <2>2
    <3>2. frames[k + 1] \in FrameType /\ frames[k + 1].base <= Len(scopes)
      BY <1>1, <1>4, <3>1 DEF WalkInv, Stacked
    <3>3. frames[k + 1].base \in 0..Len(scopes)
      BY <1>4, <3>2 DEF FrameType
    <3> QED
      BY <2>2, <3>3 DEF Top
  <2> QED
    BY <2>1, <2>2 DEF Top
<1>13. \A k \in 1..m : SubSeq(ss, 1, Top(fs, ss, k)) = SubSeq(scopes, 1, Top(frames, scopes, k))
  <2> TAKE k \in 1..m
  <2>1. Top(fs, ss, k) = Top(frames, scopes, k)
    <3>1. CASE k = m
      BY <1>10, <1>11, <3>1 DEF Top
    <3>2. CASE k # m
      <4>1. k + 1 \in 1..m /\ k # m + 1
        BY <1>11, <3>2
      <4> QED
        BY <1>5, <1>11, <3>2, <4>1 DEF Top
    <3> QED
      BY <3>1, <3>2
  <2> HIDE DEF m
  <2> QED
    BY <1>4, <1>6, <1>12, <2>1, Below
<1>14. SubSeq(ss, 1, Top(fs, ss, m + 1)) = ss
  <2>1. ss \in Seq(ScopeType)
    BY <1>4, <1>6
  <2> HIDE DEF ss
  <2> QED
    BY <1>11, <2>1, Below DEF Top
<1>15. Rests(ss, Node)
  <2>1. IsA(Node, Enclosed) => Chain(scopes) = ChainOf(ParentOf(Node))
    <3> HAVE IsA(Node, Enclosed)
    <3>1. frames # <<>>
      BY <1>5 DEF IsA, Enclosed, UnitKinds
    <3>2. ParentOf(Node) = frames[m].node
      BY <1>4, <1>5, <1>8, <3>1, ParentIs
    <3>3. SubSeq(scopes, 1, Top(frames, scopes, m)) = scopes
      BY <1>4, Below DEF Top
    <3> QED
      BY <1>1, <1>8, <3>1, <3>2, <3>3 DEF Nests, Rests
  <2> QED
    BY <1>2, <1>4, <1>5, <2>1, OwnChain DEF own, Rests
<1>16. \A k \in 1..(m + 1) : k = m + 1 \/ k \in 1..m
  BY <1>11
<1>17. fs[1].base = 0 /\ fs # <<>>
  <2>1. CASE m = 0
    <3>1. frames = <<>> /\ Len(scopes) = 0
      BY <1>1, <1>4, <2>1 DEF Nests
    <3>2. m + 1 = 1
      BY <2>1
    <3>3. fs[1] = frame /\ Len(fs) = 1
      BY <1>11, <3>2
    <3> HIDE DEF m, ss
    <3>4. fs[1].base = 0
      BY <1>10, <3>1, <3>3
    <3>5. fs # <<>>
      BY <1>11, <3>3
    <3> QED
      BY <3>4, <3>5
  <2>2. CASE m # 0
    <3>1. 1 \in 1..m /\ frames # <<>> /\ Len(fs) # 0
      BY <1>11, <2>2
    <3>2. fs # <<>>
      BY <3>1
    <3> QED
      BY <1>1, <1>5, <1>11, <3>1, <3>2 DEF Nests
  <2> QED
    BY <2>1, <2>2
<1> HIDE DEF m, ss
<1>18. ASSUME NEW k \in 1..(m + 1)
       PROVE  /\ ToSet(fs[k].todo) \subseteq Children(fs[k].node)
              /\ Rests(SubSeq(ss, 1, Top(fs, ss, k)), fs[k].node)
  <2>1. CASE k = m + 1
    BY <1>7, <1>10, <1>11, <1>14, <1>15, <2>1
  <2>2. CASE k \in 1..m
    BY <1>1, <1>5, <1>9, <1>11, <1>13, <2>2 DEF Nests, m
  <2> QED
    BY <1>16, <2>1, <2>2
<1>19. Nests(fs, ss)
  BY <1>11, <1>17, <1>18 DEF Nests
<1> QED
  BY <1>1, <1>2, <1>3, <1>19, ShownIs DEF NestInv, ss

LEMMA PassNests ==
  ASSUME NestInv, PassedBy
  PROVE  NestInv'
<1> DEFINE m == Len(frames)
           passed == Passed
<1>1. WalkInv /\ Nests(frames, scopes) /\ WalkInv'
  BY PassKeeps DEF NestInv
<1>2. Walking /\ ~IsA(Node, UnitKinds) /\ frames' = passed /\ scopes' = scopes
  BY DEF PassedBy, IsA, Regions, UnitKinds
<1>3. design' = design
  BY DEF PassedBy, Record
<1>4. frames \in Seq(FrameType) /\ scopes \in Seq(ScopeType)
  BY <1>1 DEF WalkInv, Typed
<1>5. /\ passed \in Seq(FrameType) /\ Len(passed) = m
      /\ frames # <<>>
      /\ \A k \in 1..m : passed[k].base = frames[k].base /\ passed[k].node = frames[k].node
  BY <1>1, <1>2, NodeIs
<1>6. \A k \in 1..m : ToSet(passed[k].todo) \subseteq ToSet(frames[k].todo)
  <2> DEFINE todo == frames[m].todo
             last == [frames[m] EXCEPT !.todo = Tail(todo)]
  <2>1. m \in Nat /\ m \in 1..m /\ frames[m] \in FrameType
    BY <1>4, <1>5
  <2>2. todo \in Seq(Nodes) /\ todo # <<>>
    BY <1>2, <1>5, <2>1 DEF Walking, Here, FrameType
  <2>3. passed = [frames EXCEPT ![m] = last]
    BY <1>5 DEF Passed
  <2> HIDE DEF todo
  <2>4. last.todo = Tail(todo)
    BY <2>1 DEF FrameType
  <2> HIDE DEF last
  <2>5. ToSet(Tail(todo)) \subseteq ToSet(todo)
    BY <2>2 DEF ToSet
  <2> HIDE DEF m, passed
  <2>6. passed[m] = last /\ \A k \in 1..m : k # m => passed[k] = frames[k]
    BY <1>4, <2>1, <2>3 DEF m
  <2> QED
    BY <2>4, <2>5, <2>6 DEF todo
<1> HIDE DEF passed
<1>7. \A k \in 1..m : Top(passed, scopes, k) = Top(frames, scopes, k)
  <2> TAKE k \in 1..m
  <2>1. CASE k = m
    BY <1>5, <2>1 DEF Top
  <2>2. CASE k # m
    <3>1. k + 1 \in 1..m
      BY <1>4, <2>2
    <3> QED
      BY <1>5, <2>2, <3>1 DEF Top
  <2> QED
    BY <2>1, <2>2
<1>8. passed # <<>> /\ passed[1].base = 0
  <2>1. 1 \in 1..m /\ Len(passed) # 0
    BY <1>4, <1>5
  <2>2. passed # <<>>
    BY <2>1
  <2> QED
    BY <1>1, <1>5, <2>1, <2>2 DEF Nests
<1>9. Nests(passed, scopes)
  BY <1>1, <1>5, <1>6, <1>7, <1>8 DEF Nests
<1> QED
  BY <1>1, <1>2, <1>3, <1>9, ShownIs DEF NestInv

LEMMA LeaveNests ==
  ASSUME NestInv, Leave
  PROVE  NestInv'
<1> DEFINE m == Len(frames)
           b == frames[m].base
           fs == frames'
           ss == SubSeq(scopes, 1, b)
<1>1. WalkInv /\ Nests(frames, scopes)
  BY DEF NestInv
<1>2. /\ WalkInv' /\ design' = design /\ Len(fs) = m - 1
      /\ \A k \in 1..(m - 1) : fs[k] = frames[k]
      /\ scopes' = ss /\ b \in 0..Len(scopes)
  BY <1>1, LeaveKeeps
<1>3. frames \in Seq(FrameType) /\ scopes \in Seq(ScopeType) /\ frames # <<>>
  BY <1>1 DEF WalkInv, Typed, Leave
<1>4. fs \in Seq(FrameType)
  BY <1>2, Fixed DEF WalkInv, Typed
<1>5. m \in Nat /\ m # 0 /\ m \in 1..m /\ \A k \in 1..m : frames[k].base \in Nat
  <2>1. \A f \in FrameType : f.base \in Nat
    BY DEF FrameType
  <2> QED
    BY <1>3, <2>1
<1>6. Len(ss) = b
  BY <1>2, <1>3, Below
<1> HIDE DEF fs
<1>7. \A k \in 1..(m - 1) : /\ Top(fs, ss, k) = Top(frames, scopes, k)
                            /\ Top(frames, scopes, k) \in 0..b
  <2> TAKE k \in 1..(m - 1)
  <2>1. k + 1 \in 1..m /\ k # m /\ m - 1 \in 1..(m - 1)
    BY <1>5
  <2>2. Top(frames, scopes, k) = frames[k + 1].base
    BY <2>1 DEF Top
  <2>3. frames[k + 1].base <= b
    BY <1>1, <1>5, <2>1 DEF WalkInv, Stacked
  <2>4. Top(frames, scopes, k) \in 0..b
    BY <1>2, <1>3, <1>5, <2>1, <2>2, <2>3
  <2>5. CASE k = m - 1
    <3>1. k + 1 = m
      BY <1>5, <2>5
    <3> QED
      BY <1>2, <1>6, <2>2, <2>4, <2>5, <3>1 DEF Top
  <2>6. CASE k # m - 1
    <3>1. k + 1 \in 1..(m - 1)
      BY <1>5, <2>6
    <3> QED
      BY <1>2, <2>2, <2>4, <2>6, <3>1 DEF Top
  <2> QED
    BY <2>5, <2>6
<1> HIDE DEF m
<1>8. \A k \in 1..(m - 1) : SubSeq(ss, 1, Top(fs, ss, k)) = SubSeq(scopes, 1, Top(frames, scopes, k))
  BY <1>2, <1>3, <1>7, Below
<1>9. \A k \in 1..(m - 1) : k \in 1..m
  BY <1>5
<1> HIDE DEF ss, b
<1>10. \A k \in 1..Len(fs) :
         /\ ToSet(fs[k].todo) \subseteq Children(fs[k].node)
         /\ Rests(SubSeq(ss, 1, Top(fs, ss, k)), fs[k].node)
  BY <1>1, <1>2, <1>8, <1>9 DEF Nests, m
<1>11. frames[1].base = 0
  BY <1>1, <1>3 DEF Nests
<1>12. fs = <<>> => ss = <<>>
  <2> HAVE fs = <<>>
  <2>1. m = 1
    BY <1>2, <1>5
  <2>2. b = 0
    BY <1>11, <2>1 DEF b
  <2>3. ss \in Seq(ScopeType) /\ Len(ss) = 0
    BY <1>2, <1>3, <1>6, <2>2, Below DEF ss
  <2> QED
    BY <2>3
<1>13. fs # <<>> => fs[1].base = 0
  <2> HAVE fs # <<>>
  <2>1. Len(fs) \in Nat /\ Len(fs) # 0
    BY <1>4
  <2>2. 1 \in 1..(m - 1)
    BY <1>2, <1>5, <2>1
  <2> QED
    BY <1>2, <1>11, <2>2
<1>14. Nests(fs, ss)
  BY <1>10, <1>12, <1>13 DEF Nests
<1> QED
  BY <1>2, <1>14, ShownIs DEF NestInv, fs

LEMMA IdleNests ==
  ASSUME NestInv, Link \/ ResolveReferences \/ UNCHANGED vars
  PROVE  NestInv'
<1>1. WalkInv /\ Nests(frames, scopes)
  BY DEF NestInv
<1>2. WalkInv'
  BY <1>1, LinkKeeps, StartKeeps, SameKeeps
<1>3. design' = design /\ frames' = frames /\ scopes' = scopes
  BY DEF Link, ResolveReferences, vars
<1> QED
  BY <1>1, <1>2, <1>3, ShownIs DEF NestInv

LEMMA NestStep ==
  ASSUME NestInv, [Next]_vars
  PROVE  NestInv'
<1>1. CASE Resolve
  <2>1. Entered \/ PassedBy \/ Leave \/ Link
    BY <1>1, ResolveCases DEF NestInv
  <2> QED
    BY <2>1, EnterNests, PassNests, LeaveNests, IdleNests
<1>2. CASE ResolveReferences \/ Done \/ UNCHANGED vars
  BY <1>2, IdleNests DEF Done
<1> QED
  BY <1>1, <1>2 DEF Next

LEMMA NestInvariant == Spec => []NestInv
<1>1. Init => NestInv
  BY NestInit
<1>2. NestInv /\ [Next]_vars => NestInv'
  BY NestStep
<1> QED
  BY <1>1, <1>2, PTL DEF Spec

LEMMA RegionsFollow ==
  ASSUME NestInv
  PROVE  ScopesAreTheRegionsAround
<1>1. WalkInv /\ Nests(frames, scopes)
  BY DEF NestInv
<1>2. design \in Designs /\ frames \in Seq(FrameType) /\ scopes \in Seq(ScopeType)
  BY <1>1 DEF WalkInv, Typed
<1>3. CASE frames = <<>>
  BY <1>1, <1>3 DEF Nests, ScopesAreTheRegionsAround
<1>4. CASE frames # <<>>
  <2> DEFINE chain == Chain(scopes)
             n == Here.node
             groups == Around(n)
             W == SUBSET Ids
             of == [k \in DOMAIN chain |-> DOMAIN chain[k].symbols]
             in == [k \in DOMAIN groups |-> NamesIn(groups[k])]
             m == Len(groups)
             none == {}
  <2>1. Len(frames) \in Nat /\ Len(frames) \in 1..Len(frames) /\ frames[Len(frames)] \in FrameType
    BY <1>2, <1>4
  <2>2. n \in Nodes
    BY <2>1 DEF Here, FrameType
  <2>3. Shows(SymbolsOf(chain), groups)
    <3>1. SubSeq(scopes, 1, Top(frames, scopes, Len(frames))) = scopes
      BY <1>2, Below DEF Top
    <3>2. Rests(scopes, n)
      BY <1>1, <2>1, <3>1 DEF Nests, Here
    <3> QED
      BY <1>2, <2>2, <3>2, RegionShows DEF Rests
  <2>4. groups \in Seq(Seq(Nodes))
    BY <1>2, <2>2, AroundIs
  <2>5. chain \in Seq(ScopeType)
    BY <1>2, ChainType
  <2>6. ScopesAreTheRegionsAround <=> Telling(of) = Telling(in)
    BY <1>4 DEF ScopesAreTheRegionsAround
  <2> HIDE DEF chain, groups
  <2>7. \A g \in Seq(Nodes) : Inserted(g) \in Symbols /\ DOMAIN Inserted(g) = NamesIn(g)
    BY <1>2, InsertedNames
  <2>8. \A sy \in Symbols : DOMAIN sy \in W
    BY DEF Symbols
  <2>9. m \in Nat /\ DOMAIN groups = 1..m /\ \A k \in 1..m : groups[k] \in Seq(Nodes)
    BY <2>4
  <2>10. in \in Seq(W) /\ Len(in) = m
    <3>1. \A k \in 1..m : NamesIn(groups[k]) \in W
      BY <2>7, <2>8, <2>9
    <3>2. in = [k \in 1..m |-> NamesIn(groups[k])]
      BY <2>9
    <3>3. in \in [1..m -> W]
      BY <3>1, <3>2
    <3> HIDE DEF in
    <3> QED
      BY <2>9, <3>3, FunctionIsSeq
  <2>11. DOMAIN chain = 1..Len(chain) /\ Len(chain) \in Nat /\ \A k \in 1..Len(chain) : chain[k].symbols \in Symbols
    <3>1. \A s \in ScopeType : s.symbols \in Symbols
      BY DEF ScopeType
    <3> QED
      BY <2>5, <3>1
  <2>12. SymbolsOf(chain) \in [1..Len(chain) -> Symbols]
    BY <2>11 DEF SymbolsOf
  <2>13. Declares(groups) \in [1..m -> Symbols] /\ \A k \in 1..m : Declares(groups)[k] = Inserted(groups[k])
    BY <2>7, <2>9 DEF Declares
  <2>14. /\ SymbolsOf(chain) \in Seq(Symbols) /\ Len(SymbolsOf(chain)) = Len(chain)
         /\ Declares(groups) \in Seq(Symbols) /\ Len(Declares(groups)) = m
    BY <2>9, <2>11, <2>12, <2>13, FunctionIsSeq
  <2>15. of = [k \in 1..Len(chain) |-> DOMAIN SymbolsOf(chain)[k]]
    BY <2>11 DEF SymbolsOf
  <2> HIDE DEF m, n, of, W
  <2>16. CASE SymbolsOf(chain) = Declares(groups)
    <3>1. of = in
      BY <2>7, <2>9, <2>13, <2>14, <2>15, <2>16
    <3> QED
      BY <2>6, <3>1
  <2>17. CASE SymbolsOf(chain) = Append(Declares(groups), Inserted(<<>>))
    <3> DEFINE ds == Declares(groups)
               e == Inserted(<<>>)
               more == Append(in, none)
    <3>1. e \in Symbols /\ DOMAIN e = none
      <4>1. <<>> \in Seq(Nodes) /\ NamesIn(<<>>) = {}
        BY DEF NamesIn, ToSet
      <4> QED
        BY <2>7, <4>1
    <3>2. \A k \in 1..m : in[k] = DOMAIN ds[k]
      BY <2>7, <2>9, <2>13
    <3> HIDE DEF ds, e
    <3>3. Len(chain) = m + 1
          /\ \A k \in 1..(m + 1) : SymbolsOf(chain)[k] = IF k = m + 1 THEN e ELSE ds[k]
      BY <2>9, <2>14, <2>17, <3>1 DEF ds, e
    <3> HIDE DEF in
    <3>4. none \in W
      BY DEF W
    <3> HIDE DEF none
    <3>5. more \in Seq(W) /\ Len(more) = m + 1
          /\ \A k \in 1..(m + 1) : more[k] = IF k = m + 1 THEN none ELSE in[k]
      BY <2>9, <2>10, <3>4
    <3>6. of = more
      <4>1. \A k \in 1..(m + 1) : k = m + 1 \/ k \in 1..m
        BY <2>9
      <4>2. \A k \in 1..(m + 1) : DOMAIN SymbolsOf(chain)[k] = more[k]
        BY <3>1, <3>2, <3>3, <3>5, <4>1
      <4>3. of = [k \in 1..(m + 1) |-> DOMAIN SymbolsOf(chain)[k]]
        BY <2>15, <3>3
      <4>4. more = [k \in 1..(m + 1) |-> more[k]]
        <5>1. \A q \in Seq(W) : q = [k \in 1..Len(q) |-> q[k]]
          OBVIOUS
        <5> HIDE DEF more
        <5> QED
          BY <3>5, <5>1
      <4> HIDE DEF more
      <4> QED
        BY <4>2, <4>3, <4>4
    <3>7. ToSet(more) \ {{}} = ToSet(in) \ {{}}
      BY <2>9, <2>10 DEF ToSet, none
    <3>8. Among(more, ToSet(in) \ {{}}) = Among(in, ToSet(in) \ {{}})
      <4>1. none \notin ToSet(in) \ {{}}
        BY DEF none
      <4> QED
        BY <2>10, <3>4, <4>1, AmongAppend
    <3> HIDE DEF more
    <3>9. Telling(more) = Telling(in)
      BY <3>7, <3>8 DEF Telling
    <3> QED
      BY <2>6, <3>6, <3>9
  <2> QED
    BY <2>3, <2>16, <2>17 DEF Shows
<1> QED
  BY <1>3, <1>4

(* At every moment of the walk the scopes a lookup would visit are those of *)
(* the regions around the node, by the text, innermost first: none is left  *)
(* over from a region that has ended, none is missing, none is behind a     *)
(* root, in every design and however deep it nests.                         *)
THEOREM ScopesAreRegions == Spec => []ScopesAreTheRegionsAround
<1>1. Spec => []NestInv
  BY NestInvariant
<1>2. NestInv => ScopesAreTheRegionsAround
  BY RegionsFollow
<1> QED
  BY <1>1, <1>2, PTL

--------------------------------------------------------------------------------
(* What a slot means by the text alone, and whether what a handler finds is *)
(* that.                                                                    *)
LookedUpIn(s) ==
  IF s[2] = "designator" /\ IsA(s[1], {"block"}) THEN s[1] ELSE RegionOf(s)
UnitMeant(n) ==
  IF IsA(n, {"architecture", "package_body"}) THEN Primary(n)
  ELSE IF IsA(n, {"package_instantiation"}) THEN FindUnit("package", N(n).lib, N(n).of)
  ELSE FindUnit("entity", Lib(ChainOf(ParentOf(n))), N(n).of)
Sought(s) ==
  IF s[2] \in {"names", "outer", "actual", "designator"}
  THEN Lookup(ChainOf(LookedUpIn(s)), NameOf(s))
  ELSE IF s[2] = "component" THEN AsComponent(Lookup(ChainOf(ParentOf(s[1])), N(s[1]).of))
  ELSE Candidate(UnitMeant(s[1]))
Seeks(found) == \A s \in DOMAIN found : Rebound(s) \/ found[s] = Sought(s)

Attempted(nodes, part) ==
  {s \in UNION {Numbered(n, part, N(n)[part]) : n \in nodes} :
     ~LooksLikeLiteral(N(s[1])[part][s[3]])}

LEMMA Triples ==
  \A x, y, z : <<x, y, z>>[1] = x /\ <<x, y, z>>[2] = y /\ <<x, y, z>>[3] = z
OBVIOUS

LEMMA NamesFoundAre ==
  ASSUME NEW chain, NEW nodes, NEW part
  PROVE  /\ DOMAIN NamesFound(chain, nodes, part) = Attempted(nodes, part)
         /\ \A s \in Attempted(nodes, part) :
              /\ s[1] \in nodes /\ s[2] = part
              /\ NamesFound(chain, nodes, part)[s] = Lookup(chain, NameOf(s))
<1>1. DOMAIN NamesFound(chain, nodes, part) = Attempted(nodes, part)
      /\ \A s \in Attempted(nodes, part) :
           NamesFound(chain, nodes, part)[s] = Lookup(chain, N(s[1])[part][s[3]])
  BY DEF NamesFound, Attempted
<1>2. ASSUME NEW s \in Attempted(nodes, part)
      PROVE  s[1] \in nodes /\ s[2] = part
  <2>1. PICK n \in nodes : s \in Numbered(n, part, N(n)[part])
    BY DEF Attempted
  <2>2. \E i : s = <<n, part, i>>
    BY <2>1 DEF Numbered
  <2> QED
    BY <2>2, Triples
<1> QED
  BY <1>1, <1>2 DEF NameOf

LEMMA SeeksBoth ==
  ASSUME NEW f, Seeks(f), NEW g, Seeks(g)
  PROVE  Seeks(f ++ g)
BY DEF Seeks, ++

LEMMA SeeksPart ==
  ASSUME NEW chain, NEW nodes, NEW part \in {"names", "outer", "actual", "designator"},
         \A s : s[1] \in nodes /\ s[2] = part => Rebound(s) \/ ChainOf(LookedUpIn(s)) = chain
  PROVE  Seeks(NamesFound(chain, nodes, part))
BY NamesFoundAre DEF Seeks, Sought

LEMMA SeeksNames ==
  ASSUME NEW chain, NEW nodes, NEW part \in {"names", "outer"},
         \A s : s[1] \in nodes /\ s[2] = part => ChainOf(RegionOf(s)) = chain
  PROVE  Seeks(NamesFound(chain, nodes, part))
<1>1. \A s : s[2] = part => LookedUpIn(s) = RegionOf(s)
  BY DEF LookedUpIn
<1> QED
  BY <1>1, SeeksPart

LEMMA SeeksActuals ==
  ASSUME NEW actual, NEW current, NEW n,
         \/ IsA(n, {"configuration_specification"})
         \/ \A s : s[1] = n =>
              /\ s[2] = "actual" => ChainOf(LookedUpIn(s)) = actual
              /\ s[2] = "designator" => ChainOf(LookedUpIn(s)) = current
  PROVE  Seeks(ActualsFound(actual, current, n))
<1>1. \A s : s[1] \in {n} =>
        /\ s[2] = "actual" => Rebound(s) \/ ChainOf(LookedUpIn(s)) = actual
        /\ s[2] = "designator" => Rebound(s) \/ ChainOf(LookedUpIn(s)) = current
  BY DEF Rebound
<1>2. Seeks(NamesFound(actual, {n}, "actual"))
  BY <1>1, SeeksPart
<1>3. Seeks(NamesFound(current, {n}, "designator"))
  BY <1>1, SeeksPart
<1> QED
  BY <1>2, <1>3, SeeksBoth DEF ActualsFound

LEMMA SeeksFormals ==
  ASSUME NEW chain, NEW n
  PROVE  Seeks(FormalsFound(chain, n))
BY NamesFoundAre DEF Seeks, FormalsFound, Rebound

LEMMA SeeksUnit ==
  ASSUME NEW n, NEW u,
         u = UnitMeant(n) \/ IsA(n, {"configuration_specification", "component_instantiation"})
  PROVE  Seeks(UnitFound(n, u))
<1> DEFINE s == <<n, "unit", 0>>
<1>1. s[1] = n /\ s[2] = "unit"
  BY Triples
<1>2. DOMAIN UnitFound(n, u) = {s} /\ UnitFound(n, u)[s] = Candidate(u)
  BY DEF UnitFound
<1> HIDE DEF s
<1>3. CASE IsA(n, {"configuration_specification", "component_instantiation"})
  BY <1>1, <1>2, <1>3 DEF Seeks, Rebound, IsA
<1>4. CASE u = UnitMeant(n)
  BY <1>1, <1>2, <1>4 DEF Seeks, Sought
<1> QED
  BY <1>3, <1>4

LEMMA SeeksComponent ==
  ASSUME NEW chain, NEW n,
         chain = ChainOf(ParentOf(n)) \/ IsA(n, {"configuration_specification"})
  PROVE  Seeks(ComponentFound(chain, n))
<1> DEFINE s == <<n, "component", 0>>
<1>1. s[1] = n /\ s[2] = "component"
  BY Triples
<1>2. DOMAIN ComponentFound(chain, n) = {s}
      /\ ComponentFound(chain, n)[s] = AsComponent(Lookup(chain, N(n).of))
  BY DEF ComponentFound
<1> HIDE DEF s
<1> QED
  BY <1>1, <1>2 DEF Seeks, Sought, Rebound

LEMMA SeeksNothing == Seeks(<<>>)
BY DEF Seeks

(* A specification is resolved wherever it matches: each of its slots may   *)
(* be bound again.                                                          *)
LEMMA SeeksBinding ==
  ASSUME NEW chain, NEW spec, IsA(spec, {"configuration_specification"})
  PROVE  Seeks(BindingFound(chain, spec))
<1> DEFINE e == FindUnit("entity", Lib(chain), N(spec).target)
<1>1. IsA(spec, {"configuration_specification", "component_instantiation"})
  BY DEF IsA
<1>2. Seeks(UnitFound(spec, e)) /\ Seeks(ActualsFound(chain, chain, spec))
      /\ Seeks(FormalsFound(FormalScope(Lib(chain), InterfacesOf(e)), spec))
  BY <1>1, SeeksUnit, SeeksActuals, SeeksFormals
<1> QED
  BY <1>2, SeeksBoth, SeeksNothing DEF BindingFound

--------------------------------------------------------------------------------
(* Where the nodes stand: the walk comes to units and to what stands among  *)
(* the declarations and statements of another node; interfaces and          *)
(* specifications of bodies are resolved with the node that has them.       *)
Visited(n) == n \in ToSet(Units) \/ \E r \in Nodes : n \in Children(r)
BodiesOf(n) == {b \in Nodes : IsA(b, {"subprogram_body"}) /\ N(b).specification = n}

LEMMA PlacesAre ==
  ASSUME design \in Designs, NEW n \in Nodes
  PROVE  /\ \A i \in ToSet(N(n).interfaces) :
              i \in Nodes /\ i \in Owned /\ Owner(i) = n /\ IsA(i, {"signal"})
         /\ Visited(n) => n \notin Owned /\ BodiesOf(n) = {}
         /\ IsA(n, {"subprogram_body"}) =>
              /\ N(n).specification \in Nodes /\ N(n).specification \notin Owned
              /\ BodiesOf(N(n).specification) = {n}
<1>1. \A x \in Nodes :
        /\ Holders(design, x) = {r \in Nodes : x \in Children(r)}
        /\ Owners(design, x) = {r \in Nodes : x \in ToSet(N(r).interfaces)}
        /\ Bodies(design, x) = BodiesOf(x)
  <2>1. \A b \in Nodes : b # None
    BY NodeFacts
  <2> QED
    BY <2>1 DEF Holders, Owners, Bodies, BodiesOf, Children, Items, N, Nodes, IsA
<1>2. \A x \in Nodes :
        /\ \A r, s \in Owners(design, x) \cup Bodies(design, x) : r = s
        /\ Holders(design, x) \cap Owners(design, x) = {}
        /\ Holders(design, x) \cap Bodies(design, x) = {}
        /\ Owners(design, x) \cap Bodies(design, x) = {}
        /\ \A r \in Holders(design, x) : \A s \in Owners(design, x) \cup Bodies(design, x) : r = s
        /\ x \in ToSet(Units) => Owners(design, x) \cup Bodies(design, x) = {}
        /\ Owners(design, x) # {} => N(x).kind = "signal"
  BY ForestAssumption, KindsAssumption DEF Nodes, Units, N
<1>3. \A x \in Nodes : x \in Owned <=> Owners(design, x) # {}
  BY <1>1 DEF Owned
<1>4. ASSUME NEW i \in ToSet(N(n).interfaces)
      PROVE  i \in Nodes /\ i \in Owned /\ Owner(i) = n /\ IsA(i, {"signal"})
  <2>1. i \in Nodes
    <3>1. N(n).interfaces \in Seq(Nodes)
      BY NodeFacts
    <3> QED
      BY <1>4, <3>1 DEF ToSet
  <2>2. n \in Owners(design, i)
    BY <1>1, <2>1
  <2>3. Owner(i) \in Owners(design, i)
    BY <1>1, <2>1, <2>2 DEF Owner
  <2>4. Owner(i) = n
    BY <1>2, <2>1, <2>2, <2>3
  <2>5. i # None
    BY <2>1, NodeFacts
  <2> QED
    BY <1>2, <1>3, <2>1, <2>2, <2>4, <2>5 DEF IsA
<1>5. Visited(n) => n \notin Owned /\ BodiesOf(n) = {}
  <2>1. CASE n \in ToSet(Units)
    BY <1>1, <1>2, <1>3, <2>1
  <2>2. CASE \E r \in Nodes : n \in Children(r)
    <3>1. PICK r \in Nodes : n \in Children(r)
      BY <2>2
    <3>2. r \in Holders(design, n)
      BY <1>1, <3>1
    <3> QED
      BY <1>1, <1>2, <1>3, <3>2
  <2> QED
    BY <2>1, <2>2 DEF Visited
<1>6. ASSUME IsA(n, {"subprogram_body"})
      PROVE  /\ N(n).specification \in Nodes /\ N(n).specification \notin Owned
             /\ BodiesOf(N(n).specification) = {n}
  <2> DEFINE x == N(n).specification
  <2>1. x \in Nodes
    BY <1>6, NodeFacts DEF IsA
  <2>2. n \in BodiesOf(x)
    BY <1>6 DEF BodiesOf
  <2> HIDE DEF x
  <2>3. n \in Bodies(design, x)
    BY <1>1, <2>1, <2>2
  <2>4. Bodies(design, x) = {n} /\ Owners(design, x) = {}
    BY <1>2, <2>1, <2>3
  <2> QED
    BY <1>1, <1>3, <2>1, <2>4 DEF x
<1> QED
  BY <1>4, <1>5, <1>6

LEMMA RegionIs ==
  ASSUME design \in Designs, NEW n \in Nodes, Visited(n)
  PROVE  /\ \A s : s[1] = n /\ ~(IsA(n, Regions) /\ s[2] = "names")
                    /\ ~IsA(n, {"package", "package_instantiation"}) =>
              RegionOf(s) = ParentOf(n)
         /\ \A s : s[1] = n /\ IsA(n, {"package", "package_instantiation"}) => RegionOf(s) = n
         /\ \A s : s[1] \in ToSet(N(n).interfaces) /\ s[2] = "names" =>
              RegionOf(s) = IF IsA(n, Regions) THEN n ELSE ParentOf(n)
         /\ IsA(n, {"subprogram_body"}) => \A s :
              s[1] = N(n).specification \/ s[1] \in ToSet(N(N(n).specification).interfaces) =>
                RegionOf(s) = ParentOf(n)
<1> DEFINE Of(s) == IF s[1] \in Owned THEN Owner(s[1]) ELSE s[1]
<1>1. \A s : RegionOf(s) =
         IF BodiesOf(Of(s)) # {} THEN ParentOf(CHOOSE b \in BodiesOf(Of(s)) : TRUE)
         ELSE IF \/ IsA(Of(s), Regions) /\ s[2] = "names"
                 \/ IsA(Of(s), {"package", "package_instantiation"})
              THEN Of(s) ELSE ParentOf(Of(s))
  <2> TAKE s
  <2> DEFINE o == Of(s)
             bodies == BodiesOf(o)
  <2>1. RegionOf(s) = CASE bodies # {} -> ParentOf(CHOOSE b \in bodies : TRUE)
                        [] IsA(o, Regions) /\ s[2] = "names" -> o
                        [] IsA(o, {"package", "package_instantiation"}) -> o
                        [] OTHER -> ParentOf(o)
    BY DEF RegionOf, BodiesOf
  <2>2. ~(IsA(o, Regions) /\ bodies # {})
    <3> SUFFICES ASSUME IsA(o, Regions), bodies # {} PROVE FALSE
      OBVIOUS
    <3>1. PICK b \in Nodes : IsA(b, {"subprogram_body"}) /\ N(b).specification = o
      BY DEF BodiesOf
    <3>2. o \in Nodes
      BY <3>1, PlacesAre
    <3>3. Bodies(design, o) # {}
      BY <3>1 DEF Bodies, IsA, N, Nodes
    <3>4. N(o).kind = "subprogram_declaration"
      BY <3>2, <3>3, KindsAssumption DEF N, Nodes
    <3> QED
      BY <3>4 DEF IsA, Regions
  <2>3. IsA(o, {"package", "package_instantiation"}) => IsA(o, Regions)
    BY DEF IsA, Regions
  <2> HIDE DEF o, bodies
  <2> QED
    BY <2>1, <2>2, <2>3 DEF o, bodies
<1>2. n \notin Owned /\ BodiesOf(n) = {}
  BY PlacesAre
<1>3. ASSUME NEW s, s[1] = n PROVE Of(s) = n
  BY <1>2, <1>3
<1>4. ASSUME NEW s, s[1] \in ToSet(N(n).interfaces) PROVE Of(s) = n
  BY <1>4, PlacesAre
<1>5. ASSUME IsA(n, {"subprogram_body"}), NEW s,
             s[1] = N(n).specification \/ s[1] \in ToSet(N(N(n).specification).interfaces)
      PROVE  RegionOf(s) = ParentOf(n)
  <2> DEFINE x == N(n).specification
  <2>1. x \in Nodes /\ x \notin Owned /\ BodiesOf(x) = {n}
    BY <1>5, PlacesAre
  <2> HIDE DEF x
  <2>2. \A i \in ToSet(N(x).interfaces) : i \in Owned /\ Owner(i) = x
    BY <2>1, PlacesAre
  <2>3. Of(s) = x
    BY <1>5, <2>1, <2>2 DEF x
  <2>4. (CHOOSE b \in BodiesOf(x) : TRUE) = n
    BY <2>1
  <2> HIDE DEF Of
  <2> QED
    BY <1>1, <2>1, <2>3, <2>4
<1> HIDE DEF Of
<1>6. /\ \A s : s[1] = n /\ ~(IsA(n, Regions) /\ s[2] = "names")
                /\ ~IsA(n, {"package", "package_instantiation"}) =>
           RegionOf(s) = ParentOf(n)
      /\ \A s : s[1] = n /\ IsA(n, {"package", "package_instantiation"}) => RegionOf(s) = n
  BY <1>1, <1>2, <1>3
<1>7. \A s : s[1] \in ToSet(N(n).interfaces) /\ s[2] = "names" =>
        RegionOf(s) = IF IsA(n, Regions) THEN n ELSE ParentOf(n)
  <2>1. IsA(n, {"package", "package_instantiation"}) => IsA(n, Regions)
    BY DEF IsA, Regions
  <2> QED
    BY <1>1, <1>2, <1>4, <2>1
<1> QED
  BY <1>5, <1>6, <1>7

(* The actuals of a node are looked up in it or around it. *)
LEMMA ActualsAreIn ==
  ASSUME design \in Designs, NEW n \in Nodes, Visited(n)
  PROVE  \A s : s[1] = n =>
           /\ s[2] = "actual" =>
                LookedUpIn(s) = IF IsA(n, {"package", "package_instantiation"}) THEN n ELSE ParentOf(n)
           /\ s[2] = "designator" =>
                LookedUpIn(s) = IF IsA(n, {"package", "package_instantiation", "block"})
                                THEN n ELSE ParentOf(n)
<1>1. /\ IsA(n, {"package", "package_instantiation", "block"}) <=>
           IsA(n, {"package", "package_instantiation"}) \/ IsA(n, {"block"})
      /\ ~(IsA(n, {"package", "package_instantiation"}) /\ IsA(n, {"block"}))
  BY DEF IsA
<1> QED
  BY <1>1, RegionIs DEF LookedUpIn

LEMMA AmongHas ==
  ASSUME NEW T, NEW seq \in Seq(T), NEW A
  PROVE  ToSet(Among(seq, A)) = {x \in ToSet(seq) : x \in A}
<1> DEFINE m == Len(seq)
           has(k) == {x \in {seq[j] : j \in 1..k} : x \in A}
<1>1. PICK f \in [0..m -> Seq(T)] : Filters(f, seq, A)
  BY AmongUpto
<1> DEFINE h == [k \in 0..m |-> IF ToSet(f[k]) = has(k) THEN 1 ELSE 0]
<1>2. m \in Nat /\ m \in 0..m
  OBVIOUS
<1>3. h[0] \in {1}
  <2>1. 0 \in 0..m /\ f[0] = <<>>
    BY <1>1, <1>2 DEF Filters
  <2>2. ToSet(f[0]) = {} /\ has(0) = {}
    BY <2>1 DEF ToSet
  <2> QED
    BY <2>1, <2>2
<1>4. ASSUME NEW k \in 1..m, h[k - 1] \in {1} PROVE h[k] \in {1}
  <2>1. k - 1 \in 0..m /\ k \in 0..m /\ f[k - 1] \in Seq(T) /\ seq[k] \in T
    BY <1>2
  <2>2. ToSet(f[k - 1]) = has(k - 1)
    BY <1>4, <2>1
  <2>3. f[k] = IF seq[k] \in A THEN Append(f[k - 1], seq[k]) ELSE f[k - 1]
    BY <1>1 DEF Filters
  <2>4. \A q \in Seq(T) : \A x \in T : ToSet(Append(q, x)) = ToSet(q) \cup {x}
    <3> TAKE q \in Seq(T)
    <3> TAKE x \in T
    <3> DEFINE p == Append(q, x)
    <3>1. p \in Seq(T) /\ Len(p) = Len(q) + 1 /\ p[Len(q) + 1] = x /\ Len(q) \in Nat
          /\ \A i \in 1..Len(q) : p[i] = q[i]
      OBVIOUS
    <3>2. \A i \in 1..(Len(q) + 1) : i \in 1..Len(q) \/ i = Len(q) + 1
      BY <3>1
    <3>3. \A i \in 1..Len(q) : i \in 1..(Len(q) + 1)
      BY <3>1
    <3>4. DOMAIN p = 1..(Len(q) + 1) /\ DOMAIN q = 1..Len(q) /\ Len(q) + 1 \in 1..(Len(q) + 1)
      BY <3>1
    <3> HIDE DEF p
    <3>5. ToSet(p) = ToSet(q) \cup {x}
      BY <3>1, <3>2, <3>3, <3>4 DEF ToSet
    <3> QED
      BY <3>5 DEF p
  <2>5. has(k) = IF seq[k] \in A THEN has(k - 1) \cup {seq[k]} ELSE has(k - 1)
    <3>1. {seq[j] : j \in 1..k} = {seq[j] : j \in 1..(k - 1)} \cup {seq[k]}
      <4>1. \A j \in 1..k : j \in 1..(k - 1) \/ j = k
        BY <1>2
      <4>2. \A j \in 1..(k - 1) : j \in 1..k
        BY <1>2
      <4>3. k \in 1..k
        BY <1>2
      <4> QED
        BY <4>1, <4>2, <4>3
    <3> QED
      BY <3>1
  <2> HIDE DEF has
  <2>6. ToSet(f[k]) = has(k)
    BY <2>1, <2>2, <2>3, <2>4, <2>5
  <2> QED
    BY <2>1, <2>6
<1>5. \A k \in 0..m : h[k] \in {1}
  <2> HIDE DEF h
  <2> QED
    BY <1>2, <1>3, <1>4, Upwards
<1>6. ToSet(f[m]) = has(m)
  BY <1>2, <1>5
<1>7. has(m) = {x \in ToSet(seq) : x \in A}
  BY DEF ToSet
<1> QED
  BY <1>1, <1>6, <1>7 DEF Filters

(* Every unit is resolved, in one of the three passes. *)
LEMMA OrderHas ==
  ASSUME design \in Designs
  PROVE  ToSet(Order) = ToSet(Units) /\ Order \in Seq(Nodes)
<1> DEFINE a == Pass({"package"})
           b == Pass({"entity", "package_instantiation"})
           c == Pass({"architecture", "package_body"})
<1>1. Units \in Seq(Nodes)
  BY NodesAssumption DEF Units, Nodes
<1>2. \A kinds : /\ ToSet(Pass(kinds)) = {x \in ToSet(Units) : x \in OfKind(kinds)}
                 /\ Pass(kinds) \in Seq(Nodes)
  BY <1>1, AmongHas, AmongKeeps DEF Pass
<1>3. \A x \in ToSet(Units) : x \in OfKind({"package"})
         \/ x \in OfKind({"entity", "package_instantiation"})
         \/ x \in OfKind({"architecture", "package_body"})
  <2> TAKE x \in ToSet(Units)
  <2>1. x \in Nodes
    BY <1>1 DEF ToSet
  <2>2. x # None
    BY <2>1, NodeFacts
  <2>3. N(x).kind \in UnitKinds
    BY <2>1, KindsAssumption DEF UnitKinds, N, Nodes, Units
  <2> QED
    BY <2>1, <2>2, <2>3 DEF OfKind, IsA, UnitKinds
<1>4. \A p, q \in Seq(Nodes) : p \o q \in Seq(Nodes) /\ ToSet(p \o q) = ToSet(p) \cup ToSet(q)
  <2> TAKE p, q \in Seq(Nodes)
  <2> DEFINE r == p \o q
  <2>1. /\ r \in Seq(Nodes) /\ Len(p) \in Nat /\ Len(q) \in Nat
        /\ DOMAIN r = 1..(Len(p) + Len(q)) /\ DOMAIN p = 1..Len(p) /\ DOMAIN q = 1..Len(q)
        /\ \A i \in 1..Len(p) : r[i] = p[i]
        /\ \A i \in 1..Len(q) : r[Len(p) + i] = q[i]
    OBVIOUS
  <2> HIDE DEF r
  <2>2. \A i \in 1..(Len(p) + Len(q)) :
          i \in 1..Len(p) \/ (i - Len(p) \in 1..Len(q) /\ Len(p) + (i - Len(p)) = i)
    BY <2>1
  <2>3. /\ \A i \in 1..Len(p) : i \in 1..(Len(p) + Len(q))
        /\ \A i \in 1..Len(q) : Len(p) + i \in 1..(Len(p) + Len(q))
    BY <2>1
  <2>4. ASSUME NEW x \in ToSet(r) PROVE x \in ToSet(p) \cup ToSet(q)
    <3>1. PICK i \in 1..(Len(p) + Len(q)) : x = r[i]
      BY <2>1, <2>4 DEF ToSet
    <3>2. CASE i \in 1..Len(p)
      BY <2>1, <3>1, <3>2 DEF ToSet
    <3>3. CASE i - Len(p) \in 1..Len(q) /\ Len(p) + (i - Len(p)) = i
      <4>1. x = q[i - Len(p)]
        BY <2>1, <3>1, <3>3
      <4> QED
        BY <2>1, <3>3, <4>1 DEF ToSet
    <3> QED
      BY <2>2, <3>2, <3>3
  <2>5. ASSUME NEW x \in ToSet(p) PROVE x \in ToSet(r)
    BY <2>1, <2>3, <2>5 DEF ToSet
  <2>6. ASSUME NEW x \in ToSet(q) PROVE x \in ToSet(r)
    <3>1. PICK i \in 1..Len(q) : x = q[i]
      BY <2>1, <2>6 DEF ToSet
    <3>2. x = r[Len(p) + i] /\ Len(p) + i \in 1..(Len(p) + Len(q))
      BY <2>1, <2>3, <3>1
    <3> QED
      BY <2>1, <3>2 DEF ToSet
  <2>7. ToSet(r) = ToSet(p) \cup ToSet(q)
    BY <2>4, <2>5, <2>6
  <2> QED
    BY <2>1, <2>7 DEF r
<1>5. a \in Seq(Nodes) /\ b \in Seq(Nodes) /\ c \in Seq(Nodes) /\ Order = (a \o b) \o c
  BY <1>2 DEF Order
<1>6. ToSet(a) \cup ToSet(b) \cup ToSet(c) = ToSet(Units)
  BY <1>2, <1>3
<1> HIDE DEF a, b, c
<1>7. a \o b \in Seq(Nodes) /\ ToSet(a \o b) = ToSet(a) \cup ToSet(b)
  BY <1>4, <1>5
<1>8. (a \o b) \o c \in Seq(Nodes) /\ ToSet((a \o b) \o c) = ToSet(a \o b) \cup ToSet(c)
  BY <1>4, <1>5, <1>7
<1> QED
  BY <1>5, <1>6, <1>7, <1>8

(* Where the walk is, and the chains it looks names up in there. *)
LEMMA Standing ==
  ASSUME NestInv, Walking
  PROVE  /\ design \in Designs /\ Node \in Nodes /\ Visited(Node)
         /\ ~IsA(Node, UnitKinds) => Chain(scopes) = ChainOf(ParentOf(Node))
         /\ IsA(Node, Regions) => Chain(scopes \o Own(Node)) = ChainOf(Node)
<1> DEFINE m == Len(frames)
<1>1. WalkInv /\ Nests(frames, scopes)
  BY DEF NestInv
<1>2. design \in Designs /\ frames \in Seq(FrameType) /\ scopes \in Seq(ScopeType)
  BY <1>1 DEF WalkInv, Typed
<1>3. Node \in Nodes /\ unit \in 1..Len(Order) /\ (frames = <<>> => IsA(Node, UnitKinds))
  BY <1>1, NodeIs
<1>4. CASE frames = <<>>
  <2>1. Node = Order[unit] /\ Node \in ToSet(Order)
    BY <1>2, <1>3, <1>4, OrderHas DEF Node, ToSet
  <2>2. Visited(Node)
    BY <1>2, <2>1, OrderHas DEF Visited
  <2>3. ~IsA(Node, Enclosed)
    BY <1>3, <1>4 DEF IsA, Enclosed, UnitKinds
  <2>4. IsA(Node, Regions) => Chain(scopes \o Own(Node)) = ChainOf(Node)
    BY <1>2, <1>3, <2>3, OwnChain
  <2> QED
    BY <1>2, <1>3, <1>4, <2>2, <2>4
<1>5. CASE frames # <<>>
  <2> DEFINE todo == frames[m].todo
             r == frames[m].node
  <2>1. m \in Nat /\ m \in 1..m /\ frames[m] \in FrameType
    BY <1>2, <1>5
  <2>2. todo \in Seq(Nodes) /\ todo # <<>> /\ r \in Nodes
    BY <1>5, <2>1 DEF Walking, Here, FrameType
  <2>3. Node = Head(todo)
    BY <1>5 DEF Node, Here
  <2>4. ToSet(todo) \subseteq Children(r) /\ Rests(SubSeq(scopes, 1, Top(frames, scopes, m)), r)
    BY <1>1, <2>1 DEF Nests
  <2> HIDE DEF todo
  <2>5. Head(todo) \in ToSet(todo)
    BY <2>2 DEF ToSet
  <2>6. Node \in Children(r)
    BY <2>3, <2>4, <2>5
  <2>7. ParentOf(Node) = r
    BY <1>2, <1>3, <2>2, <2>6, ParentIs
  <2>8. SubSeq(scopes, 1, Top(frames, scopes, m)) = scopes
    BY <1>2, Below DEF Top
  <2>9. Chain(scopes) = ChainOf(ParentOf(Node))
    BY <2>4, <2>7, <2>8 DEF Rests
  <2>10. IsA(Node, Regions) => Chain(scopes \o Own(Node)) = ChainOf(Node)
    BY <1>2, <1>3, <2>9, OwnChain
  <2> QED
    BY <1>2, <1>3, <2>2, <2>6, <2>9, <2>10 DEF Visited
<1> QED
  BY <1>4, <1>5

(* The node at which the names of a node are resolved, and which names are  *)
(* resolved at a node.                                                      *)
Visitor(n) ==
  LET o == IF n \in Owned THEN Owner(n) ELSE n
  IN  IF BodiesOf(o) # {} THEN CHOOSE b \in BodiesOf(o) : TRUE ELSE o
Reaches(found) == \A s \in SimpleNames : Visitor(s[1]) = Node => s \in DOMAIN found

LEMMA SimpleNameIs ==
  ASSUME Typed, NEW s \in SimpleNames
  PROVE  /\ s \in Slots /\ s[1] \in Nodes /\ s[2] \in {"names", "outer", "actual", "designator"}
         /\ s \in Attempted({s[1]}, s[2]) /\ N(s[1])[s[2]] # <<>>
         /\ Len(NameOf(s)) = 1
         /\ ~IsA(s[1], {"use_clause"}) /\ ~IsA(s[1], {"configuration_specification"})
<1> DEFINE n == s[1]
<1>1. /\ s \in Slots /\ s[2] \in {"names", "outer", "actual", "designator"}
      /\ Len(NameOf(s)) = 1 /\ ~LooksLikeLiteral(NameOf(s))
      /\ ~IsA(n, {"use_clause"}) /\ ~IsA(n, {"configuration_specification"})
  BY DEF SimpleNames, IsSimpleName, IsName, IsA
<1>2. n \in Nodes /\ s \in SlotsOf(n)
  BY <1>1, SlotNode
<1>3. s \in NameSlots(n)
  <2>1. \A x \in UnitSlots(n) : x[2] = "unit"
    BY Triples DEF UnitSlots
  <2>2. \A x \in ComponentSlots(n) : x[2] = "component"
    BY Triples DEF ComponentSlots
  <2> HIDE DEF n
  <2> QED
    BY <1>1, <1>2, <2>1, <2>2 DEF SlotsOf
<1> HIDE DEF n
<1>4. PICK part \in Parts : s \in Numbered(n, part, N(n)[part])
  BY <1>3 DEF NameSlots
<1>5. s[2] = part /\ N(n)[part] # <<>>
  <2>1. PICK i \in DOMAIN N(n)[part] : s = <<n, part, i>>
    BY <1>4 DEF Numbered
  <2>2. \A x : x \notin DOMAIN <<>>
    OBVIOUS
  <2> QED
    BY <2>1, <2>2, Triples
<1>6. s \in Attempted({n}, s[2])
  BY <1>1, <1>4, <1>5 DEF Attempted, NameOf, n
<1> QED
  BY <1>1, <1>2, <1>5, <1>6 DEF n

Mapping == {"block", "package", "package_instantiation"} \cup Instantiations

LEMMA SlotsAt ==
  ASSUME Typed, NEW s \in SimpleNames, NEW m, Visitor(s[1]) = m
  PROVE  \/ /\ IsA(m, {"signal", "component", "subprogram_declaration", "attribute_specification",
                      "disconnection_specification", "statement"})
            /\ s \in Attempted({m}, "names")
         \/ IsA(m, {"block", "generate", "process"}) /\ s \in Attempted({m}, "outer")
         \/ /\ IsA(m, Mapping)
            /\ s \in Attempted({m}, "actual") \cup Attempted({m}, "designator")
         \/ /\ IsA(m, {"package", "entity", "block", "component", "subprogram_declaration"})
            /\ s \in Attempted(ToSet(N(m).interfaces), "names")
         \/ /\ IsA(m, {"subprogram_body"})
            /\ \/ s \in Attempted({N(m).specification}, "names")
               \/ s \in Attempted(ToSet(N(N(m).specification).interfaces), "names")
<1> DEFINE n == s[1]
           o == IF n \in Owned THEN Owner(n) ELSE n
<1>1. /\ design \in Designs /\ n \in Nodes /\ s \in Attempted({n}, s[2])
      /\ s[2] \in {"names", "outer", "actual", "designator"} /\ N(n)[s[2]] # <<>>
  BY SimpleNameIs DEF Typed
<1>2. ~IsA(n, {"use_clause"}) /\ ~IsA(n, {"configuration_specification"})
  BY SimpleNameIs
<1> HIDE DEF n
<1>3. \A x \in Nodes : x # None
  BY <1>1, NodeFacts
<1>4. \A x \in Nodes :
        /\ N(x).names # <<>> =>
             N(x).kind \in {"signal", "component", "subprogram_declaration", "use_clause",
                        "attribute_specification", "disconnection_specification", "statement"}
        /\ N(x).outer # <<>> => N(x).kind \in {"block", "generate", "process"}
        /\ N(x).actual # <<>> \/ N(x).designator # <<>> =>
             N(x).kind \in {"block", "package", "package_instantiation", "component_instantiation",
                        "entity_instantiation", "configuration_specification"}
        /\ N(x).interfaces # <<>> =>
             N(x).kind \in {"package", "entity", "block", "component", "subprogram_declaration"}
        /\ Bodies(design, x) # {} => N(x).kind = "subprogram_declaration"
  BY <1>1, KindsAssumption DEF N, Nodes
<1>5. \A x : BodiesOf(x) = Bodies(design, x)
  BY <1>3 DEF BodiesOf, Bodies, IsA, N, Nodes
<1>6. \A S, x : x \in S => Attempted({x}, "names") \subseteq Attempted(S, "names")
  BY DEF Attempted
<1>7. m = IF BodiesOf(o) # {} THEN CHOOSE b \in BodiesOf(o) : TRUE ELSE o
  BY DEF Visitor, n
<1>8. CASE s[2] # "names"
  <2>1. /\ s[2] = "outer" => N(n).kind \in {"block", "generate", "process"}
        /\ s[2] # "outer" => N(n).kind \in Mapping
    BY <1>1, <1>2, <1>3, <1>4, <1>8 DEF Mapping, Instantiations, IsA
  <2>2. n \notin Owned
    <3> SUFFICES ASSUME n \in Owned PROVE FALSE
      OBVIOUS
    <3>1. PICK r \in Nodes : n \in ToSet(N(r).interfaces)
      BY DEF Owned
    <3>2. IsA(n, {"signal"})
      BY <1>1, <3>1, PlacesAre
    <3> QED
      BY <2>1, <3>2 DEF IsA, Mapping, Instantiations
  <2>3. BodiesOf(n) = {}
    BY <1>1, <1>4, <1>5, <2>1 DEF Mapping, Instantiations
  <2>4. m = n
    BY <1>7, <2>2, <2>3
  <2> QED
    BY <1>1, <1>3, <1>8, <2>1, <2>4 DEF IsA
<1>9. CASE s[2] = "names" /\ n \in Owned
  <2>1. PICK r \in Nodes : n \in ToSet(N(r).interfaces)
    BY <1>9 DEF Owned
  <2>2. Owner(n) = r
    BY <1>1, <2>1, PlacesAre
  <2>3. s \in Attempted(ToSet(N(r).interfaces), "names")
    BY <1>1, <1>6, <1>9, <2>1
  <2>4. CASE BodiesOf(r) # {}
    <3>1. m \in BodiesOf(r)
      BY <1>7, <1>9, <2>2, <2>4
    <3> QED
      BY <2>3, <3>1 DEF BodiesOf
  <2>5. CASE BodiesOf(r) = {}
    <3>1. m = r
      BY <1>7, <1>9, <2>2, <2>5
    <3>2. N(r).interfaces # <<>>
      <4>1. ToSet(<<>>) = {}
        BY DEF ToSet
      <4> QED
        BY <2>1, <4>1
    <3> QED
      BY <1>3, <1>4, <2>1, <2>3, <3>1, <3>2 DEF IsA
  <2> QED
    BY <2>4, <2>5
<1>10. CASE s[2] = "names" /\ n \notin Owned
  <2>1. CASE BodiesOf(n) # {}
    <3>1. m \in BodiesOf(n)
      BY <1>7, <1>10, <2>1
    <3> QED
      BY <1>1, <1>10, <3>1 DEF BodiesOf
  <2>2. CASE BodiesOf(n) = {}
    <3>1. m = n
      BY <1>7, <1>10, <2>2
    <3> QED
      BY <1>1, <1>2, <1>3, <1>4, <1>10, <3>1 DEF IsA
  <2> QED
    BY <2>1, <2>2
<1> QED
  BY <1>1, <1>8, <1>9, <1>10

--------------------------------------------------------------------------------
(* Every handler finds what the text means, for all the names of its node.  *)
Resolves == \E found : Record(found) /\ Seeks(found) /\ Reaches(found)

LEMMA Reaching ==
  ASSUME Typed, NEW found,
         IsA(Node, {"signal", "component", "subprogram_declaration", "attribute_specification",
                    "disconnection_specification", "statement"}) =>
           Attempted({Node}, "names") \subseteq DOMAIN found,
         IsA(Node, {"block", "generate", "process"}) =>
           Attempted({Node}, "outer") \subseteq DOMAIN found,
         IsA(Node, Mapping) =>
           Attempted({Node}, "actual") \cup Attempted({Node}, "designator") \subseteq DOMAIN found,
         IsA(Node, {"package", "entity", "block", "component", "subprogram_declaration"}) =>
           Attempted(ToSet(N(Node).interfaces), "names") \subseteq DOMAIN found,
         IsA(Node, {"subprogram_body"}) =>
           /\ Attempted({N(Node).specification}, "names") \subseteq DOMAIN found
           /\ Attempted(ToSet(N(N(Node).specification).interfaces), "names") \subseteq DOMAIN found
  PROVE  Reaches(found)
BY SlotsAt DEF Reaches

LEMMA Together ==
  \A f, g : DOMAIN (f ++ g) = DOMAIN f \cup DOMAIN g
BY DEF ++

LEMMA InterfacesAre ==
  ASSUME NEW chain, NEW n
  PROVE  /\ DOMAIN InterfacesFound(chain, n) = Attempted(ToSet(N(n).interfaces), "names")
         /\ (\A s : s[1] \in ToSet(N(n).interfaces) /\ s[2] = "names" =>
               ChainOf(RegionOf(s)) = chain) => Seeks(InterfacesFound(chain, n))
BY NamesFoundAre, SeeksNames DEF InterfacesFound

LEMMA ActualsAre ==
  ASSUME NEW actual, NEW current, NEW n
  PROVE  DOMAIN ActualsFound(actual, current, n) =
           Attempted({n}, "actual") \cup Attempted({n}, "designator")
<1>1. DOMAIN ActualsFound(actual, current, n) =
        DOMAIN NamesFound(actual, {n}, "actual") \cup DOMAIN NamesFound(current, {n}, "designator")
  BY Together DEF ActualsFound
<1> QED
  BY <1>1, NamesFoundAre

LEMMA ResolveEntitySeeks ==
  ASSUME NestInv, ResolveEntity
  PROVE  Resolves
<1> DEFINE outside == Chain(scopes)
           own == Own(Node)
           inside == Chain(scopes \o own)
           found == InterfacesFound(inside, Node)
<1>1. Walking /\ IsA(Node, {"entity"}) /\ IsA(Node, Regions) /\ Typed
  BY DEF ResolveEntity, At, IsA, Regions, NestInv, WalkInv
<1>2. design \in Designs /\ Node \in Nodes /\ Visited(Node) /\ inside = ChainOf(Node)
  BY <1>1, Standing
<1>3. own = <<[RootScope(Node) EXCEPT !.symbols = Inserted(DeclaredBy(Node))]>>
  BY <1>1, OwnIs
<1>4. Record(found)
  BY <1>3 DEF ResolveEntity, Enter
<1>5. Seeks(found)
  BY <1>1, <1>2, RegionIs, InterfacesAre
<1>6. Reaches(found)
  BY <1>1, Reaching, InterfacesAre DEF IsA, Mapping, Instantiations
<1> QED
  BY <1>4, <1>5, <1>6 DEF Resolves

LEMMA ResolvePackageSeeks ==
  ASSUME NestInv, ResolvePackage
  PROVE  Resolves
<1> DEFINE own == Own(Node)
           inside == Chain(scopes \o own)
           found == InterfacesFound(inside, Node) ++ ActualsFound(inside, inside, Node)
<1>1. Walking /\ IsA(Node, {"package"}) /\ IsA(Node, Regions) /\ Typed
  BY DEF ResolvePackage, At, IsA, Regions, NestInv, WalkInv
<1>2. design \in Designs /\ Node \in Nodes /\ Visited(Node) /\ inside = ChainOf(Node)
  BY <1>1, Standing
<1>3. own = <<RootScope(Node), Scope(DeclaredBy(Node))>>
  BY <1>1, OwnIs
<1>4. Record(found)
  BY <1>3 DEF ResolvePackage, Enter
<1>5. Seeks(found)
  <2>1. Seeks(InterfacesFound(inside, Node))
    BY <1>1, <1>2, RegionIs, InterfacesAre
  <2>2. Seeks(ActualsFound(inside, inside, Node))
    BY <1>1, <1>2, ActualsAreIn, SeeksActuals DEF IsA
  <2> QED
    BY <2>1, <2>2, SeeksBoth
<1>6. Reaches(found)
  <2>1. /\ Attempted(ToSet(N(Node).interfaces), "names") \subseteq DOMAIN found
        /\ Attempted({Node}, "actual") \cup Attempted({Node}, "designator") \subseteq DOMAIN found
    <3>1. DOMAIN found = DOMAIN InterfacesFound(inside, Node)
                           \cup DOMAIN ActualsFound(inside, inside, Node)
      BY Together
    <3> HIDE DEF found
    <3>2. DOMAIN InterfacesFound(inside, Node) = Attempted(ToSet(N(Node).interfaces), "names")
      BY InterfacesAre
    <3>3. DOMAIN ActualsFound(inside, inside, Node) =
            Attempted({Node}, "actual") \cup Attempted({Node}, "designator")
      BY ActualsAre
    <3> QED
      BY <3>1, <3>2, <3>3
  <2> HIDE DEF found
  <2> QED
    BY <1>1, <2>1, Reaching DEF IsA, Mapping, Instantiations
<1> QED
  BY <1>4, <1>5, <1>6 DEF Resolves

LEMMA ResolvePackageInstantiationSeeks ==
  ASSUME NestInv, ResolvePackageInstantiation
  PROVE  Resolves
<1> DEFINE own == Own(Node)
           inside == Chain(scopes \o own)
           p == FindUnit("package", N(Node).lib, N(Node).of)
           formals == FormalScope(N(Node).lib, InterfacesOf(p))
           actuals == ActualsFound(inside, inside, Node)
           found == UnitFound(Node, p) ++ actuals ++ FormalsFound(formals, Node)
<1>1. Walking /\ IsA(Node, {"package_instantiation"}) /\ IsA(Node, Regions) /\ Typed
  BY DEF ResolvePackageInstantiation, At, IsA, Regions, NestInv, WalkInv
<1>2. design \in Designs /\ Node \in Nodes /\ Visited(Node) /\ inside = ChainOf(Node)
  BY <1>1, Standing
<1>3. own = <<RootScope(Node)>>
  BY <1>1, OwnIs
<1>4. Record(found)
  BY <1>3 DEF ResolvePackageInstantiation, Enter
<1>5. Seeks(found)
  <2>1. p = UnitMeant(Node)
    BY <1>1 DEF UnitMeant, IsA
  <2>2. Seeks(UnitFound(Node, p))
    BY <2>1, SeeksUnit
  <2>3. Seeks(actuals) /\ Seeks(FormalsFound(formals, Node))
    BY <1>1, <1>2, ActualsAreIn, SeeksActuals, SeeksFormals DEF IsA
  <2> HIDE DEF p, inside, formals, actuals
  <2> QED
    BY <2>2, <2>3, SeeksBoth
<1>6. Reaches(found)
  <2>1. Attempted({Node}, "actual") \cup Attempted({Node}, "designator") = DOMAIN actuals
    BY ActualsAre
  <2> HIDE DEF actuals
  <2> DEFINE others == UnitFound(Node, p) ++ actuals
  <2>2. DOMAIN found = DOMAIN others \cup DOMAIN FormalsFound(formals, Node)
        /\ DOMAIN others = DOMAIN UnitFound(Node, p) \cup DOMAIN actuals
    BY DEF ++
  <2> HIDE DEF found, others
  <2> QED
    BY <1>1, <2>1, <2>2, Reaching DEF IsA, Mapping, Instantiations
<1> QED
  BY <1>4, <1>5, <1>6 DEF Resolves

LEMMA ResolveArchitectureSeeks ==
  ASSUME NestInv, ResolveArchitecture
  PROVE  Resolves
<1> DEFINE found == UnitFound(Node, Primary(Node))
<1>1. Walking /\ IsA(Node, {"architecture"}) /\ Typed
  BY DEF ResolveArchitecture, At, NestInv, WalkInv
<1>2. Record(found)
  BY DEF ResolveArchitecture, Enter
<1>3. Seeks(found)
  BY <1>1, SeeksUnit DEF UnitMeant, IsA
<1>4. Reaches(found)
  BY <1>1, Reaching DEF IsA, Mapping, Instantiations
<1> QED
  BY <1>2, <1>3, <1>4 DEF Resolves

LEMMA ResolvePackageBodySeeks ==
  ASSUME NestInv, ResolvePackageBody
  PROVE  Resolves
<1> DEFINE found == UnitFound(Node, Primary(Node))
<1>1. Walking /\ IsA(Node, {"package_body"}) /\ Typed
  BY DEF ResolvePackageBody, At, NestInv, WalkInv
<1>2. Record(found)
  BY DEF ResolvePackageBody, Enter
<1>3. Seeks(found)
  BY <1>1, SeeksUnit DEF UnitMeant, IsA
<1>4. Reaches(found)
  BY <1>1, Reaching DEF IsA, Mapping, Instantiations
<1> QED
  BY <1>2, <1>3, <1>4 DEF Resolves

LEMMA ResolveBlockStatementSeeks ==
  ASSUME NestInv, ResolveBlockStatement
  PROVE  Resolves
<1> DEFINE outside == Chain(scopes)
           own == Own(Node)
           inside == Chain(scopes \o own)
           found == NamesFound(outside, {Node}, "outer") ++ InterfacesFound(inside, Node)
                      ++ ActualsFound(outside, inside, Node) ++ FormalsFound(inside, Node)
<1>1. Walking /\ IsA(Node, {"block"}) /\ IsA(Node, Regions) /\ ~IsA(Node, UnitKinds) /\ Typed
  BY DEF ResolveBlockStatement, At, IsA, Regions, UnitKinds, NestInv, WalkInv
<1>2. /\ design \in Designs /\ Node \in Nodes /\ Visited(Node)
      /\ inside = ChainOf(Node) /\ outside = ChainOf(ParentOf(Node))
  BY <1>1, Standing
<1>3. own = <<Scope(DeclaredBy(Node))>>
  BY <1>1, OwnIs
<1>4. Record(found)
  BY <1>3 DEF ResolveBlockStatement, Enter
<1> HIDE DEF own, inside, outside
<1>5. Seeks(found)
  <2>1. Seeks(NamesFound(outside, {Node}, "outer"))
    BY <1>1, <1>2, RegionIs, SeeksNames DEF IsA
  <2>2. Seeks(InterfacesFound(inside, Node))
    BY <1>1, <1>2, RegionIs, InterfacesAre
  <2>3. Seeks(ActualsFound(outside, inside, Node)) /\ Seeks(FormalsFound(inside, Node))
    BY <1>1, <1>2, ActualsAreIn, SeeksActuals, SeeksFormals DEF IsA
  <2> QED
    BY <2>1, <2>2, <2>3, SeeksBoth
<1>6. Reaches(found)
  <2>0. /\ DOMAIN NamesFound(outside, {Node}, "outer") = Attempted({Node}, "outer")
        /\ DOMAIN InterfacesFound(inside, Node) = Attempted(ToSet(N(Node).interfaces), "names")
        /\ DOMAIN ActualsFound(outside, inside, Node) =
             Attempted({Node}, "actual") \cup Attempted({Node}, "designator")
    <3>1. DOMAIN ActualsFound(outside, inside, Node) =
            Attempted({Node}, "actual") \cup Attempted({Node}, "designator")
      BY ActualsAre
    <3> QED
      BY <3>1, NamesFoundAre, InterfacesAre
  <2>2. DOMAIN found = DOMAIN NamesFound(outside, {Node}, "outer")
                         \cup DOMAIN InterfacesFound(inside, Node)
                         \cup DOMAIN ActualsFound(outside, inside, Node)
                         \cup DOMAIN FormalsFound(inside, Node)
    <3> DEFINE a == NamesFound(outside, {Node}, "outer")
               b == InterfacesFound(inside, Node)
               c == ActualsFound(outside, inside, Node)
               d == FormalsFound(inside, Node)
    <3>1. found = ((a ++ b) ++ c) ++ d
      OBVIOUS
    <3> HIDE DEF found, a, b, c, d
    <3>2. DOMAIN found = ((DOMAIN a \cup DOMAIN b) \cup DOMAIN c) \cup DOMAIN d
      BY <3>1 DEF ++
    <3> QED
      BY <3>2 DEF a, b, c, d
  <2> HIDE DEF found
  <2>1. Attempted({Node}, "outer") \subseteq DOMAIN found
        /\ Attempted(ToSet(N(Node).interfaces), "names") \subseteq DOMAIN found
        /\ Attempted({Node}, "actual") \cup Attempted({Node}, "designator") \subseteq DOMAIN found
    BY <2>0, <2>2
  <2> HIDE DEF found
  <2> QED
    BY <1>1, <2>1, Reaching DEF IsA, Mapping, Instantiations
<1> QED
  BY <1>4, <1>5, <1>6 DEF Resolves

LEMMA ResolveGenerateBodySeeks ==
  ASSUME NestInv, ResolveGenerateBody
  PROVE  Resolves
<1> DEFINE outside == Chain(scopes)
           found == NamesFound(outside, {Node}, "outer")
<1>1. Walking /\ IsA(Node, {"generate"}) /\ ~IsA(Node, UnitKinds) /\ Typed
  BY DEF ResolveGenerateBody, At, IsA, UnitKinds, NestInv, WalkInv
<1>2. /\ design \in Designs /\ Node \in Nodes /\ Visited(Node)
      /\ outside = ChainOf(ParentOf(Node))
  BY <1>1, Standing
<1>3. Record(found)
  BY DEF ResolveGenerateBody, Enter
<1> HIDE DEF outside
<1>4. Seeks(found)
  BY <1>1, <1>2, RegionIs, SeeksNames DEF IsA
<1>5. Reaches(found)
  <2>1. DOMAIN found = Attempted({Node}, "outer")
    BY NamesFoundAre
  <2> HIDE DEF found
  <2> QED
    BY <1>1, <2>1, Reaching DEF IsA, Mapping, Instantiations
<1> QED
  BY <1>3, <1>4, <1>5 DEF Resolves

LEMMA ResolveProcessSeeks ==
  ASSUME NestInv, ResolveProcess
  PROVE  Resolves
<1> DEFINE outside == Chain(scopes)
           found == NamesFound(outside, {Node}, "outer")
<1>1. Walking /\ IsA(Node, {"process"}) /\ ~IsA(Node, UnitKinds) /\ Typed
  BY DEF ResolveProcess, At, IsA, UnitKinds, NestInv, WalkInv
<1>2. /\ design \in Designs /\ Node \in Nodes /\ Visited(Node)
      /\ outside = ChainOf(ParentOf(Node))
  BY <1>1, Standing
<1>3. Record(found)
  BY DEF ResolveProcess, Enter
<1> HIDE DEF outside
<1>4. Seeks(found)
  BY <1>1, <1>2, RegionIs, SeeksNames DEF IsA
<1>5. Reaches(found)
  <2>1. DOMAIN found = Attempted({Node}, "outer")
    BY NamesFoundAre
  <2> HIDE DEF found
  <2> QED
    BY <1>1, <2>1, Reaching DEF IsA, Mapping, Instantiations
<1> QED
  BY <1>3, <1>4, <1>5 DEF Resolves

LEMMA ResolveSubprogramBodySeeks ==
  ASSUME NestInv, ResolveSubprogramBody
  PROVE  Resolves
<1> DEFINE outside == Chain(scopes)
           spec == N(Node).specification
           found == NamesFound(outside, {spec}, "names") ++ InterfacesFound(outside, spec)
<1>1. Walking /\ IsA(Node, {"subprogram_body"}) /\ ~IsA(Node, UnitKinds) /\ Typed
  BY DEF ResolveSubprogramBody, At, IsA, UnitKinds, NestInv, WalkInv
<1>2. /\ design \in Designs /\ Node \in Nodes /\ Visited(Node)
      /\ outside = ChainOf(ParentOf(Node))
  BY <1>1, Standing
<1>3. Record(found)
  BY DEF ResolveSubprogramBody, Enter
<1>4. \A s : s[1] = spec \/ s[1] \in ToSet(N(spec).interfaces) => RegionOf(s) = ParentOf(Node)
  BY <1>1, <1>2, RegionIs
<1> HIDE DEF outside
<1>5. Seeks(found)
  <2>1. Seeks(NamesFound(outside, {spec}, "names"))
    BY <1>2, <1>4, SeeksNames
  <2>2. Seeks(InterfacesFound(outside, spec))
    BY <1>2, <1>4, InterfacesAre
  <2> QED
    BY <2>1, <2>2, SeeksBoth
<1>6. Reaches(found)
  <2>0. /\ DOMAIN NamesFound(outside, {spec}, "names") = Attempted({spec}, "names")
        /\ DOMAIN InterfacesFound(outside, spec) = Attempted(ToSet(N(spec).interfaces), "names")
    BY NamesFoundAre, InterfacesAre
  <2>1. /\ Attempted({spec}, "names") \subseteq DOMAIN found
        /\ Attempted(ToSet(N(spec).interfaces), "names") \subseteq DOMAIN found
    <3>1. DOMAIN found = DOMAIN NamesFound(outside, {spec}, "names")
                           \cup DOMAIN InterfacesFound(outside, spec)
      BY Together
    <3> HIDE DEF found
    <3> QED
      BY <2>0, <3>1
  <2> HIDE DEF found
  <2> QED
    BY <1>1, <2>1, Reaching DEF IsA, Mapping, Instantiations
<1> QED
  BY <1>3, <1>5, <1>6 DEF Resolves

LEMMA ResolveDeclarationSeeks ==
  ASSUME NestInv, ResolveDeclaration
  PROVE  Resolves
<1> DEFINE chain == Chain(scopes)
           both == NamesFound(chain, {Node}, "names") ++ InterfacesFound(chain, Node)
           found == IF IsA(Node, {"use_clause"}) THEN <<>> ELSE both
<1>1. /\ Walking /\ ~IsA(Node, Regions) /\ ~IsA(Node, UnitKinds) /\ Typed
      /\ IsA(Node, {"signal", "component", "subprogram_declaration", "attribute_specification",
                    "disconnection_specification", "use_clause"})
  BY DEF ResolveDeclaration, At, IsA, Regions, UnitKinds, NestInv, WalkInv
<1>2. design \in Designs /\ Node \in Nodes /\ Visited(Node) /\ chain = ChainOf(ParentOf(Node))
  BY <1>1, Standing
<1>3. Record(found)
  BY DEF ResolveDeclaration, PassBy
<1> HIDE DEF chain
<1>4. Seeks(both)
  <2>1. Seeks(NamesFound(chain, {Node}, "names"))
    BY <1>1, <1>2, RegionIs, SeeksNames DEF IsA
  <2>2. Seeks(InterfacesFound(chain, Node))
    BY <1>1, <1>2, RegionIs, InterfacesAre
  <2> QED
    BY <2>1, <2>2, SeeksBoth
<1>5. /\ Attempted({Node}, "names") \subseteq DOMAIN both
      /\ Attempted(ToSet(N(Node).interfaces), "names") \subseteq DOMAIN both
  <2>1. /\ DOMAIN NamesFound(chain, {Node}, "names") = Attempted({Node}, "names")
        /\ DOMAIN InterfacesFound(chain, Node) = Attempted(ToSet(N(Node).interfaces), "names")
    BY NamesFoundAre, InterfacesAre
  <2>2. DOMAIN both = DOMAIN NamesFound(chain, {Node}, "names")
                        \cup DOMAIN InterfacesFound(chain, Node)
    BY Together
  <2> HIDE DEF both
  <2> QED
    BY <2>1, <2>2
<1>6. Seeks(found)
  BY <1>4, SeeksNothing
<1>7. Reaches(found)
  <2> HIDE DEF both
  <2>1. CASE IsA(Node, {"use_clause"})
    <3> HIDE DEF found
    <3> QED
      BY <1>1, <2>1, Reaching DEF IsA, Mapping, Instantiations
  <2>2. CASE ~IsA(Node, {"use_clause"})
    <3>1. found = both
      BY <2>2
    <3> HIDE DEF found
    <3> QED
      BY <1>1, <1>5, <3>1, Reaching DEF IsA, Mapping, Instantiations
  <2> QED
    BY <2>1, <2>2
<1> QED
  BY <1>3, <1>6, <1>7 DEF Resolves

LEMMA ResolveStatementSeeks ==
  ASSUME NestInv, ResolveStatement
  PROVE  Resolves
<1> DEFINE chain == Chain(scopes)
           found == NamesFound(chain, {Node}, "names")
<1>1. Walking /\ IsA(Node, {"statement"}) /\ ~IsA(Node, Regions) /\ ~IsA(Node, UnitKinds) /\ Typed
  BY DEF ResolveStatement, At, IsA, Regions, UnitKinds, NestInv, WalkInv
<1>2. design \in Designs /\ Node \in Nodes /\ Visited(Node) /\ chain = ChainOf(ParentOf(Node))
  BY <1>1, Standing
<1>3. Record(found)
  BY DEF ResolveStatement, PassBy
<1> HIDE DEF chain
<1>4. Seeks(found)
  BY <1>1, <1>2, RegionIs, SeeksNames DEF IsA
<1>5. Reaches(found)
  <2>1. DOMAIN found = Attempted({Node}, "names")
    BY NamesFoundAre
  <2> HIDE DEF found
  <2> QED
    BY <1>1, <2>1, Reaching DEF IsA, Mapping, Instantiations
<1> QED
  BY <1>3, <1>4, <1>5 DEF Resolves

LEMMA ResolveConfigurationSpecificationSeeks ==
  ASSUME NestInv, ResolveConfigurationSpecification
  PROVE  Resolves
<1> DEFINE chain == Chain(scopes)
           found == ComponentFound(chain, Node) ++ BindingFound(chain, Node)
<1>1. Walking /\ IsA(Node, {"configuration_specification"}) /\ Typed
  BY DEF ResolveConfigurationSpecification, At, NestInv, WalkInv
<1>2. Record(found)
  BY DEF ResolveConfigurationSpecification, PassBy
<1>3. Seeks(found)
  BY <1>1, SeeksComponent, SeeksBinding, SeeksBoth
<1>4. Reaches(found)
  BY <1>1, Reaching DEF IsA, Mapping, Instantiations
<1> QED
  BY <1>2, <1>3, <1>4 DEF Resolves

LEMMA ResolveEntityInstantiationSeeks ==
  ASSUME NestInv, ResolveEntityInstantiation
  PROVE  Resolves
<1> DEFINE chain == Chain(scopes)
           e == FindUnit("entity", Lib(chain), N(Node).of)
           formals == FormalScope(Lib(chain), InterfacesOf(e) \o InterfacesOf(None))
           actuals == ActualsFound(chain, chain, Node)
           found == UnitFound(Node, e) ++ (actuals ++ FormalsFound(formals, Node))
<1>1. Walking /\ IsA(Node, {"entity_instantiation"}) /\ ~IsA(Node, UnitKinds) /\ Typed
  BY DEF ResolveEntityInstantiation, At, IsA, UnitKinds, NestInv, WalkInv
<1>2. design \in Designs /\ Node \in Nodes /\ Visited(Node) /\ chain = ChainOf(ParentOf(Node))
  BY <1>1, Standing
<1>3. Record(found)
  BY DEF ResolveEntityInstantiation, PassBy, AssociationsFound
<1>4. e = UnitMeant(Node)
  BY <1>1, <1>2 DEF UnitMeant, IsA
<1> HIDE DEF chain, e, formals
<1>5. Seeks(found)
  <2>1. Seeks(UnitFound(Node, e))
    BY <1>4, SeeksUnit
  <2>2. Seeks(actuals) /\ Seeks(FormalsFound(formals, Node))
    BY <1>1, <1>2, ActualsAreIn, SeeksActuals, SeeksFormals DEF IsA
  <2> HIDE DEF actuals
  <2> QED
    BY <2>1, <2>2, SeeksBoth
<1>6. Reaches(found)
  <2>1. Attempted({Node}, "actual") \cup Attempted({Node}, "designator") = DOMAIN actuals
    BY ActualsAre
  <2> HIDE DEF actuals
  <2> DEFINE maps == actuals ++ FormalsFound(formals, Node)
  <2>2. DOMAIN found = DOMAIN UnitFound(Node, e) \cup DOMAIN maps
        /\ DOMAIN maps = DOMAIN actuals \cup DOMAIN FormalsFound(formals, Node)
    BY DEF ++
  <2> HIDE DEF found, maps
  <2> QED
    BY <1>1, <2>1, <2>2, Reaching DEF IsA, Mapping, Instantiations
<1> QED
  BY <1>3, <1>5, <1>6 DEF Resolves

LEMMA ResolveComponentInstantiationSeeks ==
  ASSUME NestInv, ResolveComponentInstantiation
  PROVE  Resolves
<1> DEFINE chain == Chain(scopes)
           e == BoundEntity(chain, Node)
           c == NodeOf(Meant(AsComponent(Lookup(chain, N(Node).of))))
           formals == FormalScope(Lib(chain), InterfacesOf(e) \o InterfacesOf(c))
           actuals == ActualsFound(chain, chain, Node)
           found == ComponentFound(chain, Node) ++ UnitFound(Node, e)
                      ++ MatchingBindingFound(chain, Node)
                      ++ (actuals ++ FormalsFound(formals, Node))
<1>1. Walking /\ IsA(Node, {"component_instantiation"}) /\ ~IsA(Node, UnitKinds) /\ Typed
  BY DEF ResolveComponentInstantiation, At, IsA, UnitKinds, NestInv, WalkInv
<1>2. /\ design \in Designs /\ Node \in Nodes /\ Visited(Node)
      /\ chain = ChainOf(ParentOf(Node)) /\ chain \in Seq(ScopeType)
  BY <1>1, Standing, ChainType DEF Typed
<1>3. Record(found)
  BY DEF ResolveComponentInstantiation, PassBy, AssociationsFound
<1>4. Seeks(MatchingBindingFound(chain, Node))
  <2>1. CASE Matching(chain, Node) = <<>>
    BY <2>1, SeeksNothing DEF MatchingBindingFound
  <2>2. CASE Matching(chain, Node) # <<>>
    <3>1. Matching(chain, Node)[1] \in Specs
      BY <1>2, <2>2, MatchingNodes
    <3>2. IsA(Matching(chain, Node)[1], {"configuration_specification"})
      BY <3>1 DEF Specs, OfKind
    <3> QED
      BY <2>2, <3>2, SeeksBinding DEF MatchingBindingFound
  <2> QED
    BY <2>1, <2>2
<1> HIDE DEF chain, e, c, formals
<1>5. Seeks(found)
  <2>1. Seeks(ComponentFound(chain, Node))
    BY <1>2, SeeksComponent
  <2>2. Seeks(UnitFound(Node, e))
    BY <1>1, SeeksUnit DEF IsA
  <2>3. Seeks(actuals) /\ Seeks(FormalsFound(formals, Node))
    BY <1>1, <1>2, ActualsAreIn, SeeksActuals, SeeksFormals DEF IsA
  <2> HIDE DEF actuals
  <2> QED
    BY <1>4, <2>1, <2>2, <2>3, SeeksBoth
<1>6. Reaches(found)
  <2>1. Attempted({Node}, "actual") \cup Attempted({Node}, "designator") = DOMAIN actuals
    BY ActualsAre
  <2> HIDE DEF actuals
  <2> DEFINE maps == actuals ++ FormalsFound(formals, Node)
             others == ComponentFound(chain, Node) ++ UnitFound(Node, e)
                         ++ MatchingBindingFound(chain, Node)
  <2>2. DOMAIN found = DOMAIN others \cup DOMAIN maps
        /\ DOMAIN maps = DOMAIN actuals \cup DOMAIN FormalsFound(formals, Node)
    BY DEF ++
  <2> HIDE DEF found, maps, others
  <2> QED
    BY <1>1, <2>1, <2>2, Reaching DEF IsA, Mapping, Instantiations
<1> QED
  BY <1>3, <1>5, <1>6 DEF Resolves

LEMMA HandlersResolve ==
  ASSUME NestInv, Resolve
  PROVE  (Resolves /\ (Entered \/ PassedBy)) \/ Leave \/ Link
BY ResolveEntitySeeks, ResolvePackageSeeks, ResolvePackageInstantiationSeeks,
   ResolveArchitectureSeeks, ResolvePackageBodySeeks, ResolveBlockStatementSeeks,
   ResolveGenerateBodySeeks, ResolveProcessSeeks, ResolveSubprogramBodySeeks,
   ResolveDeclarationSeeks, ResolveStatementSeeks, ResolveConfigurationSpecificationSeeks,
   ResolveEntityInstantiationSeeks, ResolveComponentInstantiationSeeks, ResolveCases
   DEF Resolve, NestInv

--------------------------------------------------------------------------------
(* A reference that nothing binds again is empty or what the text means,    *)
(* and is called ambiguous only if it is.                                   *)
Holds(s, ref, reported) ==
  /\ ref \in {None, Meant(Sought(s))}
  /\ reported => Len(Sought(s)) > 1
Kept == \A s \in Slots : Rebound(s) \/ Holds(s, refs[s], s \in ambiguous)

LEMMA FixedMeaning ==
  ASSUME design' = design
  PROVE  /\ \A s : Sought(s)' = Sought(s) /\ (Rebound(s)' <=> Rebound(s))
         /\ \A s : NameOf(s)' = NameOf(s)
         /\ \A n : Visitor(n)' = Visitor(n) /\ Children(n)' = Children(n)
<1>1. Nodes' = Nodes /\ Units' = Units
  BY DEF Nodes, Units
<1>2. \A n : N(n)' = N(n)
  BY DEF N
<1>3. \A n, kinds : IsA(n, kinds)' = IsA(n, kinds)
  BY DEF IsA, N
<1>4. \A n : Children(n)' = Children(n) /\ ChainOf(n)' = ChainOf(n)
  BY ShownIs
<1>5. \A n : ParentOf(n)' = ParentOf(n)
  BY <1>1, <1>4 DEF ParentOf
<1>6. \A kind, lib, name : FindUnit(kind, lib, name)' = FindUnit(kind, lib, name)
  BY DEF FindUnit, N, IsA, Units
<1>7. \A decls : Inserted(decls)' = Inserted(decls)
  <2>1. \A sy, d : InsertDeclaration(sy, d)' = InsertDeclaration(sy, d)
    BY DEF InsertDeclaration, IsA, N
  <2> QED
    BY <2>1 DEF Inserted
<1>8. \A p, id : LookupInPackage(p, id)' = LookupInPackage(p, id)
  BY <1>2, <1>7 DEF LookupInPackage
<1>9. \A lib, name : LookupQualified(lib, name)' = LookupQualified(lib, name)
  BY <1>6, <1>8 DEF LookupQualified
<1>10. \A lib, clause, id : Offer(lib, clause, id)' = Offer(lib, clause, id)
  BY <1>6, <1>8, <1>9 DEF Offer
<1>11. \A chain, id : LookupInUseClauses(chain, id)' = LookupInUseClauses(chain, id)
  BY <1>10 DEF LookupInUseClauses
<1>12. \A chain, name : Lookup(chain, name)' = Lookup(chain, name)
  BY <1>9, <1>11 DEF Lookup
<1>13. \A found : AsComponent(found)' = AsComponent(found)
  BY <1>3 DEF AsComponent
<1>14. Owned' = Owned /\ \A n : Owner(n)' = Owner(n) /\ BodiesOf(n)' = BodiesOf(n)
  BY <1>1, <1>2, <1>3 DEF Owned, Owner, BodiesOf
<1>15. \A s : RegionOf(s)' = RegionOf(s)
  BY <1>1, <1>2, <1>3, <1>5, <1>14 DEF RegionOf
<1>16. \A n : Visitor(n)' = Visitor(n)
  BY DEF Visitor, BodiesOf, Owned, Owner, IsA, N, Nodes
<1>17. \A s : LookedUpIn(s)' = LookedUpIn(s)
  BY <1>3, <1>15 DEF LookedUpIn
<1>18. \A n : UnitMeant(n)' = UnitMeant(n)
  BY <1>2, <1>3, <1>4, <1>5, <1>6 DEF UnitMeant, Primary
<1>19. \A s : NameOf(s)' = NameOf(s)
  BY <1>2 DEF NameOf
<1>20. \A s : Sought(s)' = Sought(s)
  BY <1>2, <1>4, <1>5, <1>12, <1>13, <1>15, <1>17, <1>18, <1>19 DEF Sought
<1>21. \A s : Rebound(s)' <=> Rebound(s)
  BY <1>3 DEF Rebound
<1> QED
  BY <1>4, <1>16, <1>19, <1>20, <1>21

LEMMA RecordHolds ==
  ASSUME Typed, Kept, Resolves
  PROVE  \A s \in Slots : \/ Rebound(s)
                          \/ /\ Holds(s, refs'[s], s \in ambiguous')
                             /\ refs[s] # None => refs'[s] = refs[s]
<1>1. PICK found : Record(found) /\ Seeks(found)
  BY DEF Resolves
<1>2. TAKE s \in Slots
<1>3. /\ refs'[s] = IF s \in DOMAIN found THEN Meant(found[s]) ELSE refs[s]
      /\ s \in ambiguous' => s \in ambiguous \/ (s \in DOMAIN found /\ Len(found[s]) > 1)
  BY <1>1 DEF Record, Typed
<1>4. SUFFICES ASSUME ~Rebound(s)
               PROVE  /\ Holds(s, refs'[s], s \in ambiguous')
                      /\ refs[s] # None => refs'[s] = refs[s]
  OBVIOUS
<1>5. Holds(s, refs[s], s \in ambiguous)
  BY <1>4 DEF Kept
<1>6. s \in DOMAIN found => found[s] = Sought(s)
  BY <1>1, <1>4 DEF Seeks
<1> QED
  BY <1>3, <1>5, <1>6 DEF Holds

LEMMA LinkHolds ==
  ASSUME Typed, Link
  PROVE  /\ ambiguous' = ambiguous /\ design' = design
         /\ \A s \in Slots : Rebound(s) \/ refs'[s] = refs[s]
BY DEF Link, Typed, Rebound

(* What a step does to the references that nothing binds again. *)
LEMMA StepHolds ==
  ASSUME NestInv, Kept, [Next]_vars
  PROVE  /\ design' = design
         /\ \A s \in Slots : \/ Rebound(s)
                             \/ /\ Holds(s, refs'[s], s \in ambiguous')
                                /\ refs[s] # None => refs'[s] = refs[s]
<1>1. Typed
  BY DEF NestInv, WalkInv
<1>2. CASE Resolve
  <2>1. CASE Resolves
    <3>1. design' = design
      BY <2>1 DEF Resolves, Record
    <3> QED
      BY <1>1, <2>1, <3>1, RecordHolds
  <2>2. CASE Leave
    <3>1. design' = design /\ refs' = refs /\ ambiguous' = ambiguous
      BY <2>2 DEF Leave
    <3> QED
      BY <3>1 DEF Kept
  <2>3. CASE Link
    BY <1>1, <2>3, LinkHolds DEF Kept
  <2> QED
    BY <1>2, <2>1, <2>2, <2>3, HandlersResolve
<1>3. CASE ResolveReferences \/ Done \/ UNCHANGED vars
  <2>1. design' = design /\ refs' = refs /\ ambiguous' = ambiguous
    BY <1>3 DEF ResolveReferences, Done, vars
  <2> QED
    BY <2>1 DEF Kept
<1> QED
  BY <1>2, <1>3 DEF Next

LEMMA KeptStep ==
  ASSUME NestInv, Kept, [Next]_vars
  PROVE  Kept'
<1>1. design' = design
      /\ \A s \in Slots : Rebound(s) \/ Holds(s, refs'[s], s \in ambiguous')
  BY StepHolds
<1>2. Slots' = Slots
  BY <1>1, Fixed
<1>3. \A s : Sought(s)' = Sought(s) /\ (Rebound(s)' <=> Rebound(s))
  BY <1>1, FixedMeaning
<1> QED
  BY <1>1, <1>2, <1>3 DEF Kept, Holds

--------------------------------------------------------------------------------
KeptInv == NestInv /\ Kept

LEMMA KeptInvariant == Spec => []KeptInv
<1>1. ASSUME Init PROVE KeptInv
  <2>1. NestInv
    BY <1>1, NestInit
  <2>2. \A s \in Slots : refs[s] = None /\ s \notin ambiguous
    BY <1>1 DEF Init, Slots
  <2> QED
    BY <2>1, <2>2 DEF KeptInv, Kept, Holds
<1>2. KeptInv /\ [Next]_vars => KeptInv'
  BY NestStep, KeptStep DEF KeptInv
<1> QED
  BY <1>1, <1>2, PTL DEF Spec

--------------------------------------------------------------------------------
(* What a scope has under a name, and the declarations of that name in its  *)
(* region: both are empty or neither is, a reference means declarations of  *)
(* the name only, and declarations of subprograms alone share one entry.    *)
Meanings(decls) == {Meaning(d) : d \in ToSet(decls)}
Single(entries) ==
  /\ Len(entries) = 1
  /\ entries[1].overload \/ IsA(entries[1].of[1], {"subprogram_declaration"})
Fits(entries, decls) ==
  /\ entries = <<>> <=> decls = <<>>
  /\ Len(entries) <= Len(decls)
  /\ \A k \in 1..Len(entries) : ToSet(entries[k].of) \subseteq Meanings(decls)
  /\ decls # <<>> /\ Overloaded(decls) => Single(entries)

LEMMA Appended ==
  ASSUME NEW T, NEW q \in Seq(T), NEW x \in T
  PROVE  /\ Append(q, x) \in Seq(T) /\ Append(q, x) # <<>> /\ Len(Append(q, x)) = Len(q) + 1
         /\ DOMAIN Append(q, x) = 1..(Len(q) + 1)
         /\ Append(q, x)[Len(q) + 1] = x /\ \A k \in 1..Len(q) : Append(q, x)[k] = q[k]
         /\ ToSet(Append(q, x)) = ToSet(q) \cup {x}
<1> DEFINE p == Append(q, x)
<1>1. p \in Seq(T) /\ Len(p) = Len(q) + 1 /\ p[Len(q) + 1] = x /\ Len(q) \in Nat
      /\ \A i \in 1..Len(q) : p[i] = q[i]
  OBVIOUS
<1>2. DOMAIN p = 1..(Len(q) + 1) /\ DOMAIN q = 1..Len(q)
  BY <1>1
<1>3. p # <<>>
  BY <1>1
<1> HIDE DEF p
<1>4. \A i \in 1..(Len(q) + 1) : i \in 1..Len(q) \/ i = Len(q) + 1
  BY <1>1
<1>5. \A i \in 1..Len(q) : i \in 1..(Len(q) + 1)
  BY <1>1
<1>6. Len(q) + 1 \in 1..(Len(q) + 1)
  BY <1>1
<1>7. ToSet(p) = ToSet(q) \cup {x}
  BY <1>1, <1>2, <1>4, <1>5, <1>6 DEF ToSet
<1> QED
  BY <1>1, <1>2, <1>3, <1>7 DEF p

(* What inserting a declaration changes under a name. *)
LEMMA InsertionAt ==
  ASSUME design \in Designs, NEW sy \in Symbols, NEW d \in Nodes, NEW id
  PROVE  LET old == Entries(sy, id)
             new == Entries(InsertDeclaration(sy, d), id)
         IN  \/ ~(N(d).id = id /\ ~IsA(d, Unnamed)) /\ new = old
             \/ /\ N(d).id = id /\ ~IsA(d, Unnamed)
                /\ \/ /\ IsA(d, {"subprogram_declaration"}) /\ Len(old) = 1
                      /\ new \in {<<Overload(Append(old[1].of, d))>>, <<Overload(old[1].of)>>}
                   \/ /\ ~(IsA(d, {"subprogram_declaration"}) /\ Single(old))
                      /\ new = Append(old, To(Meaning(d)))
<1> DEFINE i == N(d).id
           s == InsertDeclaration(sy, d)
<1>1. DOMAIN s = DOMAIN sy \cup (IF IsA(d, Unnamed) THEN {} ELSE {i})
  BY InsertionType
<1>2. IsA(d, {"subprogram_declaration"}) => ~IsA(d, Unnamed) /\ ~IsA(d, {"subprogram_body"})
  BY DEF IsA, Unnamed
<1>3. IsA(d, {"subprogram_body"}) => ~IsA(d, Unnamed)
  BY DEF IsA, Unnamed
<1>4. ASSUME NEW r, s = Insert(sy, i, r)
      PROVE  Entries(s, id) = IF id = i THEN Append(Entries(sy, id), r) ELSE Entries(sy, id)
  <2> HIDE DEF i, s
  <2>1. DOMAIN s = DOMAIN sy \cup {i}
        /\ \A j \in DOMAIN s : s[j] = IF j = i THEN Append(Entries(sy, i), r) ELSE sy[j]
    BY <1>4 DEF Insert
  <2> QED
    BY <2>1 DEF Entries
<1>5. ASSUME NEW of, Merges(sy, d), s = Overloads(sy, d, of)
      PROVE  Entries(s, id) = IF id = i THEN <<Overload(of)>> ELSE Entries(sy, id)
  <2>1. Len(Entries(sy, i)) = 1
    BY <1>5 DEF Merges
  <2>2. i \in DOMAIN sy
    <3>1. Entries(sy, i) # <<>>
      BY <2>1
    <3> QED
      BY <3>1 DEF Entries
  <2>3. s = [sy EXCEPT ![i] = <<Overload(of)>>]
    BY <1>5 DEF Overloads
  <2> HIDE DEF i, s
  <2> QED
    BY <2>2, <2>3 DEF Entries
<1>6. CASE Merges(sy, d) /\ s = Overloads(sy, d, Append(First(sy, d).of, d))
  BY <1>2, <1>5, <1>6 DEF Merges, First
<1>7. CASE Merges(sy, d) /\ s = Overloads(sy, d, First(sy, d).of)
  BY <1>2, <1>5, <1>7 DEF Merges, First
<1>8. CASE ~(Merges(sy, d) /\ (First(sy, d).overload
                    \/ IsA(First(sy, d).of[1], {"subprogram_declaration"})))
  <2>1. i = id => ~(IsA(d, {"subprogram_declaration"}) /\ Single(Entries(sy, id)))
    BY <1>8 DEF Merges, First, Single
  <2>2. CASE IsA(d, {"subprogram_body"}) /\ s = Insert(sy, i, To(N(d).specification))
    BY <1>3, <1>4, <2>1, <2>2 DEF Meaning
  <2>3. CASE IsA(d, Unnamed) /\ s = sy
    BY <2>3
  <2>4. CASE ~IsA(d, {"subprogram_body"}) /\ ~IsA(d, Unnamed) /\ s = Insert(sy, i, To(d))
    BY <1>4, <2>1, <2>4 DEF Meaning
  <2>5. CASE Merges(sy, d) /\ (First(sy, d).overload
                    \/ IsA(First(sy, d).of[1], {"subprogram_declaration"}))
    BY <1>8, <2>5
  <2> QED
    BY <1>6, <1>7, <2>2, <2>3, <2>4, <2>5, InsertionCases
<1> QED
  BY <1>6, <1>7, <1>8, InsertionCases

LEMMA FitsNothing == Fits(<<>>, <<>>)
BY DEF Fits

LEMMA FirstIs ==
  ASSUME NEW T, NEW q \in Seq(T), Len(q) = 1
  PROVE  q[1] \in T
OBVIOUS

LEMMA FitsMerged ==
  ASSUME NEW old \in Seq(Ref), NEW decls \in Seq(Nodes), NEW d \in Nodes, Fits(old, decls),
         IsA(d, {"subprogram_declaration"}), Len(old) = 1,
         NEW new \in {<<Overload(Append(old[1].of, d))>>, <<Overload(old[1].of)>>}
  PROVE  Fits(new, Append(decls, d))
<1> DEFINE more == Append(decls, d)
           of == old[1].of
<1>1. Meaning(d) = d
  BY DEF Meaning, IsA
<1>2. old[1] \in Ref
  BY FirstIs
<1>3. of \in Seq(Nodes) /\ ToSet(of) \subseteq Meanings(decls)
  <2>1. of \in Seq(Nodes)
    BY <1>2, RefsAre
  <2>2. ToSet(of) \subseteq Meanings(decls)
    <3>1. 1 \in 1..Len(old)
      OBVIOUS
    <3> QED
      BY <3>1 DEF Fits
  <2> QED
    BY <2>1, <2>2
<1>4. more # <<>> /\ Len(more) = Len(decls) + 1 /\ ToSet(more) = ToSet(decls) \cup {d}
      /\ Len(decls) \in Nat
  BY Appended
<1> HIDE DEF more, of
<1>5. Meanings(more) = Meanings(decls) \cup {d}
  BY <1>1, <1>4 DEF Meanings
<1>6. ToSet(Append(of, d)) = ToSet(of) \cup {d}
  BY <1>3, Appended
<1>7. new \in {<<Overload(Append(of, d))>>, <<Overload(of)>>}
  BY DEF of
<1>8. new # <<>> /\ Len(new) = 1 /\ new[1].overload
      /\ ToSet(new[1].of) \subseteq ToSet(of) \cup {d}
  <2>1. \A x : <<Overload(x)>> # <<>> /\ Len(<<Overload(x)>>) = 1 /\ <<Overload(x)>>[1] = Overload(x)
    OBVIOUS
  <2>2. \A x : Overload(x).overload /\ Overload(x).of = x
    BY DEF Overload
  <2>3. PICK x \in {Append(of, d), of} : new = <<Overload(x)>>
    BY <1>7
  <2> QED
    BY <1>6, <2>1, <2>2, <2>3
<1>9. \A k \in 1..Len(new) : k = 1
  BY <1>8
<1>10. ToSet(new[1].of) \subseteq Meanings(more)
  BY <1>3, <1>5, <1>8
<1> QED
  BY <1>4, <1>8, <1>9, <1>10 DEF Fits, Single, more

LEMMA FitsInserted ==
  ASSUME NEW old \in Seq(Ref), NEW decls \in Seq(Nodes), NEW d \in Nodes, Fits(old, decls),
         ~(IsA(d, {"subprogram_declaration"}) /\ Single(old)),
         To(Meaning(d)) \in Ref
  PROVE  Fits(Append(old, To(Meaning(d))), Append(decls, d))
<1> DEFINE more == Append(decls, d)
           r == To(Meaning(d))
           new == Append(old, r)
<1>1. /\ more # <<>> /\ Len(more) = Len(decls) + 1 /\ ToSet(more) = ToSet(decls) \cup {d}
      /\ Len(decls) \in Nat
      /\ DOMAIN more = 1..(Len(decls) + 1)
      /\ more[Len(decls) + 1] = d /\ \A k \in 1..Len(decls) : more[k] = decls[k]
  BY Appended
<1>2. /\ new # <<>> /\ Len(new) = Len(old) + 1 /\ Len(old) \in Nat
      /\ new[Len(old) + 1] = r /\ \A k \in 1..Len(old) : new[k] = old[k]
  BY Appended
<1>3. ToSet(r.of) = {Meaning(d)} /\ r.of[1] = Meaning(d)
  BY DEF To, ToSet
<1> HIDE DEF more, r, new
<1>4. Meanings(more) = Meanings(decls) \cup {Meaning(d)}
  BY <1>1 DEF Meanings
<1>5. \A k \in 1..Len(new) : ToSet(new[k].of) \subseteq Meanings(more)
  <2> TAKE k \in 1..Len(new)
  <2>1. k \in 1..Len(old) \/ k = Len(old) + 1
    BY <1>2
  <2>2. CASE k \in 1..Len(old)
    BY <1>2, <1>4, <2>2 DEF Fits
  <2>3. CASE k = Len(old) + 1
    BY <1>2, <1>3, <1>4, <2>3
  <2> QED
    BY <2>1, <2>2, <2>3
<1>6. Len(new) <= Len(more)
  BY <1>1, <1>2 DEF Fits
<1>7. Overloaded(more) => Single(new)
  <2> SUFFICES ASSUME Overloaded(more) PROVE Single(new)
    OBVIOUS
  <2>1. IsA(d, {"subprogram_declaration"})
    <3>1. Len(decls) + 1 \in DOMAIN more
      BY <1>1
    <3> QED
      BY <1>1, <3>1 DEF Overloaded
  <2>2. Overloaded(decls)
    <3>1. DOMAIN decls = 1..Len(decls)
      OBVIOUS
    <3>2. \A k \in 1..Len(decls) : k \in 1..(Len(decls) + 1)
      BY <1>1
    <3> QED
      BY <1>1, <3>1, <3>2 DEF Overloaded
  <2>3. decls = <<>>
    BY <2>1, <2>2 DEF Fits
  <2>4. old = <<>> /\ Len(old) = 0
    BY <2>3 DEF Fits
  <2>5. Meaning(d) = d
    BY <2>1 DEF Meaning, IsA
  <2> QED
    BY <1>2, <1>3, <2>1, <2>4, <2>5 DEF Single
<1> QED
  BY <1>1, <1>2, <1>5, <1>6, <1>7 DEF Fits, more, new, r

LEMMA MeaningIsNode ==
  ASSUME design \in Designs, NEW d \in Nodes
  PROVE  Meaning(d) \in Nodes /\ To(Meaning(d)) \in Ref
BY NodeFacts, RefsAre DEF Meaning, IsA

LEMMA InsertedFits ==
  ASSUME design \in Designs, NEW decls \in Seq(Nodes), NEW id
  PROVE  Fits(Entries(Inserted(decls), id), Under(decls, id))
<1> DEFINE m == Len(decls)
           A == {d \in Nodes : N(d).id = id /\ ~IsA(d, Unnamed)}
<1>1. m \in Nat /\ m \in 0..m /\ 0 \in 0..m /\ \A k \in 1..m : decls[k] \in Nodes
  OBVIOUS
<1>2. PICK f \in [0..m -> Symbols] : Builds(f, decls)
  BY InsertedUpto
<1>3. PICK g \in [0..m -> Seq(Nodes)] : Filters(g, decls, A)
  BY AmongUpto
<1> DEFINE h == [k \in 0..m |-> IF Fits(Entries(f[k], id), g[k]) THEN 1 ELSE 0]
<1>4. h[0] \in {1}
  <2>1. f[0] = [i \in {} |-> <<>>] /\ g[0] = <<>>
    BY <1>2, <1>3 DEF Builds, Filters
  <2>2. Entries(f[0], id) = <<>>
    BY <2>1 DEF Entries
  <2> QED
    BY <1>1, <2>1, <2>2, FitsNothing
<1>5. ASSUME NEW k \in 1..m, h[k - 1] \in {1} PROVE h[k] \in {1}
  <2> DEFINE old == Entries(f[k - 1], id)
             new == Entries(f[k], id)
             d == decls[k]
  <2>1. k - 1 \in 0..m /\ k \in 0..m /\ d \in Nodes
    BY <1>1
  <2>2. Fits(old, g[k - 1])
    BY <1>5, <2>1
  <2>3. f[k] = InsertDeclaration(f[k - 1], d) /\ f[k - 1] \in Symbols
    BY <1>2, <2>1 DEF Builds
  <2>4. g[k] = (IF N(d).id = id /\ ~IsA(d, Unnamed) THEN Append(g[k - 1], d) ELSE g[k - 1])
        /\ g[k - 1] \in Seq(Nodes)
    <3>1. g[k] = IF d \in A THEN Append(g[k - 1], d) ELSE g[k - 1]
      BY <1>3 DEF Filters
    <3> QED
      BY <2>1, <3>1
  <2>5. old \in Seq(Ref)
    BY <2>3, EntriesType
  <2>6. \/ ~(N(d).id = id /\ ~IsA(d, Unnamed)) /\ new = old
        \/ /\ N(d).id = id /\ ~IsA(d, Unnamed)
           /\ \/ /\ IsA(d, {"subprogram_declaration"}) /\ Len(old) = 1
                 /\ new \in {<<Overload(Append(old[1].of, d))>>, <<Overload(old[1].of)>>}
              \/ /\ ~(IsA(d, {"subprogram_declaration"}) /\ Single(old))
                 /\ new = Append(old, To(Meaning(d)))
    BY <2>1, <2>3, InsertionAt
  <2> HIDE DEF old, new, d
  <2>7. Fits(new, g[k])
    <3>1. CASE ~(N(d).id = id /\ ~IsA(d, Unnamed))
      BY <2>2, <2>4, <2>6, <3>1
    <3>2. CASE N(d).id = id /\ ~IsA(d, Unnamed)
      <4>1. g[k] = Append(g[k - 1], d)
        BY <2>4, <3>2
      <4>2. CASE /\ IsA(d, {"subprogram_declaration"}) /\ Len(old) = 1
                 /\ new \in {<<Overload(Append(old[1].of, d))>>, <<Overload(old[1].of)>>}
        BY <2>1, <2>2, <2>4, <2>5, <4>1, <4>2, FitsMerged
      <4>3. CASE /\ ~(IsA(d, {"subprogram_declaration"}) /\ Single(old))
                 /\ new = Append(old, To(Meaning(d)))
        BY <2>1, <2>2, <2>4, <2>5, <4>1, <4>3, FitsInserted, MeaningIsNode
      <4> QED
        BY <2>6, <3>2, <4>2, <4>3
    <3> QED
      BY <3>1, <3>2
  <2> QED
    BY <2>1, <2>7 DEF new
<1>6. \A k \in 0..m : h[k] \in {1}
  <2> HIDE DEF h
  <2> QED
    BY <1>1, <1>4, <1>5, Upwards
<1>7. Fits(Entries(f[m], id), g[m])
  BY <1>1, <1>6
<1>8. Inserted(decls) = f[m] /\ Under(decls, id) = g[m]
  BY <1>2, <1>3 DEF Builds, Filters, Under
<1> QED
  BY <1>7, <1>8

(* A use clause offers one declaration at most. *)
LEMMA UseClausesOfferOne ==
  ASSUME design \in Designs, NEW chain, NEW id
  PROVE  Len(LookupInUseClauses(chain, id)) <= 1
<1>0. Len(<<>>) <= 1
  OBVIOUS
<1>1. \A p, i : Len(LookupInPackage(p, i)) <= 1
  <2> TAKE p, i
  <2> DEFINE found == Entries(Inserted(N(p).interfaces \o N(p).declarations), i)
  <2>1. LookupInPackage(p, i) = IF p # None /\ Len(found) = 1 THEN found ELSE <<>>
    BY DEF LookupInPackage
  <2> HIDE DEF found
  <2>2. CASE p # None /\ Len(found) = 1
    <3>1. LookupInPackage(p, i) = found
      BY <2>1, <2>2
    <3>2. Len(LookupInPackage(p, i)) = 1
      BY <2>2, <3>1
    <3>3. \A x : x = 1 => x <= 1
      OBVIOUS
    <3> QED
      BY <3>2, <3>3
  <2>3. CASE ~(p # None /\ Len(found) = 1)
    <3>1. LookupInPackage(p, i) = <<>>
      BY <2>1, <2>3
    <3> QED
      BY <1>0, <3>1
  <2> QED
    BY <2>2, <2>3
<1>2. \A n \in Nodes \cup {None} : Len(Candidate(n)) <= 1
  BY CandidateType
<1>3. \A lib, name : Len(LookupQualified(lib, name)) <= 1
  <2> TAKE lib, name
  <2> DEFINE e == FindUnit("entity", lib, name)
             p == FindUnit("package", lib, name)
             one == IF e # None THEN <<To(e)>> ELSE Candidate(p)
             two == Candidate(p)
             three == LookupInPackage(p, name[3])
  <2>1. e \in Nodes \cup {None} /\ p \in Nodes \cup {None}
    BY UnitIsNode
  <2>2. Len(Candidate(e)) <= 1 /\ Len(Candidate(p)) <= 1
    BY <1>2, <2>1
  <2>3. Len(one) <= 1 /\ Len(two) <= 1 /\ Len(three) <= 1
    <3>1. one \in {Candidate(e), Candidate(p)}
      BY DEF Candidate
    <3> HIDE DEF e, p, one
    <3> QED
      BY <1>1, <2>2, <3>1
  <2>4. LookupQualified(lib, name) =
          CASE Len(name) = 2 -> one
            [] Len(name) > 2 /\ name[3] = "all" -> two
            [] OTHER -> three
    BY DEF LookupQualified
  <2> HIDE DEF one, two, three
  <2>5. LookupQualified(lib, name) \in {one, two, three}
    <3>1. CASE Len(name) = 2
      <4>1. ~(Len(name) > 2)
        BY <3>1
      <4> QED
        BY <2>4, <3>1, <4>1
    <3>2. CASE Len(name) # 2
      BY <2>4, <3>2
    <3> QED
      BY <3>1, <3>2
  <2> QED
    BY <2>3, <2>5
<1>4. \A lib, clause, i : Len(Offer(lib, clause, i)) <= 1
  BY <1>0, <1>1, <1>3 DEF Offer
<1> DEFINE uses == FlattenSeq([k \in DOMAIN chain |-> chain[k].uses])
           offers == {k \in DOMAIN uses : Offer(Lib(chain), uses[k], id) # <<>>}
<1>5. LookupInUseClauses(chain, id) =
        IF offers = {} THEN <<>> ELSE Offer(Lib(chain), uses[Min(offers)], id)
  BY DEF LookupInUseClauses
<1> HIDE DEF offers, uses
<1> QED
  BY <1>0, <1>4, <1>5

(* What a simple name means in a region: an entry of the innermost group    *)
(* that declares the name, else what a use clause offers.                   *)
LEMMA LookupShown ==
  ASSUME design \in Designs, NEW r \in Nodes, IsA(r, Regions), NEW name, Len(name) = 1
  PROVE  LET groups == Around(r)
             having == {k \in DOMAIN groups : Under(groups[k], name[1]) # <<>>}
         IN  /\ having # {} =>
                  /\ Fits(Lookup(ChainOf(r), name), Under(groups[Min(having)], name[1]))
                  /\ Under(groups[Min(having)], name[1]) # <<>>
             /\ having = {} => Len(Lookup(ChainOf(r), name)) <= 1
<1> DEFINE groups == Around(r)
           chain == ChainOf(r)
           id == name[1]
           m == Len(groups)
           ds == Declares(groups)
           e == Inserted(<<>>)
           view == SymbolsOf(chain)
           hits == {k \in DOMAIN chain : Entries(chain[k].symbols, id) # <<>>}
           having == {k \in DOMAIN groups : Under(groups[k], id) # <<>>}
<1>1. groups \in Seq(Seq(Nodes)) /\ chain \in Seq(ScopeType)
  BY AroundIs, ChainOfIs
<1>2. view \in {ds, Append(ds, e)}
  BY RegionShows DEF Shows
<1>3. \A k \in 1..m : Fits(Entries(Inserted(groups[k]), id), Under(groups[k], id))
  <2>1. \A k \in 1..m : groups[k] \in Seq(Nodes)
    BY <1>1
  <2> QED
    BY <2>1, InsertedFits
<1>4. Entries(e, id) = <<>>
  <2>1. DOMAIN e = {}
    BY RootIs
  <2> QED
    BY <2>1 DEF Entries
<1>5. Lookup(chain, name) = IF hits = {} THEN LookupInUseClauses(chain, id)
                            ELSE Entries(chain[Min(hits)].symbols, id)
  BY DEF Lookup
<1>6. /\ m \in Nat /\ DOMAIN groups = 1..m /\ DOMAIN ds = 1..m
      /\ \A k \in 1..m : ds[k] = Inserted(groups[k])
      /\ \A k \in DOMAIN chain : view[k] = chain[k].symbols
      /\ DOMAIN view = DOMAIN chain
  <2>1. m \in Nat /\ DOMAIN groups = 1..m
    BY <1>1
  <2> QED
    BY <2>1 DEF Declares, SymbolsOf
<1>7. ds \in Seq(Symbols) /\ Len(ds) = m /\ e \in Symbols
  <2>1. \A k \in 1..m : groups[k] \in Seq(Nodes)
    BY <1>1
  <2>2. \A k \in 1..m : Inserted(groups[k]) \in Symbols
    BY <2>1, InsertedNames
  <2>3. ds \in [1..m -> Symbols]
    <3> HIDE DEF m
    <3>1. ds = [k \in 1..m |-> Inserted(groups[k])]
      BY <1>6 DEF Declares
    <3> QED
      BY <2>2, <3>1
  <2>4. e \in Symbols
    <3>1. <<>> \in Seq(Nodes)
      OBVIOUS
    <3> QED
      BY <3>1, InsertedNames
  <2> HIDE DEF ds, m
  <2> QED
    BY <1>6, <2>3, <2>4, FunctionIsSeq
<1> HIDE DEF groups, chain, m, ds, e, view
<1>8. /\ 1..m \subseteq DOMAIN chain
      /\ \A k \in 1..m : chain[k].symbols = Inserted(groups[k])
      /\ \A k \in DOMAIN chain : k \in 1..m \/ chain[k].symbols = e
  <2>1. CASE view = ds
    BY <1>6, <2>1
  <2>2. CASE view = Append(ds, e)
    <3>1. /\ DOMAIN Append(ds, e) = 1..(m + 1) /\ Append(ds, e)[m + 1] = e
          /\ \A k \in 1..m : Append(ds, e)[k] = ds[k]
      BY <1>7, Appended
    <3>2. \A k \in 1..(m + 1) : k \in 1..m \/ k = m + 1
      BY <1>6
    <3>3. \A k \in 1..m : k \in 1..(m + 1)
      BY <1>6
    <3> QED
      BY <1>6, <2>2, <3>1, <3>2, <3>3
  <2> QED
    BY <1>2, <2>1, <2>2
<1>9. hits = having
  <2>1. \A k \in 1..m : Entries(chain[k].symbols, id) # <<>> <=> Under(groups[k], id) # <<>>
    BY <1>3, <1>8 DEF Fits
  <2> HIDE DEF id
  <2> QED
    BY <1>4, <1>6, <1>8, <2>1
<1>10. ASSUME having # {}
       PROVE  /\ Fits(Lookup(chain, name), Under(groups[Min(having)], id))
              /\ Under(groups[Min(having)], id) # <<>>
  <2>1. having \in SUBSET Nat
    BY <1>6
  <2>2. Min(having) \in having
    <3> HIDE DEF having
    <3> QED
      BY <1>10, <2>1, MinIsLeast
  <2>3. Min(having) \in 1..m
    BY <1>6, <2>2
  <2>4. Lookup(chain, name) = Entries(Inserted(groups[Min(having)]), id)
    <3> HIDE DEF having, hits
    <3> QED
      BY <1>5, <1>8, <1>9, <1>10, <2>3
  <2> QED
    BY <1>3, <2>2, <2>3, <2>4
<1>11. having = {} => Len(Lookup(chain, name)) <= 1
  BY <1>5, <1>9, UseClausesOfferOne
<1> QED
  BY <1>10, <1>11 DEF groups, chain

--------------------------------------------------------------------------------
(* A name stands in a region, and the node it is resolved at is visited.    *)
LEMMA Standalone ==
  ASSUME design \in Designs, NEW n \in Nodes, n \notin Owned, BodiesOf(n) = {}
  PROVE  Visited(n)
<1>1. \A b \in Nodes : b # None
  BY NodeFacts
<1>2. Holders(design, n) = {r \in Nodes : n \in Children(r)}
      /\ Owners(design, n) = {r \in Nodes : n \in ToSet(N(r).interfaces)}
      /\ Bodies(design, n) = BodiesOf(n)
  BY <1>1 DEF Holders, Owners, Bodies, BodiesOf, Children, Items, N, Nodes, IsA
<1>3. Owners(design, n) = {}
  BY <1>2 DEF Owned
<1>4. n \in ToSet(Units) <=> Holders(design, n) = {}
  BY <1>2, <1>3, ForestAssumption DEF Nodes, Units
<1> QED
  BY <1>2, <1>4 DEF Visited

LEMMA VisitorStands ==
  ASSUME design \in Designs, NEW n \in Nodes
  PROVE  Visitor(n) \in Nodes /\ Visited(Visitor(n))
<1> DEFINE o == IF n \in Owned THEN Owner(n) ELSE n
<1>1. Visitor(n) = IF BodiesOf(o) # {} THEN CHOOSE b \in BodiesOf(o) : TRUE ELSE o
  BY DEF Visitor
<1>2. \A x \in Nodes : x # None
  BY NodeFacts
<1>3. \A x \in Owned : \E r \in Nodes : /\ Owner(x) = r /\ x \in ToSet(N(r).interfaces)
                                        /\ IsA(x, {"signal"})
  BY PlacesAre DEF Owned
<1>4. \A x \in Nodes : BodiesOf(x) # {} => IsA(x, {"subprogram_declaration"})
  <2> TAKE x \in Nodes
  <2> HAVE BodiesOf(x) # {}
  <2>1. Bodies(design, x) # {}
    BY <1>2 DEF BodiesOf, Bodies, IsA, N, Nodes
  <2> QED
    BY <1>2, <2>1, KindsAssumption DEF IsA, N, Nodes
<1>5. o \in Nodes /\ o \notin Owned
  <2>1. CASE n \notin Owned
    BY <2>1
  <2>2. CASE n \in Owned
    <3>1. PICK r \in Nodes : o = r /\ n \in ToSet(N(r).interfaces)
      BY <1>3, <2>2
    <3>2. N(r).interfaces # <<>>
      <4>1. ToSet(<<>>) = {}
        BY DEF ToSet
      <4> QED
        BY <3>1, <4>1
    <3>3. N(r).kind \in {"package", "entity", "block", "component", "subprogram_declaration"}
      BY <3>2, KindsAssumption DEF N, Nodes
    <3>4. r \notin Owned
      BY <1>3, <3>3 DEF IsA
    <3> QED
      BY <3>1, <3>4
  <2> QED
    BY <2>1, <2>2
<1> HIDE DEF o
<1>6. CASE BodiesOf(o) = {}
  BY <1>1, <1>5, <1>6, Standalone
<1>7. CASE BodiesOf(o) # {}
  <2>1. PICK b : b = Visitor(n) /\ b \in BodiesOf(o)
    BY <1>1, <1>7
  <2>2. b \in Nodes /\ IsA(b, {"subprogram_body"})
    BY <2>1 DEF BodiesOf
  <2>3. b \notin Owned
    BY <1>3, <2>2 DEF IsA
  <2>4. BodiesOf(b) = {}
    BY <1>4, <2>2 DEF IsA
  <2> QED
    BY <2>1, <2>2, <2>3, <2>4, Standalone
<1> QED
  BY <1>6, <1>7

LEMMA NamesStandInRegions ==
  ASSUME Typed, NEW s \in SimpleNames
  PROVE  RegionOf(s) \in Nodes /\ IsA(RegionOf(s), Regions)
<1> DEFINE m == Visitor(s[1])
<1>1. design \in Designs /\ s[1] \in Nodes
  BY SimpleNameIs DEF Typed
<1>2. m \in Nodes /\ Visited(m)
  BY <1>1, VisitorStands
<1> HIDE DEF m
<1>3. m # None
  BY <1>1, <1>2, NodeFacts
<1>4. ~IsA(m, UnitKinds) => ParentOf(m) \in Nodes /\ IsA(ParentOf(m), Regions)
  <2> SUFFICES ASSUME ~IsA(m, UnitKinds)
               PROVE  ParentOf(m) \in Nodes /\ IsA(ParentOf(m), Regions)
    OBVIOUS
  <2>1. m \notin ToSet(Units)
    BY <1>1, <1>2, <1>3, KindsAssumption DEF IsA, UnitKinds, N, Nodes, Units
  <2>2. PICK r \in Nodes : m \in Children(r)
    BY <1>2, <2>1 DEF Visited
  <2>3. ParentOf(m) = r
    BY <1>1, <1>2, <2>2, ParentIs
  <2> QED
    BY <1>1, <2>2, <2>3, HoldersAreRegions
<1>5. \A nodes, part : \A x \in Attempted(nodes, part) : x[1] \in nodes /\ x[2] = part
  BY NamesFoundAre
<1>6. CASE /\ IsA(m, {"signal", "component", "subprogram_declaration",
                      "attribute_specification", "disconnection_specification", "statement"})
           /\ s \in Attempted({m}, "names")
  <2>1. s[1] = m
    BY <1>5, <1>6
  <2>2. ~IsA(m, Regions) /\ ~IsA(m, UnitKinds) /\ ~IsA(m, {"package", "package_instantiation"})
    BY <1>6 DEF IsA, Regions, UnitKinds
  <2> QED
    BY <1>1, <1>2, <1>4, <2>1, <2>2, RegionIs
<1>7. CASE IsA(m, {"block", "generate", "process"}) /\ s \in Attempted({m}, "outer")
  <2>1. s[1] = m /\ s[2] = "outer"
    BY <1>5, <1>7
  <2>2. ~IsA(m, UnitKinds) /\ ~IsA(m, {"package", "package_instantiation"})
    BY <1>7 DEF IsA, UnitKinds
  <2> QED
    BY <1>1, <1>2, <1>4, <2>1, <2>2, RegionIs
<1>8. CASE /\ IsA(m, {"package", "entity", "block", "component", "subprogram_declaration"})
           /\ s \in Attempted(ToSet(N(m).interfaces), "names")
  <2>1. s[1] \in ToSet(N(m).interfaces) /\ s[2] = "names"
    BY <1>5, <1>8
  <2>2. RegionOf(s) = IF IsA(m, Regions) THEN m ELSE ParentOf(m)
    BY <1>1, <1>2, <2>1, RegionIs
  <2>3. IsA(m, Regions) \/ ~IsA(m, UnitKinds)
    BY <1>8 DEF IsA, Regions, UnitKinds
  <2> QED
    BY <1>2, <1>4, <2>2, <2>3
<1>9. CASE /\ IsA(m, {"subprogram_body"})
           /\ \/ s \in Attempted({N(m).specification}, "names")
              \/ s \in Attempted(ToSet(N(N(m).specification).interfaces), "names")
  <2>1. s[1] = N(m).specification \/ s[1] \in ToSet(N(N(m).specification).interfaces)
    BY <1>5, <1>9
  <2>2. RegionOf(s) = ParentOf(m)
    BY <1>1, <1>2, <1>9, <2>1, RegionIs
  <2>3. ~IsA(m, UnitKinds)
    BY <1>9 DEF IsA, UnitKinds
  <2> QED
    BY <1>4, <2>2, <2>3
<1>10. CASE /\ IsA(m, Mapping)
            /\ s \in Attempted({m}, "actual") \cup Attempted({m}, "designator")
  <2>1. s[1] = m /\ s[2] # "names"
    BY <1>5, <1>10
  <2>2. CASE IsA(m, {"package", "package_instantiation"})
    <3>1. RegionOf(s) = m
      BY <1>1, <1>2, <2>1, <2>2, RegionIs
    <3> QED
      BY <1>2, <2>2, <3>1 DEF IsA, Regions
  <2>3. CASE ~IsA(m, {"package", "package_instantiation"})
    <3>1. RegionOf(s) = ParentOf(m)
      BY <1>1, <1>2, <2>1, <2>3, RegionIs
    <3>2. ~IsA(m, UnitKinds)
      BY <1>10, <2>3 DEF IsA, Mapping, Instantiations, UnitKinds
    <3> QED
      BY <1>4, <3>1, <3>2
  <2> QED
    BY <2>2, <2>3
<1> QED
  BY <1>6, <1>7, <1>8, <1>9, <1>10, SlotsAt DEF m

(* What a block does not declare is what is visible around it. *)
LEMMA NotCaptured ==
  ASSUME design \in Designs, NEW b \in Nodes, IsA(b, {"block"}),
         NEW id, Under(DeclaredBy(b), id) = <<>>
  PROVE  CompetingIn(b, id) = CompetingIn(ParentOf(b), id)
<1> DEFINE inner == Around(b)
           outer == Around(ParentOf(b))
           own == DeclaredBy(b)
           m == Len(outer)
           In == {k \in DOMAIN inner : Under(inner[k], id) # <<>>}
           Out == {k \in DOMAIN outer : Under(outer[k], id) # <<>>}
<1>1. /\ CompetingIn(b, id) = IF In = {} THEN <<>> ELSE Under(inner[Min(In)], id)
      /\ CompetingIn(ParentOf(b), id) = IF Out = {} THEN <<>> ELSE Under(outer[Min(Out)], id)
  BY DEF CompetingIn
<1>2. IsA(b, Enclosed) /\ Groups(b) = <<own>>
  BY DEF IsA, Enclosed, Groups
<1>3. ParentOf(b) \in Nodes
  BY <1>2, ParentIs
<1>4. outer \in Seq(Seq(Nodes)) /\ own \in Seq(Nodes)
  BY <1>3, AroundIs, DeclaredAre
<1>5. inner = <<own>> \o outer
  BY <1>2, AroundIs
<1> HIDE DEF inner, outer, own
<1>6. /\ m \in Nat /\ DOMAIN outer = 1..m /\ DOMAIN inner = 1..(m + 1)
      /\ inner[1] = own /\ \A k \in 1..m : inner[k + 1] = outer[k]
  BY <1>4, <1>5
<1>7. Under(own, id) = <<>>
  BY DEF own
<1> HIDE DEF m
<1>8. \A k \in Nat : k \in Out <=> k + 1 \in In
  <2> TAKE k \in Nat
  <2>1. k \in 1..m => k + 1 \in 1..(m + 1)
    BY <1>6
  <2>2. k + 1 \in 1..(m + 1) => k = 0 \/ k \in 1..m
    BY <1>6
  <2>3. 0 \notin 1..m /\ 0 + 1 = 1
    OBVIOUS
  <2> QED
    BY <1>6, <1>7, <2>1, <2>2, <2>3
<1>9. /\ In \in SUBSET Nat /\ Out \in SUBSET Nat
      /\ \A k \in In : k - 1 \in Nat /\ k - 1 + 1 = k
  BY <1>6
<1>10. CASE Out = {}
  <2>1. In = {}
    BY <1>8, <1>9, <1>10
  <2> QED
    BY <1>1, <1>10, <2>1
<1>11. CASE Out # {}
  <2> DEFINE i == Min(In)
             o == Min(Out)
  <2> HIDE DEF In, Out
  <2>1. o \in Out /\ o \in Nat /\ \A k \in Out : o <= k
    BY <1>9, <1>11, MinIsLeast
  <2>2. o + 1 \in In
    BY <1>8, <2>1
  <2>3. i \in In /\ i \in Nat /\ \A k \in In : i <= k
    BY <1>9, <2>2, MinIsLeast
  <2>4. i - 1 \in Out
    BY <1>8, <1>9, <2>3
  <2> HIDE DEF i, o
  <2>5. i = o + 1
    BY <2>1, <2>2, <2>3, <2>4
  <2>6. o \in 1..m
    BY <1>6, <2>1 DEF Out
  <2>7. inner[i] = outer[o]
    BY <1>6, <2>5, <2>6
  <2> QED
    BY <1>1, <1>11, <2>2, <2>7 DEF i, o
<1> QED
  BY <1>10, <1>11

(* A name is looked up in a region in which the same declarations compete   *)
(* for it as in the one it stands in.                                       *)
LEMMA LookedUpWhere ==
  ASSUME Typed, NEW s \in SimpleNames
  PROVE  /\ LookedUpIn(s) \in Nodes /\ IsA(LookedUpIn(s), Regions)
         /\ Competing(s) = CompetingIn(LookedUpIn(s), NameOf(s)[1])
<1> DEFINE b == s[1]
<1>1. design \in Designs /\ RegionOf(s) \in Nodes /\ IsA(RegionOf(s), Regions) /\ b \in Nodes
  BY NamesStandInRegions, SimpleNameIs DEF Typed
<1>2. CASE ~(s[2] = "designator" /\ IsA(b, {"block"}))
  BY <1>1, <1>2 DEF LookedUpIn, Competing
<1>3. CASE s[2] = "designator" /\ IsA(b, {"block"})
  <2>1. LookedUpIn(s) = b
    BY <1>3 DEF LookedUpIn
  <2>2. Under(DeclaredBy(b), NameOf(s)[1]) = <<>>
    BY <1>3 DEF SimpleNames, IsSimpleName, Captured
  <2>3. b \notin Owned /\ BodiesOf(b) = {}
    <3>1. N(b).kind = "block"
      BY <1>3 DEF IsA
    <3>2. b \notin Owned
      <4> SUFFICES ASSUME b \in Owned PROVE FALSE
        OBVIOUS
      <4>1. PICK r \in Nodes : b \in ToSet(N(r).interfaces)
        BY DEF Owned
      <4>2. IsA(b, {"signal"})
        BY <1>1, <4>1, PlacesAre
      <4> QED
        BY <3>1, <4>2 DEF IsA
    <3>3. BodiesOf(b) = {}
      <4>1. \A x \in Nodes : x # None
        BY <1>1, NodeFacts
      <4>2. BodiesOf(b) = Bodies(design, b)
        BY <4>1 DEF BodiesOf, Bodies, IsA, N, Nodes
      <4>3. Bodies(design, b) # {} => N(b).kind = "subprogram_declaration"
        BY <1>1, KindsAssumption DEF N, Nodes
      <4> QED
        BY <3>1, <4>2, <4>3
    <3> QED
      BY <3>2, <3>3
  <2>4. Visited(b)
    BY <1>1, <2>3, Standalone
  <2>5. RegionOf(s) = ParentOf(b)
    BY <1>1, <1>3, <2>4, RegionIs DEF IsA
  <2>6. CompetingIn(b, NameOf(s)[1]) = CompetingIn(ParentOf(b), NameOf(s)[1])
    BY <1>1, <1>3, <2>2, NotCaptured
  <2> QED
    BY <1>1, <1>3, <2>1, <2>5, <2>6 DEF Competing, IsA, Regions
<1> QED
  BY <1>2, <1>3

(* What is sought for a simple name is one entry of the declarations that   *)
(* compete for it, or at most one declaration that a use clause offers.     *)
LEMMA SoughtCompetes ==
  ASSUME Typed, NEW s \in SimpleNames
  PROVE  /\ Competing(s) # <<>> => Fits(Sought(s), Competing(s))
         /\ Competing(s) = <<>> => Len(Sought(s)) <= 1
         /\ Sought(s) \in Seq(Ref)
         /\ s \in Slots /\ ~Rebound(s)
<1> DEFINE r == LookedUpIn(s)
           name == NameOf(s)
           groups == Around(r)
           having == {k \in DOMAIN groups : Under(groups[k], name[1]) # <<>>}
<1>1. r \in Nodes /\ IsA(r, Regions) /\ design \in Designs
  BY LookedUpWhere DEF Typed
<1>2. Sought(s) = Lookup(ChainOf(r), name) /\ Len(name) = 1
  BY SimpleNameIs DEF Sought
<1>3. Competing(s) = IF having = {} THEN <<>> ELSE Under(groups[Min(having)], name[1])
  BY LookedUpWhere DEF CompetingIn
<1>4. s \in Slots /\ ~Rebound(s)
  BY SimpleNameIs DEF Rebound
<1>5. Sought(s) \in Seq(Ref)
  <2>1. ChainOf(r) \in Seq(ScopeType)
    BY <1>1, ChainOfIs
  <2>2. IsChain(ChainOf(r))
    <3> DEFINE chain == ChainOf(r)
    <3>1. chain \in Seq(ScopeType)
      BY <2>1
    <3> HIDE DEF chain
    <3>2. /\ Len(chain) \in Nat /\ DOMAIN chain = 1..Len(chain)
          /\ \A k \in DOMAIN chain : chain[k] \in ScopeType
      BY <3>1
    <3>3. \A x \in ScopeType : x.symbols \in Symbols
      BY DEF ScopeType
    <3>4. IsChain(chain)
      BY <3>2, <3>3 DEF IsChain
    <3> QED
      BY <3>4 DEF chain
  <2> QED
    BY <1>1, <1>2, <2>2, LookupType
<1> HIDE DEF r, name
<1>6. /\ having # {} => /\ Fits(Lookup(ChainOf(r), name), Under(groups[Min(having)], name[1]))
                        /\ Under(groups[Min(having)], name[1]) # <<>>
      /\ having = {} => Len(Lookup(ChainOf(r), name)) <= 1
  BY <1>1, <1>2, LookupShown
<1> HIDE DEF groups, having
<1> QED
  BY <1>2, <1>3, <1>4, <1>5, <1>6

LEMMA MeantCompetes ==
  ASSUME Typed, NEW s \in SimpleNames, Competing(s) # <<>>, Meant(Sought(s)) # None
  PROVE  ToSet(Meant(Sought(s)).of) \subseteq {Meaning(d) : d \in ToSet(Competing(s))}
<1>1. Fits(Sought(s), Competing(s))
  BY SoughtCompetes
<1>2. Len(Sought(s)) = 1 /\ Meant(Sought(s)) = Sought(s)[1]
  BY DEF Meant
<1>3. 1 \in 1..Len(Sought(s))
  BY <1>2
<1> QED
  BY <1>1, <1>2, <1>3 DEF Fits, Meanings

(* A reference to a name means declarations of that name in the innermost   *)
(* region around it that has one: never one that an inner region hides, of  *)
(* a region that is over, or of another name.                               *)
THEOREM InnermostIsFound == Spec => []InnermostDeclarationIsMeant
<1>1. ASSUME KeptInv
      PROVE  InnermostDeclarationIsMeant
  <2>1. Typed /\ Kept
    BY <1>1 DEF KeptInv, NestInv, WalkInv
  <2>2. ASSUME NEW s \in SimpleNames, refs[s] # None, Competing(s) # <<>>
        PROVE  ToSet(refs[s].of) \subseteq {Meaning(d) : d \in ToSet(Competing(s))}
    <3>1. s \in Slots /\ ~Rebound(s)
      BY <2>1, SoughtCompetes
    <3>2. refs[s] = Meant(Sought(s))
      BY <2>1, <2>2, <3>1 DEF Kept, Holds
    <3> QED
      BY <2>1, <2>2, <3>2, MeantCompetes
  <2> QED
    BY <2>2 DEF InnermostDeclarationIsMeant
<1> QED
  BY <1>1, KeptInvariant, PTL DEF Spec

--------------------------------------------------------------------------------
(* Every name is tried: what is not yet decided in a run stands in a node   *)
(* the walk is still to come to.  A set of nodes closed under Children that *)
(* holds the units and items still to be visited holds all of those.        *)
Decided(s, rs, reported) ==
  rs[s] = Meant(Sought(s)) /\ (Len(Sought(s)) > 1 => s \in reported)
Closed(S) == \A n \in S : Children(n) \subseteq S
Pending(u, fs) ==
  {Order[k] : k \in {j \in 1..Len(Order) : u # 0 /\ (IF fs = <<>> THEN u <= j ELSE u < j)}}
    \cup UNION {ToSet(fs[k].todo) : k \in 1..Len(fs)}
Covers(u, fs, rs, reported) ==
  \A S \in SUBSET Nodes : Closed(S) /\ Pending(u, fs) \subseteq S =>
    \A s \in SimpleNames : Visitor(s[1]) \in S \/ Decided(s, rs, reported)
Covered == runs > 0 => Covers(unit, frames, refs, ambiguous)

LEMMA FixedCover ==
  ASSUME Typed, Typed', design' = design
  PROVE  /\ SimpleNames' = SimpleNames
         /\ Covered' <=> (runs' > 0 => Covers(unit', frames', refs', ambiguous'))
<1>1. /\ \A s : Sought(s)' = Sought(s) /\ NameOf(s)' = NameOf(s)
      /\ \A n : Visitor(n)' = Visitor(n) /\ Children(n)' = Children(n)
  BY FixedMeaning
<1>2. DOMAIN refs = Slots /\ (DOMAIN refs)' = Slots' /\ Slots' = Slots
      /\ Nodes' = Nodes /\ Order' = Order
  BY Fixed DEF Typed
<1>3. \A n, kinds : IsA(n, kinds)' = IsA(n, kinds)
  BY DEF IsA, N
<1>4. SimpleNames' = SimpleNames
  <2>1. \A n : DeclaredBy(n)' = DeclaredBy(n)
    BY DEF DeclaredBy, N
  <2>2. \A group, id : Under(group, id)' = Under(group, id)
    BY <1>2, <1>3 DEF Under, N
  <2>3. \A s : IsName(s)' <=> IsName(s)
    BY <1>1 DEF IsName
  <2>4. \A s : Captured(s)' <=> Captured(s)
    BY <1>1, <1>3, <2>1, <2>2 DEF Captured
  <2> QED
    BY <1>2, <1>3, <2>3, <2>4 DEF SimpleNames, IsSimpleName
<1>5. Covered' <=> (runs' > 0 => Covers(unit', frames', refs', ambiguous'))
  <2>1. \A S : Closed(S)' <=> Closed(S)
    BY <1>1 DEF Closed
  <2>2. Pending(unit, frames)' = Pending(unit', frames')
    BY <1>2 DEF Pending, ToSet
  <2>3. \A s : Decided(s, refs, ambiguous)' <=> Decided(s, refs', ambiguous')
    BY <1>1 DEF Decided, Meant
  <2> QED
    BY <1>1, <1>2, <1>4, <2>1, <2>2, <2>3 DEF Covered, Covers
<1> QED
  BY <1>4, <1>5

(* What is below the units is all the walk visits. *)
LEMMA UnitsCover ==
  ASSUME design \in Designs, NEW S \in SUBSET Nodes, Closed(S), ToSet(Units) \subseteq S
  PROVE  \A n \in Nodes : Visited(n) => n \in S
<1> DEFINE T == {n \in Nodes : Visited(n) => n \in S}
<1>1. ASSUME NEW n \in Nodes, \A r \in Nodes : n \in Children(r) => r \in T
      PROVE  n \in T
  <2>1. ASSUME NEW r \in Nodes, n \in Children(r) PROVE n \in S
    <3>1. r \in T
      BY <1>1, <2>1
    <3>2. IsA(r, Regions)
      BY <2>1, HoldersAreRegions
    <3>3. r \notin Owned
      <4> SUFFICES ASSUME r \in Owned PROVE FALSE
        OBVIOUS
      <4>1. IsA(r, {"signal"})
        BY PlacesAre DEF Owned
      <4> QED
        BY <3>2, <4>1 DEF IsA, Regions
    <3>4. BodiesOf(r) = {}
      <4> SUFFICES ASSUME BodiesOf(r) # {} PROVE FALSE
        OBVIOUS
      <4>1. Bodies(design, r) # {}
        BY NodeFacts DEF BodiesOf, Bodies, IsA, N, Nodes
      <4>2. N(r).kind = "subprogram_declaration"
        BY <4>1, KindsAssumption DEF N, Nodes
      <4> QED
        BY <3>2, <4>2 DEF IsA, Regions
    <3>5. r \in S
      BY <3>1, <3>3, <3>4, Standalone
    <3> QED
      BY <2>1, <3>5 DEF Closed
  <2> QED
    BY <2>1 DEF Visited
<1>2. Nodes \subseteq T
  <2> HIDE DEF T
  <2> QED
    BY <1>1, Downwards
<1> QED
  BY <1>2

LEMMA StartCovers ==
  ASSUME WalkInv, ResolveReferences
  PROVE  Covered'
<1>1. Typed /\ Typed' /\ design' = design /\ frames' = <<>> /\ unit' = 1
  BY StartKeeps DEF WalkInv, ResolveReferences
<1>2. Units \in Seq(Nodes) /\ ToSet(Order) = ToSet(Units) /\ Order \in Seq(Nodes)
  BY <1>1, OrderHas, NodesAssumption DEF Typed, Units, Nodes
<1>3. ToSet(Units) \subseteq Pending(1, <<>>)
  <2>1. \A k \in 1..Len(Order) : 1 # 0 /\ 1 <= k
    BY <1>2
  <2>2. DOMAIN Order = 1..Len(Order)
    BY <1>2
  <2>3. ToSet(Order) \subseteq Pending(1, <<>>)
    BY <2>1, <2>2 DEF Pending, ToSet
  <2> QED
    BY <1>2, <2>3
<1>4. ASSUME NEW S \in SUBSET Nodes, Closed(S), Pending(1, <<>>) \subseteq S,
             NEW s \in SimpleNames
      PROVE  Visitor(s[1]) \in S
  <2>1. s[1] \in Nodes
    BY <1>1, SimpleNameIs
  <2> QED
    BY <1>1, <1>3, <1>4, <2>1, VisitorStands, UnitsCover DEF Typed
<1>5. Covers(1, <<>>, refs', ambiguous')
  BY <1>4 DEF Covers
<1> QED
  BY <1>1, <1>5, FixedCover

(* The pending nodes before a handler are those after it, and the node at   *)
(* hand.                                                                    *)
LEMMA PassedPends ==
  ASSUME WalkInv, Walking, frames # <<>>
  PROVE  /\ Passed \in Seq(FrameType) /\ Passed # <<>>
         /\ Pending(unit, frames) \subseteq Pending(unit, Passed) \cup {Node}
<1> DEFINE m == Len(frames)
           passed == Passed
           todo == frames[m].todo
           last == [frames[m] EXCEPT !.todo = Tail(todo)]
<1>1. frames \in Seq(FrameType) /\ passed \in Seq(FrameType) /\ Len(passed) = m
  BY NodeIs DEF WalkInv, Typed
<1>2. m \in Nat /\ m \in 1..m /\ frames[m] \in FrameType
  BY <1>1
<1>3. todo \in Seq(Nodes) /\ todo # <<>> /\ Node = Head(todo)
  BY <1>2 DEF Walking, Here, FrameType, Node
<1>4. passed = [frames EXCEPT ![m] = last]
  BY DEF Passed
<1> HIDE DEF todo
<1>5. last.todo = Tail(todo)
  BY <1>2 DEF FrameType
<1> HIDE DEF last
<1>6. ToSet(todo) \subseteq ToSet(Tail(todo)) \cup {Head(todo)}
  <2> DEFINE tail == Tail(todo)
  <2>1. Len(todo) \in Nat \ {0} /\ DOMAIN todo = 1..Len(todo) /\ Head(todo) = todo[1]
        /\ DOMAIN tail = 1..(Len(todo) - 1)
        /\ \A i \in 1..(Len(todo) - 1) : tail[i] = todo[i + 1]
    BY <1>3
  <2> HIDE DEF tail
  <2>2. \A i \in 1..Len(todo) : i = 1 \/ (i - 1 \in 1..(Len(todo) - 1) /\ (i - 1) + 1 = i)
    BY <2>1
  <2>3. ASSUME NEW i \in 1..Len(todo) PROVE todo[i] = Head(todo) \/ todo[i] \in ToSet(tail)
    <3>1. CASE i = 1
      BY <2>1, <3>1
    <3>2. CASE i - 1 \in 1..(Len(todo) - 1) /\ (i - 1) + 1 = i
      <4>1. todo[i] = tail[i - 1]
        BY <2>1, <3>2
      <4> QED
        BY <2>1, <3>2, <4>1 DEF ToSet
    <3> QED
      BY <2>2, <3>1, <3>2
  <2> QED
    BY <2>1, <2>3 DEF ToSet, tail
<1>7. passed[m] = last /\ \A k \in 1..m : k # m => passed[k] = frames[k]
  <2>1. frames \in Seq(FrameType)
    BY <1>1
  <2>2. m \in 1..m
    BY <1>2
  <2> HIDE DEF m, passed
  <2> QED
    BY <1>4, <2>1, <2>2 DEF m
<1>8. passed # <<>>
  BY <1>1, <1>2
<1> HIDE DEF passed, m
<1>9. \A k \in 1..m : ToSet(frames[k].todo) \subseteq ToSet(passed[k].todo) \cup {Node}
  BY <1>3, <1>5, <1>6, <1>7 DEF todo
<1>10. UNION {ToSet(frames[k].todo) : k \in 1..m}
         \subseteq (UNION {ToSet(passed[k].todo) : k \in 1..m}) \cup {Node}
  BY <1>9
<1>11. Len(frames) = m
  BY DEF m
<1>12. Pending(unit, frames) \subseteq Pending(unit, passed) \cup {Node}
  BY <1>1, <1>8, <1>10, <1>11 DEF Pending
<1> QED
  BY <1>1, <1>8, <1>12 DEF passed

LEMMA EnteredPends ==
  ASSUME WalkInv, Entered
  PROVE  /\ Pending(unit, frames) \subseteq Pending(unit', frames') \cup {Node}
         /\ Children(Node) \subseteq Pending(unit', frames')
<1> DEFINE passed == Passed
           f == [node |-> Node, todo |-> Todo(Node), base |-> Len(scopes)]
           m == Len(frames)
           more == Append(passed, f)
<1>1. Walking /\ IsA(Node, Regions) /\ frames' = more /\ unit' = unit
  BY DEF Entered
<1>2. /\ design \in Designs /\ frames \in Seq(FrameType) /\ scopes \in Seq(ScopeType)
      /\ Order \in Seq(Nodes)
  BY OrderIs DEF WalkInv, Typed
<1>3. Node \in Nodes /\ unit \in 1..Len(Order) /\ passed \in Seq(FrameType) /\ Len(passed) = m
  BY <1>1, NodeIs
<1>4. Todo(Node) \in Seq(Nodes)
  BY <1>1, <1>2, <1>3, OwnType
<1>5. f \in FrameType /\ f.todo = Todo(Node)
  BY <1>2, <1>3, <1>4 DEF FrameType
<1> HIDE DEF f, passed
<1>6. /\ more # <<>> /\ Len(more) = m + 1 /\ more[m + 1] = f /\ m \in Nat
      /\ \A k \in 1..m : more[k] = passed[k]
  BY <1>2, <1>3, <1>5, Appended
<1> HIDE DEF more
<1>7. \A k \in 1..m : k \in 1..(m + 1)
  BY <1>6
<1>8. m + 1 \in 1..(m + 1)
  BY <1>6
<1>9. ToSet(Todo(Node)) \subseteq Pending(unit, more)
  BY <1>5, <1>6, <1>8 DEF Pending
<1>10. Children(Node) \subseteq ToSet(Todo(Node))
  <2>1. CASE IsA(Node, {"package_instantiation"})
    <3>1. Children(Node) = {}
      <4>1. N(Node).declarations = <<>> /\ N(Node).statements = <<>>
        BY <1>2, <1>3, <2>1, KindsAssumption DEF IsA, N, Nodes
      <4>2. <<>> \o <<>> = <<>> /\ ToSet(<<>>) = {}
        BY DEF ToSet
      <4> QED
        BY <4>1, <4>2 DEF Children, Items
    <3> QED
      BY <3>1
  <2>2. CASE ~IsA(Node, {"package_instantiation"})
    BY <2>2 DEF Todo, Children
  <2> QED
    BY <2>1, <2>2
<1>11. UNION {ToSet(passed[k].todo) : k \in 1..m} \subseteq Pending(unit, more)
  BY <1>6, <1>7 DEF Pending
<1>12. CASE frames = <<>>
  <2>1. Node = Order[unit] /\ ~(1 <= 0)
    BY <1>12 DEF Node
  <2>2. m = 0
    BY <1>12
  <2>3. \A k \in 1..m : FALSE
    BY <2>2
  <2>4. \A j \in 1..Len(Order) : unit <= j => j = unit \/ (unit # 0 /\ unit < j)
    BY <1>2, <1>3
  <2>5. ASSUME NEW x \in Pending(unit, frames) PROVE x \in Pending(unit, more) \cup {Node}
    <3>1. PICK j \in 1..Len(Order) : x = Order[j] /\ unit <= j
      BY <1>12, <2>3 DEF Pending, m
    <3>2. CASE j = unit
      BY <2>1, <3>1, <3>2
    <3>3. CASE unit # 0 /\ unit < j
      BY <1>6, <3>1, <3>3 DEF Pending
    <3> QED
      BY <2>4, <3>1, <3>2, <3>3
  <2> QED
    BY <1>1, <1>9, <1>10, <2>5
<1>13. CASE frames # <<>>
  <2>1. passed # <<>> /\ Pending(unit, frames) \subseteq Pending(unit, passed) \cup {Node}
    BY <1>1, <1>13, PassedPends DEF passed
  <2>2. Pending(unit, passed) \subseteq Pending(unit, more)
    BY <1>3, <1>6, <1>11, <2>1 DEF Pending
  <2> QED
    BY <1>1, <1>9, <1>10, <2>1, <2>2
<1> QED
  BY <1>12, <1>13

LEMMA PassedByPends ==
  ASSUME WalkInv, PassedBy
  PROVE  /\ Pending(unit, frames) \subseteq Pending(unit', frames') \cup {Node}
         /\ Children(Node) = {}
<1>1. Walking /\ ~IsA(Node, Regions) /\ frames' = Passed /\ unit' = unit
  BY DEF PassedBy
<1>2. design \in Designs /\ Node \in Nodes /\ (frames = <<>> => IsA(Node, UnitKinds))
  BY <1>1, NodeIs DEF WalkInv, Typed
<1>3. frames # <<>>
  BY <1>1, <1>2 DEF IsA, Regions, UnitKinds
<1>4. Children(Node) = {}
  BY <1>1, <1>2, HoldersAreRegions
<1> QED
  BY <1>1, <1>3, <1>4, PassedPends

LEMMA RecordDecides ==
  ASSUME Typed, Resolves, NEW s \in SimpleNames
  PROVE  /\ Visitor(s[1]) = Node => Decided(s, refs', ambiguous')
         /\ Decided(s, refs, ambiguous) => Decided(s, refs', ambiguous')
<1>1. PICK found : Record(found) /\ Seeks(found) /\ Reaches(found)
  BY DEF Resolves
<1>2. s \in Slots /\ ~Rebound(s) /\ DOMAIN refs = Slots
  BY SoughtCompetes DEF Typed
<1>3. /\ refs'[s] = IF s \in DOMAIN found THEN Meant(found[s]) ELSE refs[s]
      /\ s \in ambiguous => s \in ambiguous'
      /\ s \in DOMAIN found /\ Len(found[s]) > 1 => s \in ambiguous'
  BY <1>1, <1>2 DEF Record
<1>4. s \in DOMAIN found => found[s] = Sought(s)
  BY <1>1, <1>2 DEF Seeks
<1>5. Visitor(s[1]) = Node => s \in DOMAIN found
  BY <1>1 DEF Reaches
<1> QED
  BY <1>3, <1>4, <1>5 DEF Decided

LEMMA ResolvedCovers ==
  ASSUME WalkInv, Covered, Resolves, Entered \/ PassedBy
  PROVE  Covered'
<1>1. Typed /\ Typed'
  BY EnterKeeps, PassKeeps DEF WalkInv
<1>2. design' = design /\ runs' = runs
  BY DEF Resolves, Record
<1>3. /\ Pending(unit, frames) \subseteq Pending(unit', frames') \cup {Node}
      /\ Children(Node) \subseteq Pending(unit', frames')
  BY EnteredPends, PassedByPends
<1>4. Node \in Nodes
  BY NodeIs DEF Entered, PassedBy
<1>5. ASSUME runs > 0, NEW S \in SUBSET Nodes, Closed(S), Pending(unit', frames') \subseteq S,
             NEW s \in SimpleNames
      PROVE  Visitor(s[1]) \in S \/ Decided(s, refs', ambiguous')
  <2> DEFINE R == S \cup {Node}
  <2>1. R \in SUBSET Nodes /\ Pending(unit, frames) \subseteq R /\ Closed(R)
    BY <1>3, <1>4, <1>5 DEF Closed
  <2>2. Visitor(s[1]) \in R \/ Decided(s, refs, ambiguous)
    <3> HIDE DEF R
    <3> QED
      BY <1>5, <2>1 DEF Covered, Covers
  <2>3. /\ Visitor(s[1]) = Node => Decided(s, refs', ambiguous')
        /\ Decided(s, refs, ambiguous) => Decided(s, refs', ambiguous')
    BY <1>1, RecordDecides
  <2> QED
    BY <2>2, <2>3
<1>6. runs' > 0 => Covers(unit', frames', refs', ambiguous')
  BY <1>2, <1>5 DEF Covers
<1> QED
  BY <1>1, <1>2, <1>6, FixedCover

LEMMA LeaveCovers ==
  ASSUME WalkInv, Covered, Leave
  PROVE  Covered'
<1> DEFINE m == Len(frames)
           passed == Front(frames)
<1>1. /\ WalkInv' /\ design' = design /\ Len(frames') = m - 1
      /\ \A k \in 1..(m - 1) : frames'[k] = frames[k]
  BY LeaveKeeps
<1>2. Typed /\ Typed' /\ frames \in Seq(FrameType) /\ frames' \in Seq(FrameType)
      /\ Order \in Seq(Nodes) /\ unit \in 0..(Len(Order) + 1)
  <2>1. Typed /\ Typed'
    BY <1>1 DEF WalkInv
  <2>2. FrameType' = FrameType
    BY <1>1, Fixed
  <2>3. frames' \in Seq(FrameType)
    BY <2>1, <2>2 DEF Typed
  <2>4. /\ design \in Designs /\ frames \in Seq(FrameType)
        /\ unit \in 0..(Len(Order) + 1)
    BY <2>1 DEF Typed
  <2> QED
    BY <2>1, <2>3, <2>4, OrderIs
<1>3. /\ frames # <<>> /\ frames[m].todo = <<>>
      /\ unit' = IF m = 1 THEN unit + 1 ELSE unit
      /\ refs' = refs /\ ambiguous' = ambiguous /\ runs' = runs
  BY DEF Leave, Here
<1>4. unit \in 1..Len(Order)
  BY <1>3 DEF WalkInv, Stacked
<1>5. m \in Nat \ {0} /\ (frames' = <<>> <=> m = 1)
  BY <1>1, <1>2, <1>3
<1> HIDE DEF m
<1>6. \A k \in 1..m : k = m \/ k \in 1..(m - 1)
  BY <1>5
<1>7. \A k \in 1..(m - 1) : k \in 1..m
  BY <1>5
<1>8. ToSet(frames[m].todo) = {}
  BY <1>3 DEF ToSet
<1>9. UNION {ToSet(frames[k].todo) : k \in 1..m} = UNION {ToSet(frames'[k].todo) : k \in 1..(m - 1)}
  BY <1>1, <1>6, <1>7, <1>8
<1>10. \A j \in 1..Len(Order) : unit # 0 /\ unit < j => unit' # 0 /\ (IF m = 1 THEN unit' <= j ELSE unit' < j)
  BY <1>2, <1>3, <1>4
<1>11. Len(frames) = m
  BY DEF m
<1>12. Pending(unit, frames) \subseteq Pending(unit', frames')
  <2>1. ASSUME NEW j \in 1..Len(Order), unit # 0, unit < j
        PROVE  Order[j] \in Pending(unit', frames')
    <3>1. unit' # 0 /\ (IF frames' = <<>> THEN unit' <= j ELSE unit' < j)
      BY <1>5, <1>10, <2>1
    <3> QED
      BY <3>1 DEF Pending
  <2>2. UNION {ToSet(frames[k].todo) : k \in 1..m} \subseteq Pending(unit', frames')
    BY <1>1, <1>9 DEF Pending
  <2> QED
    BY <1>3, <1>11, <2>1, <2>2 DEF Pending
<1>13. runs' > 0 => Covers(unit', frames', refs', ambiguous')
  BY <1>3, <1>12 DEF Covered, Covers
<1> QED
  BY <1>1, <1>2, <1>13, FixedCover

LEMMA LinkCovers ==
  ASSUME WalkInv, Covered, Link
  PROVE  Covered'
<1>1. WalkInv' /\ frames = <<>> /\ frames' = <<>>
  BY LinkKeeps
<1>2. Typed /\ Typed'
  BY <1>1 DEF WalkInv
<1>3. unit = Len(Order) + 1 /\ runs' = runs
  BY DEF Link
<1>4. /\ ambiguous' = ambiguous /\ design' = design
      /\ \A s \in Slots : Rebound(s) \/ refs'[s] = refs[s]
  BY <1>2, LinkHolds
<1>5. Len(Order) \in Nat
  <2>1. Order \in Seq(Nodes)
    BY <1>2, OrderIs DEF Typed
  <2> QED
    BY <2>1
<1>6. Pending(unit, frames) = {}
  <2>1. \A k \in 1..Len(<<>>) : FALSE
    OBVIOUS
  <2>2. \A j \in 1..Len(Order) : ~(unit <= j)
    BY <1>3, <1>5
  <2> QED
    BY <1>1, <2>1, <2>2 DEF Pending
<1>7. \A s \in SimpleNames : Decided(s, refs, ambiguous) => Decided(s, refs', ambiguous')
  <2> TAKE s \in SimpleNames
  <2>1. s \in Slots /\ ~Rebound(s)
    BY <1>2, SoughtCompetes
  <2> QED
    BY <1>4, <2>1 DEF Decided
<1>8. runs' > 0 => Covers(unit', frames', refs', ambiguous')
  BY <1>3, <1>6, <1>7 DEF Covered, Covers
<1> QED
  BY <1>2, <1>4, <1>8, FixedCover

LEMMA CoverStep ==
  ASSUME KeptInv, Covered, [Next]_vars
  PROVE  Covered'
<1>1. NestInv /\ WalkInv /\ Typed
  BY DEF KeptInv, NestInv, WalkInv
<1>2. CASE Resolve
  BY <1>1, <1>2, HandlersResolve, ResolvedCovers, LeaveCovers, LinkCovers
<1>3. CASE ResolveReferences
  BY <1>1, <1>3, StartCovers
<1>4. CASE Done \/ UNCHANGED vars
  <2>1. /\ design' = design /\ runs' = runs /\ unit' = unit /\ frames' = frames
        /\ refs' = refs /\ ambiguous' = ambiguous
    BY <1>4 DEF Done, vars
  <2>2. Typed'
    <3>1. UNCHANGED vars
      BY <1>4 DEF Done
    <3> QED
      BY <1>1, <3>1, SameKeeps DEF WalkInv
  <2> QED
    BY <1>1, <2>1, <2>2, FixedCover DEF Covered
<1> QED
  BY <1>2, <1>3, <1>4 DEF Next

CoverInv == KeptInv /\ Covered

LEMMA CoverInvariant == Spec => []CoverInv
<1>1. Init => KeptInv /\ Covered
  <2>1. ASSUME Init PROVE Covered
    <3>1. runs = 0
      BY <2>1 DEF Init
    <3> QED
      BY <3>1 DEF Covered
  <2>2. ASSUME Init PROVE KeptInv
    <3>1. NestInv
      BY <2>2, NestInit
    <3>2. \A s \in Slots : refs[s] = None /\ s \notin ambiguous
      BY <2>2 DEF Init, Slots
    <3> QED
      BY <3>1, <3>2 DEF KeptInv, Kept, Holds
  <2> QED
    BY <2>1, <2>2
<1>2. KeptInv /\ Covered /\ [Next]_vars => Covered'
  BY CoverStep
<1> QED
  BY <1>1, <1>2, KeptInvariant, PTL DEF Spec, CoverInv

(* When the walk is over, before the linker is called and after, every name *)
(* has been tried.                                                          *)
Ended == unit \in {0, Len(Order) + 1} /\ runs > 0

LEMMA AllDecided ==
  ASSUME CoverInv, Ended, NEW s \in SimpleNames
  PROVE  Decided(s, refs, ambiguous)
<1>1. WalkInv /\ Typed
  BY DEF CoverInv, KeptInv, NestInv, WalkInv
<1>2. Len(Order) \in Nat
  BY <1>1, OrderIs DEF Typed
<1>3. frames = <<>>
  BY <1>1, <1>2 DEF Ended, WalkInv, Stacked
<1>4. Pending(unit, frames) = {}
  <2>1. \A k \in 1..Len(<<>>) : FALSE
    OBVIOUS
  <2>2. \A j \in 1..Len(Order) : ~(unit # 0 /\ unit <= j)
    BY <1>2 DEF Ended
  <2> QED
    BY <1>3, <2>1, <2>2 DEF Pending
<1>5. {} \in SUBSET Nodes /\ Closed({})
  BY DEF Closed
<1> QED
  BY <1>4, <1>5 DEF Ended, CoverInv, Covered, Covers

LEMMA CompetingAreNodes ==
  ASSUME Typed, NEW s \in SimpleNames
  PROVE  Competing(s) \in Seq(Nodes) /\ Len(Competing(s)) \in Nat
<1> DEFINE groups == Around(RegionOf(s))
           having == {k \in DOMAIN groups : Under(groups[k], NameOf(s)[1]) # <<>>}
<1>1. RegionOf(s) \in Nodes /\ design \in Designs
  BY NamesStandInRegions DEF Typed
<1>2. groups \in Seq(Seq(Nodes))
  BY <1>1, AroundIs
<1>3. Competing(s) = IF having = {} THEN <<>> ELSE Under(groups[Min(having)], NameOf(s)[1])
  BY DEF Competing, CompetingIn
<1> HIDE DEF groups
<1>4. CASE having = {}
  BY <1>3, <1>4
<1>5. CASE having # {}
  <2>1. having \in SUBSET Nat
    BY <1>2
  <2>2. Min(having) \in DOMAIN groups
    <3>1. Min(having) \in having
      <4> HIDE DEF having
      <4> QED
        BY <1>5, <2>1, MinIsLeast
    <3> QED
      BY <3>1
  <2>3. groups[Min(having)] \in Seq(Nodes)
    BY <1>2, <2>2
  <2>4. Under(groups[Min(having)], NameOf(s)[1]) \in Seq(Nodes)
    BY <2>3, AmongKeeps DEF Under
  <2> HIDE DEF having
  <2> QED
    BY <1>3, <1>5, <2>4
<1> QED
  BY <1>4, <1>5

(* Several candidates are several declarations, not overloads of each other. *)
LEMMA SeveralCompete ==
  ASSUME Typed, NEW s \in SimpleNames, Len(Sought(s)) > 1
  PROVE  /\ Len(Competing(s)) > 1 /\ ~Overloaded(Competing(s))
         /\ Meant(Sought(s)) = None
<1> DEFINE decls == Competing(s)
           found == Sought(s)
<1>1. /\ decls # <<>> => Fits(found, decls)
      /\ decls = <<>> => Len(found) <= 1
      /\ found \in Seq(Ref) /\ Len(found) > 1
  BY SoughtCompetes
<1>2. Len(decls) \in Nat
  BY CompetingAreNodes
<1> HIDE DEF found, decls
<1>3. Len(found) \in Nat
  BY <1>1
<1>4. ~(Len(found) <= 1) /\ Len(found) # 1
  <2>1. \A a \in Nat : a > 1 => ~(a <= 1) /\ a # 1
    OBVIOUS
  <2> QED
    BY <1>1, <1>3, <2>1
<1>5. Fits(found, decls)
  BY <1>1, <1>4
<1>6. Len(found) <= Len(decls) /\ ~Overloaded(decls)
  BY <1>1, <1>4, <1>5 DEF Fits, Single
<1>7. Len(decls) > 1
  BY <1>1, <1>2, <1>3, <1>6
<1> QED
  BY <1>4, <1>6, <1>7 DEF found, decls, Meant

LEMMA DecidedNames ==
  ASSUME CoverInv, Ended, NEW s \in SimpleNames
  PROVE  LET decls == Competing(s) IN
         /\ Len(decls) = 1 \/ (decls # <<>> /\ Overloaded(decls)) => refs[s] # None
         /\ s \in ambiguous => Len(decls) > 1 /\ ~Overloaded(decls)
         /\ decls # <<>> /\ refs[s] = None => s \in ambiguous
<1> DEFINE decls == Competing(s)
           found == Sought(s)
<1>1. Typed /\ Kept
  BY DEF CoverInv, KeptInv, NestInv, WalkInv
<1>2. /\ decls # <<>> => Fits(found, decls)
      /\ decls = <<>> => Len(found) <= 1
      /\ found \in Seq(Ref) /\ s \in Slots /\ ~Rebound(s)
  BY <1>1, SoughtCompetes
<1>3. refs[s] = Meant(found) /\ (Len(found) > 1 => s \in ambiguous)
  BY AllDecided DEF Decided
<1>4. s \in ambiguous => Len(found) > 1
  BY <1>1, <1>2 DEF Kept, Holds
<1>5. None \notin Ref
  BY <1>1, NullAssumption DEF Typed, Ref, Nodes
<1> HIDE DEF found, decls
<1>6. Len(found) = 1 => refs[s] # None
  <2> HAVE Len(found) = 1
  <2>1. found[1] \in Ref
    BY <1>2, FirstIs
  <2> QED
    BY <1>3, <1>5, <2>1 DEF Meant
<1>7. Len(found) \in Nat /\ (Len(found) = 0 => found = <<>>) /\ (found = <<>> => Len(found) = 0)
  BY <1>2
<1>8. Len(<<>>) = 0
  OBVIOUS
<1>9. decls # <<>> => /\ found # <<>> /\ Len(found) <= Len(decls)
                      /\ Overloaded(decls) => Len(found) = 1
  BY <1>2 DEF Fits, Single
<1>10. Len(decls) = 1 \/ (decls # <<>> /\ Overloaded(decls)) => Len(found) = 1
  BY <1>7, <1>8, <1>9
<1>11. Len(decls) \in Nat
  BY <1>1, CompetingAreNodes DEF decls
<1>12. Len(decls) = 1 \/ (decls # <<>> /\ Overloaded(decls)) => refs[s] # None
  BY <1>6, <1>10
<1>13. ASSUME s \in ambiguous PROVE Len(decls) > 1 /\ ~Overloaded(decls)
  BY <1>1, <1>4, <1>13, SeveralCompete DEF found, decls
<1>14. ASSUME decls # <<>>, refs[s] = None PROVE s \in ambiguous
  <2>1. Len(found) # 0 /\ Len(found) # 1
    BY <1>6, <1>7, <1>9, <1>14
  <2>2. \A a \in Nat : a # 0 /\ a # 1 => a > 1
    OBVIOUS
  <2>3. Len(found) > 1
    BY <1>7, <2>1, <2>2
  <2> QED
    BY <1>3, <2>3
<1> QED
  BY <1>12, <1>13, <1>14 DEF decls

(* A name that one declaration competes for, or only declarations of        *)
(* subprograms, is resolved; and one is called ambiguous only where there   *)
(* are two declarations that are not overloads of each other.               *)
THEOREM NamesAreDecided == Spec => []CompetitionIsDecided
<1>1. ASSUME CoverInv PROVE CompetitionIsDecided
  BY <1>1, DecidedNames DEF CompetitionIsDecided, Resolved, Ended
<1> QED
  BY <1>1, CoverInvariant, PTL

--------------------------------------------------------------------------------
(* The refinement.  What the text says is the same for NameResolution.      *)
LEMMA SameNodes ==
  /\ Resolution!Nodes = Nodes /\ Resolution!Units = Units
  /\ \A n : Resolution!N(n) = N(n)
  /\ \A n, kinds : Resolution!IsA(n, kinds) <=> IsA(n, kinds)
  /\ \A s : Resolution!NameOf(s) = NameOf(s)
  /\ \A seq : Resolution!ToSet(seq) = ToSet(seq)
<1>1. Resolution!Nodes = Nodes /\ Resolution!Units = Units
  BY DEF Resolution!Nodes, Nodes, Resolution!Units, Units
<1>2. \A n : Resolution!N(n) = N(n)
  BY DEF Resolution!N, N
<1>3. \A n, kinds : Resolution!IsA(n, kinds) <=> IsA(n, kinds)
  BY <1>2 DEF Resolution!IsA, IsA
<1>4. \A s : Resolution!NameOf(s) = NameOf(s)
  BY <1>2 DEF Resolution!NameOf, NameOf
<1>5. \A seq : Resolution!ToSet(seq) = ToSet(seq)
  BY DEF Resolution!ToSet, ToSet
<1> QED
  BY <1>1, <1>2, <1>3, <1>4, <1>5

LEMMA SameSlots == Resolution!Slots = Slots
<1>1. \A n, part, seq : Resolution!Numbered(n, part, seq) = Numbered(n, part, seq)
  BY DEF Resolution!Numbered, Numbered
<1>2. \A n : Resolution!NameSlots(n) = NameSlots(n)
  BY <1>1, SameNodes DEF Resolution!NameSlots, NameSlots, Resolution!Parts, Parts
<1>4. \A n : Resolution!UnitSlots(n) = UnitSlots(n)
  BY SameNodes DEF Resolution!UnitSlots, UnitSlots, Resolution!Instantiations, Instantiations
<1>5. \A n : Resolution!ComponentSlots(n) = ComponentSlots(n)
  BY SameNodes DEF Resolution!ComponentSlots, ComponentSlots
<1>6. \A n : Resolution!SlotsOf(n) = SlotsOf(n)
  BY <1>2, <1>4, <1>5 DEF Resolution!SlotsOf, SlotsOf
<1> QED
  BY <1>6, SameNodes DEF Resolution!Slots, Slots

LEMMA SameRegions ==
  /\ \A r : Resolution!Groups(r) = Groups(r)
  /\ \A s : Resolution!RegionOf(s) = RegionOf(s)
  /\ \A n : Resolution!ParentOf(n) = ParentOf(n)
  /\ \A n : Resolution!DeclaredBy(n) = DeclaredBy(n)
<1>1. \A kind, lib, name : Resolution!FindUnit(kind, lib, name) = FindUnit(kind, lib, name)
  BY DEF Resolution!FindUnit, FindUnit, Resolution!IsA, IsA, Resolution!N, N,
         Resolution!Units, Units, Resolution!ToSet, ToSet
<1>2. \A n : Resolution!Primary(n) = Primary(n) /\ Resolution!DeclaredBy(n) = DeclaredBy(n)
  BY <1>1, SameNodes DEF Resolution!Primary, Primary, Resolution!DeclaredBy, DeclaredBy
<1>3. \A r : Resolution!Groups(r) = Groups(r)
  BY <1>2, SameNodes DEF Resolution!Groups, Groups
<1>4. \A n : Resolution!Children(n) = Children(n)
  BY SameNodes DEF Resolution!Children, Children, Resolution!Items, Items
<1>5. \A n : Resolution!ParentOf(n) = ParentOf(n)
  BY <1>4, SameNodes DEF Resolution!ParentOf, ParentOf
<1>6. Resolution!Owned = Owned /\ \A n : Resolution!Owner(n) = Owner(n)
  BY SameNodes DEF Resolution!Owned, Owned, Resolution!Owner, Owner
<1>7. \A s : Resolution!RegionOf(s) = RegionOf(s)
  BY <1>5, <1>6, SameNodes DEF Resolution!RegionOf, RegionOf, Resolution!Regions, Regions
<1> QED
  BY <1>2, <1>3, <1>5, <1>7

LEMMA SameDeclarations ==
  \A group, id : Resolution!Under(group, id) = Under(group, id)
<1>1. \A seq, S : Resolution!Among(seq, S) = Among(seq, S)
  BY DEF Resolution!Among, Among
<1> QED
  BY <1>1, SameNodes DEF Resolution!Under, Under, Resolution!Unnamed, Unnamed

LEMMA SameNames ==
  /\ \A s : Resolution!IsSimpleName(s) <=> IsSimpleName(s)
  /\ Resolution!SimpleNames = SimpleNames
<1>1. \A s : Resolution!IsName(s) <=> IsName(s)
  BY SameNodes DEF Resolution!IsName, IsName, Resolution!LooksLikeLiteral, LooksLikeLiteral
<1>2. \A s : Resolution!Captured(s) <=> Captured(s)
  BY SameNodes, SameRegions, SameDeclarations DEF Resolution!Captured, Captured
<1>3. \A s : Resolution!IsSimpleName(s) <=> IsSimpleName(s)
  BY <1>1, <1>2, SameNodes DEF Resolution!IsSimpleName, IsSimpleName
<1> QED
  BY <1>3, SameSlots DEF Resolution!SimpleNames, SimpleNames

LEMMA SameCompetitors ==
  /\ \A s : Resolution!Competing(s) = Competing(s)
  /\ \A s, ref : Resolution!MayMean(s, ref) <=>
       Competing(s) = <<>> \/ ToSet(ref.of) \subseteq {Meaning(d) : d \in ToSet(Competing(s))}
  /\ \A s : Resolution!MayBeAmbiguous(s) <=>
       IsSimpleName(s) /\ Len(Competing(s)) > 1 /\ ~Overloaded(Competing(s))
<1>1. \A n : Resolution!Around(n) = Around(n)
  BY SameNodes, SameRegions DEF Resolution!Around, Around
<1>4. \A S : Resolution!Min(S) = Min(S)
  BY DEF Resolution!Min, Min
<1>5. \A s : Resolution!Competing(s) = Competing(s)
  BY <1>1, <1>4, SameNodes, SameRegions, SameDeclarations
     DEF Resolution!Competing, Competing, Resolution!CompetingIn, CompetingIn
<1>6. \A d : Resolution!Meaning(d) = Meaning(d)
  BY SameNodes DEF Resolution!Meaning, Meaning
<1>7. \A decls : Resolution!Overloaded(decls) <=> Overloaded(decls)
  BY SameNodes DEF Resolution!Overloaded, Overloaded
<1>8. \A s, ref : Resolution!MayMean(s, ref) <=>
        Competing(s) = <<>> \/ ToSet(ref.of) \subseteq {Meaning(d) : d \in ToSet(Competing(s))}
  BY <1>5, <1>6, SameNodes DEF Resolution!MayMean
<1>9. \A s : Resolution!MayBeAmbiguous(s) <=>
        IsSimpleName(s) /\ Len(Competing(s)) > 1 /\ ~Overloaded(Competing(s))
  BY <1>5, <1>7, SameNames DEF Resolution!MayBeAmbiguous
<1> QED
  BY <1>5, <1>8, <1>9

(* Between the call and the return of resolve_references, runs is not 0.    *)
Started == unit # 0 => runs > 0

LEMMA MidWalk ==
  ASSUME WalkInv, Entered \/ PassedBy \/ Leave
  PROVE  unit # 0 /\ unit' # 0 /\ runs' = runs
<1>1. Order \in Seq(Nodes) /\ Len(Order) \in Nat
  BY OrderIs DEF WalkInv, Typed
<1>2. DOMAIN Order = 1..Len(Order)
  BY <1>1
<1>3. CASE Entered \/ PassedBy
  <2>1. unit \in DOMAIN Order /\ unit' = unit /\ runs' = runs
    BY <1>3 DEF Entered, PassedBy, Walking, Record
  <2> QED
    BY <1>1, <1>2, <2>1
<1>4. CASE Leave
  <2>1. unit \in 1..Len(Order) /\ unit' \in {unit, unit + 1} /\ runs' = runs
    BY <1>4 DEF WalkInv, Stacked, Leave
  <2> QED
    BY <1>1, <2>1
<1> QED
  BY <1>3, <1>4

LEMMA StartedInvariant == Spec => []Started
<1>1. Init => Started
  BY DEF Init, Started
<1>2. ASSUME WalkInv, Started, [Next]_vars PROVE Started'
  <2>1. CASE Resolve
    <3>1. CASE Link
      BY <3>1 DEF Link, Started
    <3> QED
      BY <1>2, <2>1, <3>1, ResolveCases, MidWalk DEF Started
  <2>2. CASE ResolveReferences
    BY <1>2, <2>2, RunsAssumption DEF ResolveReferences, Started, WalkInv, Typed
  <2>3. CASE Done \/ UNCHANGED vars
    BY <1>2, <2>3 DEF Done, vars, Started
  <2> QED
    BY <1>2, <2>1, <2>2, <2>3 DEF Next
<1> QED
  BY <1>1, <1>2, WalkInvariant, PTL DEF Spec

(* The references that last are those of every slot that is not bound again. *)
LEMMA LastingIs ==
  ASSUME Typed
  PROVE  /\ DOMAIN Lasting = {s \in Slots : ~Rebound(s)}
         /\ \A s \in DOMAIN Lasting : Lasting[s] = refs[s]
         /\ SimpleNames \subseteq DOMAIN Lasting /\ DOMAIN Lasting \subseteq Slots
BY SoughtCompetes DEF Lasting, Typed

LEMMA LastingNext ==
  ASSUME Typed, Typed', design' = design
  PROVE  /\ DOMAIN Lasting' = DOMAIN Lasting
         /\ \A s \in DOMAIN Lasting : Lasting'[s] = refs'[s]
         /\ (ambiguous \cap SimpleNames)' = ambiguous' \cap SimpleNames
<1>1. SimpleNames' = SimpleNames
  BY FixedCover
<1>2. (DOMAIN refs)' = Slots /\ DOMAIN refs = Slots
  BY Fixed DEF Typed
<1>3. \A s : Rebound(s)' <=> Rebound(s)
  BY FixedMeaning
<1>4. Lasting' = [s \in {t \in Slots : ~Rebound(t)} |-> refs'[s]]
  BY <1>2, <1>3 DEF Lasting
<1> QED
  BY <1>1, <1>2, <1>4 DEF Lasting

LEMMA LastingStays ==
  ASSUME Typed, Typed', design' = design,
         \A s \in Slots : Rebound(s) \/ refs'[s] = refs[s]
  PROVE  Lasting' = Lasting
<1>1. \A s \in DOMAIN Lasting : Lasting'[s] = Lasting[s]
  BY LastingIs, LastingNext
<1>2. Lasting = [s \in DOMAIN Lasting |-> Lasting[s]]
      /\ Lasting' = [s \in DOMAIN Lasting' |-> Lasting'[s]]
  BY DEF Lasting
<1> QED
  BY <1>1, <1>2, LastingNext

LEMMA CallRefines ==
  ASSUME Typed, Typed', ResolveReferences
  PROVE  Resolution!Call
<1>1. /\ unit = 0 /\ unit' = 1
      /\ design' = design /\ refs' = refs /\ ambiguous' = ambiguous
  BY DEF ResolveReferences
<1>2. Lasting' = Lasting /\ (ambiguous \cap SimpleNames)' = ambiguous \cap SimpleNames
  BY <1>1, LastingStays, LastingNext
<1> QED
  BY <1>1, <1>2 DEF Resolution!Call

LEMMA ReturnRefines ==
  ASSUME CoverInv, Started, Typed', Link
  PROVE  Resolution!Return
<1>1. Typed
  BY DEF CoverInv, KeptInv, NestInv, WalkInv
<1>2. Len(Order) \in Nat
  BY <1>1, OrderIs DEF Typed
<1>3. unit = Len(Order) + 1 /\ unit' = 0 /\ unit # 0
  BY <1>2 DEF Link
<1>4. Ended
  BY <1>3 DEF Ended, Started
<1>5. Resolution!Settled
  <2>1. ASSUME NEW s \in SimpleNames
        PROVE  Lasting[s] # None \/ s \in ambiguous \cap SimpleNames \/ Competing(s) = <<>>
    BY <1>1, <1>4, DecidedNames, LastingIs
  <2> QED
    BY <2>1, SameNames, SameCompetitors DEF Resolution!Settled
<1>6. Lasting' = Lasting /\ (ambiguous \cap SimpleNames)' = ambiguous \cap SimpleNames
      /\ design' = design
  BY <1>1, LinkHolds, LastingStays, LastingNext
<1> QED
  BY <1>3, <1>5, <1>6 DEF Resolution!Return

LEMMA DecideRefines ==
  ASSUME KeptInv, Typed', Next, Resolves \/ Leave, unit # 0, unit' # 0
  PROVE  Resolution!Decide
<1> DEFINE called == ambiguous \cap SimpleNames
           calledNext == ambiguous' \cap SimpleNames
<1>1. Typed /\ NestInv /\ Kept
  BY DEF KeptInv, NestInv, WalkInv
<1>2. /\ design' = design
      /\ \A s \in Slots : \/ Rebound(s)
                          \/ /\ Holds(s, refs'[s], s \in ambiguous')
                             /\ refs[s] # None => refs'[s] = refs[s]
  BY <1>1, StepHolds
<1>3. ambiguous \subseteq ambiguous'
  BY DEF Resolves, Record, Leave
<1>4. /\ DOMAIN Lasting = {s \in Slots : ~Rebound(s)}
      /\ \A s \in DOMAIN Lasting : Lasting[s] = refs[s] /\ Lasting'[s] = refs'[s]
      /\ DOMAIN Lasting' = DOMAIN Lasting
      /\ SimpleNames \subseteq DOMAIN Lasting
      /\ (ambiguous \cap SimpleNames)' = calledNext
  BY <1>1, <1>2, LastingIs, LastingNext
<1>5. ASSUME NEW s \in DOMAIN Lasting
      PROVE  \/ Lasting'[s] = Lasting[s]
             \/ /\ Lasting[s] = None
                /\ Resolution!IsSimpleName(s) => Resolution!MayMean(s, Lasting'[s])
  <2>1. /\ refs'[s] \in {None, Meant(Sought(s))} /\ (refs[s] # None => refs'[s] = refs[s])
        /\ s \in Slots /\ Lasting[s] = refs[s] /\ Lasting'[s] = refs'[s]
    BY <1>2, <1>4, <1>5 DEF Holds
  <2>2. SUFFICES ASSUME refs'[s] # refs[s], IsSimpleName(s), Competing(s) # <<>>
                 PROVE  ToSet(refs'[s].of) \subseteq {Meaning(d) : d \in ToSet(Competing(s))}
    BY <2>1, SameNames, SameCompetitors
  <2>3. s \in SimpleNames /\ refs'[s] = Meant(Sought(s)) /\ refs'[s] # None
    BY <2>1, <2>2 DEF SimpleNames
  <2> QED
    BY <1>1, <2>2, <2>3, MeantCompetes
<1>6. ASSUME NEW s \in calledNext
      PROVE  /\ s \in DOMAIN Lasting /\ Lasting'[s] = None
             /\ Resolution!MayBeAmbiguous(s)
  <2>1. s \in SimpleNames /\ s \in DOMAIN Lasting /\ s \in ambiguous'
    BY <1>4, <1>6
  <2>2. Lasting'[s] = refs'[s] /\ Holds(s, refs'[s], s \in ambiguous')
    BY <1>2, <1>4, <2>1
  <2>3. Len(Sought(s)) > 1 /\ refs'[s] \in {None, Meant(Sought(s))}
    BY <2>1, <2>2 DEF Holds
  <2>4. /\ Len(Competing(s)) > 1 /\ ~Overloaded(Competing(s))
        /\ Meant(Sought(s)) = None
    BY <1>1, <2>1, <2>3, SeveralCompete
  <2> QED
    BY <2>1, <2>2, <2>3, <2>4, SameCompetitors DEF SimpleNames
<1>7. called \subseteq calledNext
  BY <1>3
<1> HIDE DEF calledNext
<1> QED
  BY <1>2, <1>4, <1>5, <1>6, <1>7 DEF Resolution!Decide

(* The walk of regions with its scopes, lookups and runs is a resolution of *)
(* names: at every step a name is given what the text lets it mean, or is   *)
(* called ambiguous where the text is; no call of resolve_references        *)
(* returns before each name that has a declaration is decided; and no later *)
(* run decides otherwise, whatever the linker has bound in between.         *)
THEOREM ImplementsNameResolution == Spec => RefinesNameResolution
<1>1. ASSUME Init PROVE Resolution!Init
  <2>1. Typed
    BY <1>1, WalkInit DEF WalkInv
  <2>2. unit = 0 /\ refs = [s \in Slots |-> None] /\ ambiguous = {}
    BY <1>1 DEF Init
  <2>3. \A s \in DOMAIN Lasting : Lasting[s] = None
    BY <2>1, <2>2, LastingIs
  <2> QED
    BY <2>1, <2>2, <2>3, LastingIs, SameNames, SameSlots DEF Resolution!Init
<1>2. ASSUME CoverInv, Started, [Next]_vars
      PROVE  [Resolution!Next]_Resolution!nameVars
  <2>1. NestInv /\ WalkInv /\ Typed
    BY <1>2 DEF CoverInv, KeptInv, NestInv, WalkInv
  <2>2. Typed'
    BY <1>2, <2>1, WalkStep DEF WalkInv
  <2>3. CASE Resolve
    <3>1. CASE Link
      BY <1>2, <2>2, <3>1, ReturnRefines DEF Resolution!Next
    <3>2. CASE (Resolves /\ (Entered \/ PassedBy)) \/ Leave
      BY <1>2, <2>1, <2>2, <2>3, <3>2, MidWalk, DecideRefines DEF Resolution!Next, Next, CoverInv
    <3> QED
      BY <2>1, <2>3, <3>1, <3>2, HandlersResolve
  <2>4. CASE ResolveReferences
    BY <2>1, <2>2, <2>4, CallRefines DEF Resolution!Next
  <2>5. CASE Done \/ UNCHANGED vars
    <3>1. unit' = unit /\ design' = design /\ refs' = refs /\ ambiguous' = ambiguous
      BY <2>5 DEF Done, vars
    <3>2. Lasting' = Lasting /\ (ambiguous \cap SimpleNames)' = ambiguous \cap SimpleNames
      BY <2>1, <2>2, <3>1, LastingStays, LastingNext
    <3> QED
      BY <3>1, <3>2 DEF Resolution!nameVars
  <2> QED
    BY <1>2, <2>3, <2>4, <2>5 DEF Next
<1> QED
  BY <1>1, <1>2, CoverInvariant, StartedInvariant, PTL
     DEF Spec, RefinesNameResolution, Resolution!Spec

================================================================================
