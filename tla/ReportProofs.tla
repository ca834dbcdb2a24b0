------------------------------ MODULE ReportProofs ------------------------------
(***************************************************************************)
(* Every reference points at a node of its kind, and an instance that is   *)
(* left unbound is reported: what the walk adds to the diagnostics, and    *)
(* that it adds at all, through every lookup it makes.                     *)
(***************************************************************************)
EXTENDS RunProofs

--------------------------------------------------------------------------------
(* Sequences, of whatever they hold. *)
IsSeq(s) == \E S : s \in Seq(S)

LEMMA Sequences ==
  /\ IsSeq(<<>>)
  /\ \A x : IsSeq(<<x>>)
  /\ \A s, t : IsSeq(s) /\ IsSeq(t) => IsSeq(s \o t)
<1>1. <<>> \in Seq({})
  OBVIOUS
<1>2. ASSUME NEW x PROVE <<x>> \in Seq({x})
  OBVIOUS
<1>3. ASSUME NEW s, NEW t, NEW S, s \in Seq(S), NEW T, t \in Seq(T)
      PROVE  s \o t \in Seq(S \cup T)
  <2>1. s \in Seq(S \cup T) /\ t \in Seq(S \cup T)
    BY <1>3
  <2> QED
    BY <2>1
<1> QED
  BY <1>1, <1>2, <1>3 DEF IsSeq

LEMMA FlattenedSequences ==
  ASSUME NEW m \in Nat, NEW s, s = [n \in 1..m |-> s[n]], \A n \in 1..m : IsSeq(s[n])
  PROVE  IsSeq(FlattenSeq(s))
<1> DEFINE Of(n) == CHOOSE S : s[n] \in Seq(S)
           S == UNION {Of(n) : n \in 1..m}
<1>1. \A n \in 1..m : s[n] \in Seq(Of(n))
  BY DEF IsSeq
<1>2. \A n \in 1..m : Of(n) \subseteq S
  OBVIOUS
<1> HIDE DEF Of, S
<1>3. \A n \in 1..m : s[n] \in Seq(S)
  BY <1>1, <1>2
<1>4. s \in Seq(Seq(S))
  BY <1>3
<1> QED
  BY <1>4, FlattenedIsSeq DEF IsSeq

(* What is in one of two sequences is in both together. *)
LEMMA Concatenated ==
  ASSUME NEW s, IsSeq(s), NEW t, IsSeq(t)
  PROVE  /\ \A n \in DOMAIN s : \E k \in DOMAIN (s \o t) : (s \o t)[k] = s[n]
         /\ \A n \in DOMAIN t : \E k \in DOMAIN (s \o t) : (s \o t)[k] = t[n]
<1>1. PICK S : s \in Seq(S) /\ t \in Seq(S)
  <2>1. PICK A, B : s \in Seq(A) /\ t \in Seq(B)
    BY DEF IsSeq
  <2>2. s \in Seq(A \cup B) /\ t \in Seq(A \cup B)
    BY <2>1
  <2> QED
    BY <2>2
<1>2. ASSUME NEW n \in DOMAIN s PROVE n \in DOMAIN (s \o t) /\ (s \o t)[n] = s[n]
  BY <1>1
<1>3. ASSUME NEW n \in DOMAIN t
      PROVE  Len(s) + n \in DOMAIN (s \o t) /\ (s \o t)[Len(s) + n] = t[n]
  BY <1>1
<1> QED
  BY <1>2, <1>3

--------------------------------------------------------------------------------
(* What the registry returns under a key is a unit of the kind asked for. *)
LEMMA FoundKind ==
  ASSUME Registry, NEW k, k[1] # "architecture", At(k) # None
  PROVE  At(k) \in Registrable /\ KindOf(At(k)) = k[1]
<1>1. k \in Key /\ At(k) = by_key[k] /\ by_key[k] # None
  BY ByKeyDomain DEF At
<1>2. At(k) \in Registrable /\ KeyOf(At(k)) = k
  BY <1>1, FoundUnit
<1>3. \A u : KeyOf(u)[1] = KindOf(u)
  BY DEF KeyOf
<1> QED
  BY <1>2, <1>3

LEMMA FindKind ==
  ASSUME Registry, NEW kind, kind # "architecture", NEW lib, NEW parts
  PROVE  Find(kind, lib, parts) \in NodeOrNone(UnitsOfKind({kind}))
<1> DEFINE k == NameKey(kind, lib, parts, "")
<1>1. k[1] = kind /\ Find(kind, lib, parts) = At(k)
  BY DEF NameKey, Find
<1>2. At(k) # None => At(k) \in Registrable /\ KindOf(At(k)) = kind
  BY <1>1, FoundKind
<1> HIDE DEF k
<1> QED
  BY <1>1, <1>2 DEF NodeOrNone, UnitsOfKind, IsKind, Registrable

(* A lookup returns a component, a unit or nothing. *)
Referable == Unit \cup NodeOrNone(Components)

LEMMA PackageLookup ==
  ASSUME NEW p \in NodeOrNone(Unit), NEW id
  PROVE  LookupInPackage(p, id) \in NodeOrNone(Components)
<1>1. CASE p # None /\ Cardinality(Named(p, id)) = 1
  <2>1. p \in Unit /\ Len(Decl(p).components) \in Nat
    BY <1>1, NodesAssumption DEF NodeOrNone
  <2>2. Named(p, id) \subseteq 1..Len(Decl(p).components)
    BY DEF Named
  <2>3. IsFiniteSet(Named(p, id))
    <3>1. \A n \in Nat : IsFiniteSet(1..n)
      BY FS_Interval
    <3>2. IsFiniteSet(1..Len(Decl(p).components))
      BY <2>1, <3>1
    <3> QED
      BY <2>2, <3>2, FS_Subset
  <2>4. Named(p, id) # {}
    BY <1>1, <2>3, FS_EmptySet
  <2>5. PICK j : j \in Named(p, id) /\ LookupInPackage(p, id) = <<"component", p, j>>
    BY <1>1, <2>4 DEF LookupInPackage
  <2> QED
    BY <2>1, <2>2, <2>5 DEF NodeOrNone, Components
<1>2. CASE ~(p # None /\ Cardinality(Named(p, id)) = 1)
  BY <1>2 DEF LookupInPackage, NodeOrNone
<1> QED
  BY <1>1, <1>2

LEMMA TrialsWithin ==
  ASSUME NEW parts
  PROVE  /\ Hits(parts) # {} => Min(Hits(parts)) \in 1..4
         /\ Min(Hits(parts) \cup {5}) - 1 \in Nat
         /\ \A n \in 1..4 : Trials[n] # "architecture"
<1>1. Hits(parts) \subseteq 1..4
  BY DEF Hits, Trials
<1>2. Hits(parts) # {} => Min(Hits(parts)) \in 1..4
  BY <1>1, MinIsLeast
<1>3. Min(Hits(parts) \cup {5}) \in Hits(parts) \cup {5}
  BY <1>1, MinIsLeast
<1>4. \A n \in 1..4 : Trials[n] # "architecture"
  BY DEF Trials
<1> QED
  BY <1>1, <1>2, <1>3, <1>4

LEMMA QualifiedLookup ==
  ASSUME Registry, NEW parts
  PROVE  LookupQualified(parts) \in Referable /\ IsSeq(QualifiedMisses(parts))
<1>1. \A kind : kind # "architecture" =>
        Find(kind, "", parts) \in NodeOrNone(Unit)
  BY FindKind DEF NodeOrNone, UnitsOfKind
<1>2. \A kind : IsSeq(FindMisses(kind, "", parts))
  BY Sequences DEF FindMisses, Misses
<1>3. \A n \in 1..4 : Find(Trials[n], "", parts) \in Referable
  BY <1>1, TrialsWithin DEF Referable, NodeOrNone
<1>4. Find("package", "", parts) \in Referable
        /\ LookupInPackage(Find("package", "", parts), parts[3]) \in Referable
  BY <1>1, PackageLookup DEF Referable, NodeOrNone
<1>5. LookupQualified(parts) \in Referable
  <2>1. CASE Len(parts) = 2
    <3>1. None \in Referable
      BY DEF Referable, NodeOrNone
    <3>2. CASE Hits(parts) = {}
      BY <2>1, <3>1, <3>2 DEF LookupQualified
    <3>3. CASE Hits(parts) # {}
      BY <1>3, <2>1, <3>3, TrialsWithin DEF LookupQualified
    <3> QED
      BY <3>2, <3>3
  <2>2. CASE Len(parts) # 2
    BY <1>4, <2>2 DEF LookupQualified
  <2> QED
    BY <2>1, <2>2
<1>6. IsSeq(QualifiedMisses(parts))
  <2> DEFINE m == Min(Hits(parts) \cup {5}) - 1
             tried == [n \in 1..m |-> FindMisses(Trials[n], "", parts)]
  <2>1. IsSeq(FlattenSeq(tried))
    <3>1. m \in Nat
      BY TrialsWithin
    <3>2. tried = [n \in 1..m |-> tried[n]] /\ \A n \in 1..m : IsSeq(tried[n])
      BY <1>2
    <3> HIDE DEF tried, m
    <3> QED
      BY <3>1, <3>2, FlattenedSequences
  <2>2. QualifiedMisses(parts) = IF Len(parts) = 2 THEN FlattenSeq(tried)
                                 ELSE FindMisses("package", "", parts)
    BY DEF QualifiedMisses
  <2> HIDE DEF tried
  <2> QED
    BY <1>2, <2>1, <2>2
<1> QED
  BY <1>5, <1>6

--------------------------------------------------------------------------------
(* What a use clause refers to. *)
ClauseTyped(r) ==
  /\ r.package \in NodeOrNone(UnitsOfKind({"package"}))
  /\ r.selected \in Referable
ClausesTyped == \A c \in UsedPackages : ClauseTyped(clause_ref[c])

UsedNodes == Holders \cup {UseStd}

LEMMA TargetTyped ==
  ASSUME Registry, ClausesSound, NEW c \in UsedPackages
  PROVE  ClauseTyped(Target[c]) /\ IsSeq(TargetMisses[c])
<1> DEFINE parts == NameIn(c)
           p == Find("package", "", parts)
           one == [Unresolved EXCEPT !.selected = LookupQualified(parts)]
           two == [package |-> p, selected |-> IF Last(parts) = "all" THEN None
                                                ELSE LookupInPackage(p, parts[3])]
<1>0. c \in DOMAIN clause_ref
  BY DEF ClausesSound
<1>1. Target[c] \in {Unresolved, one, two}
  BY <1>0, Zenon DEF Target
<1>2. TargetMisses[c] \in {<<>>, QualifiedMisses(parts), FindMisses("package", "", parts)}
  BY <1>0, Zenon DEF TargetMisses
<1>3. p \in NodeOrNone(UnitsOfKind({"package"})) /\ p \in NodeOrNone(Unit)
  BY FindKind DEF NodeOrNone, UnitsOfKind
<1>4. None \in Referable /\ None \in NodeOrNone(UnitsOfKind({"package"}))
  BY DEF Referable, NodeOrNone
<1>5. ClauseTyped(Unresolved)
  BY <1>4 DEF ClauseTyped, Unresolved
<1>6. ClauseTyped(one)
  BY <1>4, QualifiedLookup DEF ClauseTyped, Unresolved
<1>7. LookupInPackage(p, parts[3]) \in Referable
  BY <1>3, PackageLookup DEF Referable
<1> HIDE DEF p, parts
<1>8. ClauseTyped(two)
  BY <1>3, <1>4, <1>7 DEF ClauseTyped
<1> HIDE DEF one, two
<1>9. IsSeq(FindMisses("package", "", parts))
  BY Sequences DEF FindMisses, Misses
<1> QED
  BY <1>1, <1>2, <1>5, <1>6, <1>8, <1>9, QualifiedLookup, Sequences

LEMMA SettledTyped ==
  ASSUME Registry, ClausesSound, ClausesTyped, NEW c \in UsedPackages
  PROVE  ClauseTyped(Settled[c])
<1>1. Settled[c] \in {Target[c], clause_ref[c]}
  BY DEF Settled, ClausesSound
<1> QED
  BY <1>1, TargetTyped DEF ClausesTyped

LEMMA UsedPackagesOf ==
  ASSUME NEW h \in UsedNodes
  PROVE  /\ Len(ClausesOf(h)) \in Nat
         /\ \A i \in 1..Len(ClausesOf(h)) : <<h, i>> \in UsedPackages
<1>1. UseStd \notin Unit
  BY FilesAssumption DEF UseStd, Unit
<1>2. CASE h \in Holders
  <2>1. ClausesOf(h) = Decl(h).clauses
    BY <1>1, <1>2 DEF ClausesOf, Holders, UnitsOfKind
  <2> QED
    BY <1>2, <2>1, ClausesAssumption DEF UsedPackages, Numbered
<1>3. CASE h = UseStd
  <2>1. ClausesOf(h) = << <<"std", "standard", "all">> >>
    BY <1>3 DEF ClausesOf
  <2>2. Len(ClausesOf(h)) = 1
    BY <2>1
  <2> QED
    BY <1>3, <2>2 DEF UsedPackages, Numbered
<1> QED
  BY <1>2, <1>3 DEF UsedNodes

(* Resolving use clauses reports a sequence of misses. *)
LEMMA UseMissesAreSeq ==
  ASSUME Registry, ClausesSound, NEW holders \in Seq(UsedNodes)
  PROVE  IsSeq(UseMisses(holders))
<1> DEFINE miss(n, i) ==
             LET c == <<holders[n], i>>
                 twice == \E k \in 1..(n - 1) : holders[k] = holders[n]
             IN  IF clause_ref[c] # Unresolved \/ (twice /\ Settled[c] # Unresolved)
                 THEN <<>> ELSE TargetMisses[c]
           inner(n) == [i \in 1..Len(ClausesOf(holders[n])) |-> miss(n, i)]
           outer == [n \in 1..Len(holders) |-> FlattenSeq(inner(n))]
<1>1. UseMisses(holders) = FlattenSeq(outer)
  BY DEF UseMisses
<1>2. ASSUME NEW n \in 1..Len(holders) PROVE IsSeq(FlattenSeq(inner(n)))
  <2>1. holders[n] \in UsedNodes
    OBVIOUS
  <2>2. \A i \in 1..Len(ClausesOf(holders[n])) : IsSeq(miss(n, i))
    <3> TAKE i \in 1..Len(ClausesOf(holders[n]))
    <3>1. <<holders[n], i>> \in UsedPackages
      BY <2>1, UsedPackagesOf
    <3>2. miss(n, i) \in {<<>>, TargetMisses[<<holders[n], i>>]}
      OBVIOUS
    <3> HIDE DEF miss
    <3> QED
      BY <3>1, <3>2, TargetTyped, Sequences
  <2> HIDE DEF miss
  <2>3. /\ inner(n) = [i \in 1..Len(ClausesOf(holders[n])) |-> inner(n)[i]]
        /\ \A i \in 1..Len(ClausesOf(holders[n])) : IsSeq(inner(n)[i])
    BY <2>2
  <2> HIDE DEF inner
  <2> QED
    BY <2>1, <2>3, UsedPackagesOf, FlattenedSequences
<1> HIDE DEF inner
<1>3. Len(holders) \in Nat /\ outer = [n \in 1..Len(holders) |-> outer[n]]
      /\ \A n \in 1..Len(holders) : IsSeq(outer[n])
  BY <1>2
<1> HIDE DEF outer
<1> QED
  BY <1>1, <1>3, FlattenedSequences

--------------------------------------------------------------------------------
(* What a lookup returns: a node a reference may point at, the use clauses  *)
(* it visits, and a sequence of misses.                                     *)
FoundTyped(s) ==
  /\ s.found \in Referable
  /\ s.visited \in Seq(UsedNodes)
  /\ IsSeq(s.misses)

LEMMA OfferTyped ==
  ASSUME Registry, ClausesSound, ClausesTyped, NEW holders \in Seq(UsedNodes), NEW id,
         NEW o \in Offers(holders, id)
  PROVE  /\ FoundTyped(o)
         /\ o.at[1] \in 1..Len(holders) /\ o.at[2] \in Nat /\ o.at = <<o.at[1], o.at[2]>>
<1>1. PICK n \in 1..Len(holders) : \E c \in Numbered(holders[n], ClausesOf(holders[n])) :
        o = [at |-> <<n, c[2]>>, found |-> Offer(c, id),
             visited |-> SubSeq(holders, 1, n), misses |-> <<>>]
  BY DEF Offers
<1>0. PICK c \in Numbered(holders[n], ClausesOf(holders[n])) :
        o = [at |-> <<n, c[2]>>, found |-> Offer(c, id),
             visited |-> SubSeq(holders, 1, n), misses |-> <<>>]
  BY <1>1
<1>2. holders[n] \in UsedNodes /\ n \in 1..Len(holders) /\ Len(holders) \in Nat
  OBVIOUS
<1>3. PICK j \in 1..Len(ClausesOf(holders[n])) : c = <<holders[n], j>>
  BY DEF Numbered
<1>4. c \in UsedPackages /\ c[2] \in Nat
  BY <1>2, <1>3, UsedPackagesOf
<1>5. ClauseTyped(Settled[c])
  BY <1>4, SettledTyped
<1>6. Offer(c, id) \in Referable
  <2>1. Settled[c].package \in NodeOrNone(Unit) /\ Settled[c].selected \in Referable
    BY <1>5 DEF ClauseTyped, NodeOrNone, UnitsOfKind
  <2>2. LookupInPackage(Settled[c].package, id) \in NodeOrNone(Components)
    BY <2>1, PackageLookup
  <2>3. Offer(c, id) \in {LookupInPackage(Settled[c].package, id), Settled[c].selected, None}
    BY DEF Offer
  <2> QED
    BY <2>1, <2>2, <2>3 DEF Referable, NodeOrNone
<1>7. SubSeq(holders, 1, n) \in Seq(UsedNodes)
  BY <1>2
<1>8. IsSeq(o.misses)
  BY <1>0, Sequences
<1>9. o.found = Offer(c, id) /\ o.visited = SubSeq(holders, 1, n) /\ o.at = <<n, c[2]>>
  BY <1>0
<1> QED
  BY <1>2, <1>4, <1>6, <1>7, <1>8, <1>9 DEF FoundTyped

(* Of the offers that are made, one is the first. *)
LEMMA LookedUpInUse ==
  ASSUME Registry, ClausesSound, ClausesTyped, NEW holders \in Seq(UsedNodes), NEW id
  PROVE  FoundTyped(LookupInUseClauses(holders, id))
<1> DEFINE all == Offers(holders, id)
           made == {o \in all : o.found # None}
           none == NoOffer(holders)
           Wins(o) == /\ o.found # None \/ o = none
                      /\ \A p \in all : p.found = None \/ Precedes(o.at, p.at)
<1>1. FoundTyped(none)
  BY Sequences DEF NoOffer, FoundTyped, Referable, NodeOrNone
<1>2. \A o \in all : /\ FoundTyped(o) /\ o.at = <<o.at[1], o.at[2]>>
                     /\ o.at[1] \in Nat /\ o.at[2] \in Nat
  BY OfferTyped
<1>3. \E o \in all \cup {none} : Wins(o)
  <2>1. CASE made = {}
    BY <2>1
  <2>2. CASE made # {}
    <3> DEFINE N == {n \in Nat : \E o \in made : o.at[1] = n}
    <3> HIDE DEF all
    <3>1. N # {}
      BY <1>2, <2>2
    <3>2. PICK n \in N : \A k \in N : n <= k
      BY <3>1, MinIsLeast
    <3> DEFINE I == {i \in Nat : \E o \in made : o.at[1] = n /\ o.at[2] = i}
    <3>3. I # {}
      BY <1>2, <3>2
    <3>4. PICK i \in I : \A k \in I : i <= k
      BY <3>3, MinIsLeast
    <3>5. PICK o \in made : o.at[1] = n /\ o.at[2] = i
      BY <3>4
    <3>6. ASSUME NEW p \in all, p.found # None PROVE Precedes(o.at, p.at)
      <4>1. p.at[1] \in N /\ n <= p.at[1] /\ n \in Nat /\ p.at[1] \in Nat
        BY <1>2, <3>2, <3>6
      <4>2. p.at[1] = n => p.at[2] \in I /\ i <= p.at[2]
        BY <1>2, <3>4, <3>6
      <4> QED
        BY <3>5, <4>1, <4>2 DEF Precedes
    <3> QED
      BY <3>5, <3>6
  <2> QED
    BY <2>1, <2>2
<1>4. LookupInUseClauses(holders, id) = CHOOSE o \in all \cup {none} : Wins(o)
  BY DEF LookupInUseClauses
<1> HIDE DEF all, none, Wins
<1>5. LookupInUseClauses(holders, id) \in all \cup {none}
  BY <1>3, <1>4
<1> QED
  BY <1>1, <1>2, <1>5

(* The use clauses in the scope of a unit. *)
LEMMA ScopeNodes ==
  ASSUME ScopesGiven, NEW u \in Registrable
  PROVE  /\ UnitUseClauses(u) \in Seq(UsedNodes)
         /\ ScopeOf(u) \in Seq(UsedNodes)
         /\ IsKind(u, {"configuration", "context"}) => <<u>> \in Seq(UsedNodes)
<1>1. packages_in_scope[u] \in Seq(UsedNodes)
  <2>1. Clauses \subseteq UsedNodes
    BY DEF Clauses, UsedNodes, Holders, UnitsOfKind, IsKind
  <2>2. packages_in_scope[u] \in Seq(Clauses)
    BY DEF ScopesGiven
  <2> QED
    BY <2>1, <2>2
<1>2. UseStd \in UsedNodes
  BY DEF UsedNodes
<1>3. UnitUseClauses(u) \in Seq(UsedNodes)
  <2> HIDE DEF UsedNodes
  <2> QED
    BY <1>1, <1>2 DEF UnitUseClauses
<1>4. ASSUME IsKind(u, {"configuration", "context"}) PROVE <<u>> \in Seq(UsedNodes)
  <2>1. u \in UsedNodes
    BY <1>4 DEF UsedNodes, Holders, UnitsOfKind, IsKind, Registrable
  <2> QED
    BY <2>1
<1>5. CASE IsKind(u, {"configuration"})
  <2>1. ScopeOf(u) = <<u>> \o UnitUseClauses(u) /\ <<u>> \in Seq(UsedNodes)
    BY <1>4, <1>5 DEF ScopeOf, IsKind
  <2> QED
    BY <1>3, <1>4, <2>1
<1>6. CASE ~IsKind(u, {"configuration"})
  <2>1. ScopeOf(u) = <<>> \o UnitUseClauses(u)
    BY <1>6 DEF ScopeOf
  <2> QED
    BY <1>3, <1>4, <2>1
<1> QED
  BY <1>5, <1>6

LEMMA LookupTyped ==
  ASSUME Registry, ScopesGiven, ClausesSound, ClausesTyped, NEW u \in Registrable, NEW parts
  PROVE  FoundTyped(Lookup(u, parts))
<1> DEFINE own == IF IsKind(u, {"architecture"}) THEN Named(u, parts[1]) ELSE {}
           none == [found |-> None, visited |-> <<>>, misses |-> <<>>]
           qualified == [found |-> LookupQualified(parts), visited |-> <<>>,
                         misses |-> QualifiedMisses(parts)]
           ambiguous == [found |-> None, visited |-> <<>>, misses |-> <<Ambiguous(parts)>>]
           local == [found |-> <<"component", u, CHOOSE j \in own : TRUE>>,
                     visited |-> <<>>, misses |-> <<>>]
           used == LookupInUseClauses(ScopeOf(u), parts[1])
<1>0. <<>> \in Seq(UsedNodes) /\ None \in Referable /\ IsSeq(<<>>)
  BY Sequences DEF Referable, NodeOrNone
<1>1. FoundTyped(none)
  BY <1>0 DEF FoundTyped
<1>2. FoundTyped(qualified)
  BY <1>0, QualifiedLookup DEF FoundTyped
<1>3. FoundTyped(ambiguous)
  BY <1>0, Sequences DEF FoundTyped
<1>4. FoundTyped(used)
  BY ScopeNodes, LookedUpInUse
<1>5. Cardinality(own) = 1 => FoundTyped(local)
  <2>1. SUFFICES ASSUME Cardinality(own) = 1 PROVE local.found \in Referable
    BY <1>0 DEF FoundTyped
  <2>2. u \in Unit /\ Len(Decl(u).components) \in Nat
    BY NodesAssumption DEF Registrable
  <2>3. own \subseteq 1..Len(Decl(u).components)
    BY DEF Named
  <2>4. own # {}
    BY <2>1, FS_EmptySet
  <2>5. PICK j : j \in own /\ local.found = <<"component", u, j>>
    BY <2>4
  <2> QED
    BY <2>2, <2>3, <2>5 DEF Referable, NodeOrNone, Components
<1>6. \/ Lookup(u, parts) \in {none, qualified, ambiguous, used}
      \/ Cardinality(own) = 1 /\ Lookup(u, parts) = local
  <2> DEFINE which ==
        CASE Len(parts) = 0 -> none
          [] Len(parts) > 1 -> qualified
          [] Len(parts) = 1 /\ Cardinality(own) > 1 -> ambiguous
          [] Len(parts) = 1 /\ Cardinality(own) = 1 -> local
          [] OTHER -> used
  <2>1. Lookup(u, parts) = which
    BY DEF Lookup
  <2> HIDE DEF none, qualified, ambiguous, used, local, own
  <2>2. \/ which \in {none, qualified, ambiguous, used}
        \/ Cardinality(own) = 1 /\ which = local
    <3>1. CASE Len(parts) = 1 /\ Cardinality(own) = 1
      BY <3>1
    <3>2. CASE ~(Len(parts) = 1 /\ Cardinality(own) = 1)
      BY <3>2
    <3> QED
      BY <3>1, <3>2
  <2> QED
    BY <2>1, <2>2
<1> HIDE DEF none, qualified, ambiguous, used, local, own
<1> QED
  BY <1>1, <1>2, <1>3, <1>4, <1>5, <1>6

LEMMA ComponentsTold ==
  ASSUME NEW x \in Referable
  PROVE  AsComponent(x) \in NodeOrNone(Components)
<1>1. ASSUME x \in Unit PROVE x[1] # "component"
  BY <1>1, NodesAssumption DEF Unit
<1>2. None \in NodeOrNone(Components)
  BY DEF NodeOrNone
<1> QED
  BY <1>1, <1>2 DEF AsComponent, Referable, NodeOrNone

LEMMA ClausesTypedStep ==
  ASSUME Registry, ClausesSound, ClausesTyped, Adds \/ ResolveReferences \/ Resolve
  PROVE  ClausesTyped'
<1>1. Adds \/ ResolveReferences => UNCHANGED clause_ref
  BY DEF Adds, elabVars, refVars, ResolveReferences
<1>2. CASE UNCHANGED clause_ref
  BY <1>2 DEF ClausesTyped, ClauseTyped
<1>3. CASE \E holders : ResolveUseClauses(holders)
  <2>1. \A c \in UsedPackages : clause_ref'[c] \in {Settled[c], clause_ref[c]}
    BY <1>3 DEF ResolveUseClauses, ClausesSound
  <2>2. \A c \in UsedPackages : ClauseTyped(clause_ref'[c])
    BY <2>1, SettledTyped DEF ClausesTyped
  <2> QED
    BY <2>2 DEF ClausesTyped, ClauseTyped
<1> QED
  BY <1>1, <1>2, <1>3, ClausesOnlySettle

--------------------------------------------------------------------------------
(* What the units refer to. *)
RefersToKind(u) ==
  IF IsKind(u, {"architecture", "configuration"}) THEN {"entity"} ELSE {"package"}
UnitRefsTyped ==
  \A u \in Registrable : unit_ref[u] \in NodeOrNone(UnitsOfKind(RefersToKind(u)))

LEMMA RefersTyped ==
  ASSUME Registry, Cursor, Refers
  PROVE  \E x \in NodeOrNone(UnitsOfKind(RefersToKind(Visited))) :
           unit_ref' = [unit_ref EXCEPT ![Visited] = x]
<1> DEFINE lib == LibOf(Visited)
           Finds(kind, kinds) ==
             /\ IsKind(Visited, kinds)
             /\ \E parts : unit_ref' = [unit_ref EXCEPT ![Visited] = Find(kind, lib, parts)]
<1>1. ResolvePackageInstantiation => Finds("package", {"package_instantiation"})
  BY DEF ResolvePackageInstantiation, AtHead, Visiting, Refer
<1>2. ResolvePackageBody => Finds("package", {"package_body"})
  BY DEF ResolvePackageBody, AtHead, Visiting, Refer
<1>3. ResolveConfiguration => Finds("entity", {"configuration"})
  BY DEF ResolveConfiguration, AtHead, Visiting, Refer
<1>4. ResolveArchitecture => Finds("entity", {"architecture"})
  BY DEF ResolveArchitecture, AtHead, Visiting, Refer
<1>5. \A kind \in {"entity", "package"} : \A parts :
        Find(kind, lib, parts) \in NodeOrNone(UnitsOfKind({kind}))
  BY FindKind
<1> HIDE DEF lib
<1>6. CASE ResolvePackageInstantiation \/ ResolvePackageBody
  <2>1. RefersToKind(Visited) = {"package"}
    BY <1>1, <1>2, <1>6 DEF IsKind, RefersToKind
  <2> QED
    BY <1>1, <1>2, <1>5, <1>6, <2>1
<1>7. CASE ResolveConfiguration \/ ResolveArchitecture
  <2>1. RefersToKind(Visited) = {"entity"}
    BY <1>3, <1>4, <1>7 DEF IsKind, RefersToKind
  <2> QED
    BY <1>3, <1>4, <1>5, <1>7, <2>1
<1> QED
  BY <1>6, <1>7 DEF Refers

LEMMA UnitRefsTypedStep ==
  ASSUME Registry, Cursor, Known, UnitRefsTyped, Adds \/ ResolveReferences \/ Resolve
  PROVE  UnitRefsTyped'
<1>1. Adds \/ ResolveReferences => UNCHANGED unit_ref
  BY DEF Adds, elabVars, refVars, ResolveReferences
<1>2. CASE UNCHANGED unit_ref
  BY <1>2 DEF UnitRefsTyped
<1>3. CASE Refers
  <2>1. PICK x \in NodeOrNone(UnitsOfKind(RefersToKind(Visited))) :
          unit_ref' = [unit_ref EXCEPT ![Visited] = x]
    BY <1>3, RefersTyped
  <2>2. unit_ref = [u \in Registrable |-> unit_ref[u]]
    BY DEF Known
  <2>3. ASSUME NEW u \in Registrable
        PROVE  unit_ref'[u] \in NodeOrNone(UnitsOfKind(RefersToKind(u)))
    BY <2>1, <2>2 DEF UnitRefsTyped
  <2> QED
    BY <2>3 DEF UnitRefsTyped
<1> QED
  BY <1>1, <1>2, <1>3, ReferencesKept

--------------------------------------------------------------------------------
(* The members of an entity are architectures, those of a package bodies.   *)
MemberKinds(o) == IF IsKind(o, {"entity"}) THEN {"architecture"} ELSE {"package_body"}
MembersTyped ==
  \A o \in Owners : \A n \in DOMAIN members[o] : IsKind(members[o][n], MemberKinds(o))

LEMMA OwnerOf ==
  ASSUME Registry, NEW v, IsSecondary(v), At(RefKey(v)) # None
  PROVE  At(RefKey(v)) \in Owners /\ IsKind(v, MemberKinds(At(RefKey(v))))
<1> DEFINE o == At(RefKey(v))
<1>1. RefKey(v)[1] = IF IsKind(v, {"architecture"}) THEN "entity" ELSE "package"
  BY DEF RefKey
<1>2. o \in Registrable /\ KindOf(o) = RefKey(v)[1]
  BY <1>1, FoundKind
<1>3. KindOf(v) \in {"architecture", "package_body"}
  BY DEF IsSecondary, IsKind, SecondaryKinds
<1> HIDE DEF o
<1>4. o \in Owners /\ IsKind(v, MemberKinds(o))
  BY <1>1, <1>2, <1>3 DEF Owners, UnitsOfKind, IsKind, MemberKinds, Registrable
<1> QED
  BY <1>4 DEF o

LEMMA MembersTypedStep ==
  ASSUME Registry, Cursor, Known, MembersOK, MembersTyped, Adds \/ ResolveReferences \/ Resolve
  PROVE  MembersTyped'
<1>1. CASE UNCHANGED members
  BY <1>1 DEF MembersTyped
<1>2. CASE AtSecondary
  <2>1. PICK v \in Registrable : IsSecondary(v) /\ Member(At(RefKey(v)), v)
    BY <1>2, SecondaryHead
  <2>2. CASE At(RefKey(v)) = None
    BY <1>1, <2>1, <2>2 DEF Member
  <2>3. CASE At(RefKey(v)) # None
    <3>1. PICK p \in Owners :
            /\ IsKind(v, MemberKinds(p))
            /\ members' = [members EXCEPT ![p] = Append(@, v)]
      BY <2>1, <2>3, OwnerOf DEF Member
    <3>2. ASSUME NEW o \in Owners, NEW n \in DOMAIN members'[o]
          PROVE  IsKind(members'[o][n], MemberKinds(o))
      <4>1. members[o] \in Seq(Registrable)
            /\ members'[o] = IF o = p THEN Append(members[o], v) ELSE members[o]
        BY <3>1 DEF MembersOK
      <4>2. CASE n \in DOMAIN members[o]
        <5>1. members'[o][n] = members[o][n]
          BY <4>1, <4>2
        <5> QED
          BY <4>2, <5>1 DEF MembersTyped
      <4>3. CASE n \notin DOMAIN members[o]
        <5>1. o = p /\ members'[o][n] = v
          BY <3>2, <4>1, <4>3
        <5> QED
          BY <3>1, <5>1
      <4> QED
        BY <4>2, <4>3
    <3> QED
      BY <3>2 DEF MembersTyped
  <2> QED
    BY <2>2, <2>3
<1>3. Adds \/ ResolveReferences => UNCHANGED members
  BY DEF Adds, elabVars, refVars, ResolveReferences
<1> QED
  BY <1>1, <1>2, <1>3, MembersKept

--------------------------------------------------------------------------------
(* The names in context references refer to contexts. *)
ContextsTyped == context_ref \in [ContextNames -> NodeOrNone(UnitsOfKind({"context"}))]

LEMMA ContextsOnlyFound ==
  ASSUME Resolve
  PROVE  \/ UNCHANGED context_ref
         \/ \E u, lib, holders : ResolveContextNames(u, lib, holders)
<1>1. EndPass \/ SkipUnit \/ EnterArchitecture => UNCHANGED context_ref
  BY DEF EndPass, SkipUnit, EnterArchitecture, refVars
<1>2. ResolvePackage \/ ResolveEntity => UNCHANGED context_ref
  BY DEF ResolvePackage, ResolveEntity, ResolveScope
<1>3. ResolveContext \/ ResolveContextReference
        => \E u, lib, holders : ResolveContextNames(u, lib, holders)
  BY DEF ResolveContext, ResolveContextReference
<1>4. Refers => UNCHANGED context_ref
  BY DEF Refers, ResolvePackageInstantiation, ResolveConfiguration,
         ResolveArchitecture, ResolvePackageBody, Refer
<1>5. ResolvesItem => UNCHANGED context_ref
  BY Zenon DEF ResolvesItem, ResolveComponentConfiguration,
               ResolveConfigurationSpecification, ResolveItem
<1>6. ResolveDirectInstantiation \/ ResolveComponentInstantiation \/ LinkComponentInstantiation
        => UNCHANGED context_ref
  BY Zenon DEF ResolveDirectInstantiation, ResolveComponentInstantiation,
               LinkComponentInstantiation, BindInstance
<1> QED
  BY <1>1, <1>2, <1>3, <1>4, <1>5, <1>6 DEF Resolve, Refers, ResolvesItem

LEMMA ContextsTypedStep ==
  ASSUME Registry, ContextsTyped, Adds \/ ResolveReferences \/ Resolve
  PROVE  ContextsTyped'
<1>1. CASE UNCHANGED context_ref
  BY <1>1 DEF ContextsTyped
<1>2. CASE \E u, lib, holders : ResolveContextNames(u, lib, holders)
  <2>1. PICK u, lib : context_ref' = [n \in DOMAIN context_ref |->
                        IF n[1] = u /\ Find("context", lib, Decl(u).contexts[n[2]]) # None
                        THEN Find("context", lib, Decl(u).contexts[n[2]]) ELSE context_ref[n]]
    BY <1>2 DEF ResolveContextNames
  <2>2. \A parts : Find("context", lib, parts) \in NodeOrNone(UnitsOfKind({"context"}))
    BY FindKind
  <2> QED
    BY <2>1, <2>2 DEF ContextsTyped
<1>3. Adds \/ ResolveReferences => UNCHANGED context_ref
  BY DEF Adds, elabVars, refVars, ResolveReferences
<1> QED
  BY <1>1, <1>2, <1>3, ContextsOnlyFound

(* The walk stays inside the vector of its pass. *)
AtInside == at <= Len(PassUnits) + 1

LEMMA AtInsideStep ==
  ASSUME Registry, Cursor, AtInside, Adds \/ ResolveReferences \/ Resolve, Registry'
  PROVE  AtInside'
<1> USE DEF callVars, unitVars
<1>1. /\ Len(primary_units) \in Nat /\ Len(secondary_units) \in Nat
      /\ Len(primary_units') \in Nat /\ Len(secondary_units') \in Nat
  <2>1. RegistryTypeOK /\ RegistryTypeOK'
    BY DEF Registry, RegistryInv
  <2>2. /\ primary_units \in Seq(Unit) /\ secondary_units \in Seq(Registrable)
        /\ primary_units' \in Seq(Unit) /\ secondary_units' \in Seq(Registrable)
    BY <2>1 DEF RegistryTypeOK
  <2> QED
    BY <2>2
<1>2. Len(PassUnits) \in Nat /\ Len(PassUnits)' \in Nat /\ at \in Nat
  BY <1>1 DEF PassUnits, Cursor
<1>3. CASE Adds
  <2>1. at' = at /\ pass' = pass /\ (pass = 0 => at = 1)
    BY <1>3 DEF Adds, elabVars, cursorVars, Cursor
  <2>2. pass # 0 => PassUnits' = PassUnits
    BY <1>3, <2>1 DEF Adds, PassUnits, vars, registryVars
  <2> QED
    BY <1>2, <2>1, <2>2 DEF AtInside
<1>4. CASE ResolveReferences
  BY <1>2, <1>4 DEF ResolveReferences, AtInside, Cursor
<1>5. CASE EndPass
  BY <1>2, <1>5 DEF EndPass, AtInside
<1>6. CASE SkipUnit \/ Handles
  <2>1. at <= Len(PassUnits) /\ at' \in {at, at + 1} /\ PassUnits' = PassUnits
    BY <1>6 DEF SkipUnit, Handles, Advance, PassUnits, vars, registryVars
  <2> QED
    BY <1>2, <2>1 DEF AtInside
<1> QED
  BY <1>3, <1>4, <1>5, <1>6, ResolveSteps

--------------------------------------------------------------------------------
(* What indications and instances refer to; that their architectures and    *)
(* configurations are such follows from what they fit.                      *)
RefTyped(r) ==
  r.component \in NodeOrNone(Components) /\ r.entity \in NodeOrNone(Entities)
RefsTyped ==
  /\ \A b \in Bindings : RefTyped(binding_ref[b])
  /\ \A i \in Instances : RefTyped(inst_ref[i])
  /\ instantiated_entities \subseteq Entities

LEMMA FoundEntityTyped ==
  ASSUME Registry
  PROVE  \A ek : EntityAt(ek) \in NodeOrNone(Entities)
<1> SUFFICES ASSUME NEW ek, EntityAt(ek) # None PROVE EntityAt(ek) \in Entities
  BY DEF NodeOrNone
<1> DEFINE k == <<"entity", ek, "">>
<1>0. EntityAt(ek) = At(k) /\ k[1] = "entity" /\ At(k) # None
  BY DEF EntityAt
<1> HIDE DEF k
<1>1. EntityAt(ek) \in Registrable /\ KindOf(EntityAt(ek)) = "entity"
  BY <1>0, FoundKind
<1> QED
  BY <1>1 DEF Entities, UnitsOfKind, IsKind, Registrable

LEMMA KnownEntityTyped ==
  ASSUME UnitRefsTyped, NEW u, RegisteredArchitecture(u) \/ IsConfiguration(u)
  PROVE  unit_ref[u] \in NodeOrNone(Entities)
<1>1. u \in Registrable /\ IsKind(u, {"architecture", "configuration"})
  BY DEF RegisteredArchitecture, IsConfiguration, Architectures, Registrable, IsKind,
         RegisteredKinds, SecondaryKinds
<1> QED
  BY <1>1 DEF UnitRefsTyped, RefersToKind, Entities

LEMMA ResolvedTyped ==
  ASSUME Registry, UnitRefsTyped, NEW lib, NEW b, b.aspect \in Aspects,
         NEW r, IsRef(r), RefTyped(r)
  PROVE  RefTyped(ResolveBinding(lib, b, r))
<1> DEFINE s == ResolveBinding(lib, b, r)
<1>1. CASE b.aspect = "entity"
  <2>1. s.component = r.component /\ s.entity = Find("entity", lib, b.name)
    BY <1>1, BindsEntity
  <2> HIDE DEF s
  <2> QED
    BY <2>1, FindIsAt, FoundEntityTyped DEF RefTyped, s
<1>2. CASE b.aspect = "configuration"
  <2> DEFINE c == Find("configuration", lib, b.name)
  <2>1. s.component = r.component /\ s.entity = IF c = None THEN r.entity ELSE unit_ref[c]
    BY <1>2, BindsConfiguration
  <2>2. c # None => IsConfiguration(c)
    BY FindIsAt, FoundConfiguration
  <2> HIDE DEF s, c
  <2> QED
    BY <2>1, <2>2, KnownEntityTyped DEF RefTyped, s
<1>3. CASE b.aspect \in {"open", "none"}
  BY <1>3, BindsNothing
<1> QED
  BY <1>1, <1>2, <1>3 DEF Aspects

LEMMA InstantiatedTyped ==
  ASSUME UnitRefsTyped, NEW r, IsRef(r), RefTyped(r),
         r.configuration # None => IsConfiguration(r.configuration)
  PROVE  RefTyped(Instantiated(r))
<1> DEFINE s == Instantiated(r)
<1>1. /\ s.component = r.component
      /\ s.entity = IF r.entity # None \/ r.configuration = None THEN r.entity
                    ELSE unit_ref[r.configuration]
  BY InstantiatedFields
<1> HIDE DEF s
<1> QED
  BY <1>1, KnownEntityTyped DEF RefTyped, s

LEMMA LinkedTyped ==
  ASSUME Registry, UnitRefsTyped, NEW r, Fits(r), RefTyped(r)
  PROVE  /\ r.configuration # None => RefTyped(FromConfiguration(r).ref)
         /\ \A lib : RefTyped(ByComponentName(lib, r).ref)
<1>0. IsRef(r)
  BY DEF Fits
<1>1. ASSUME r.configuration # None PROVE RefTyped(FromConfiguration(r).ref)
  <2> DEFINE s == FromConfiguration(r).ref
             c == r.configuration
             a == At(<<"architecture", ConfiguredKey(c), Decl(c).block>>)
             e == IF unit_ref[c] # None THEN unit_ref[c] ELSE r.entity
  <2>0. s = [component |-> r.component,
             entity |-> IF e = None /\ a # None THEN unit_ref[a] ELSE e,
             architecture |-> a, configuration |-> c]
    BY <1>0, FromConfigurationFields
  <2>1. /\ s.component = r.component
        /\ s.entity = IF e = None /\ a # None THEN unit_ref[a] ELSE e
    <3> HIDE DEF s, a, e, c
    <3> QED
      BY <2>0
  <2>2. unit_ref[c] \in NodeOrNone(Entities)
    BY <1>1, KnownEntityTyped DEF Fits
  <2>3. a # None => unit_ref[a] \in NodeOrNone(Entities)
    BY FoundArchitecture, KnownEntityTyped
  <2> HIDE DEF s, a, c
  <2> QED
    BY <2>1, <2>2, <2>3 DEF RefTyped, s
<1>2. ASSUME NEW lib PROVE RefTyped(ByComponentName(lib, r).ref)
  <2> DEFINE s == ByComponentName(lib, r).ref
  <2>1. s = r \/ (s.component = r.component /\ \E ek : s.entity = EntityAt(ek))
    <3> DEFINE ek == <<lib, ComponentId(r.component)>>
               t == [component |-> r.component, entity |-> EntityAt(ek),
                     architecture |-> At(<<"architecture", ek, "">>),
                     configuration |-> r.configuration]
    <3>1. s = r \/ s = t
      BY <1>0, ByComponentNameFields
    <3>2. t.component = r.component /\ t.entity = EntityAt(ek)
      OBVIOUS
    <3> HIDE DEF s, t, ek
    <3> QED
      BY <3>1, <3>2
  <2> HIDE DEF s
  <2> QED
    BY <2>1, FoundEntityTyped DEF RefTyped, s
<1> QED
  BY <1>1, <1>2

LEMMA NamedTyped ==
  ASSUME NEW r, IsRef(r), RefTyped(r), NEW x \in NodeOrNone(Components)
  PROVE  RefTyped([r EXCEPT !.component = x])
<1> DEFINE s == [r EXCEPT !.component = x]
<1>1. s.component = x /\ s.entity = r.entity
  BY DEF IsRef
<1> HIDE DEF s
<1> QED
  BY <1>1 DEF RefTyped, s

(* The component a name stands for in the scope of a unit. *)
LEMMA ScopedComponent ==
  ASSUME Registry, ScopesGiven, ClausesSound, ClausesTyped, NEW u \in Registrable, NEW parts
  PROVE  AsComponent(Lookup(u, parts).found) \in NodeOrNone(Components)
<1>1. Lookup(u, parts).found \in Referable
  BY LookupTyped DEF FoundTyped
<1> QED
  BY <1>1, ComponentsTold

LEMMA ItemTyped ==
  ASSUME Registry, Cursor, ScopesGiven, ClausesSound, ClausesTyped, BindingsOwned,
         UnitRefsTyped, RefsTyped, ResolvesItem
  PROVE  \A b \in Bindings : RefTyped(binding_ref'[b])
<1> DEFINE d == <<Visited, item>>
           it == Decl(d[1]).items[d[2]]
           x == AsComponent(Lookup(d[1], it.component).found)
           old == [binding_ref[d] EXCEPT !.component = x]
           new == ResolveBinding(LibOf(d[1]), BindingOf(d), old)
<1>1. binding_ref' = [binding_ref EXCEPT ![d] = new]
  BY Zenon DEF ResolvesItem, ResolveComponentConfiguration, ResolveConfigurationSpecification,
               ResolveItem, BindingOf
<1>2. Visiting(3, {"configuration"}) \/ Visiting(4, {"architecture"})
  BY DEF ResolvesItem, ResolveComponentConfiguration, ResolveConfigurationSpecification
<1>3. Visited \in Registrable
  <2>1. pass > 0 /\ at <= Len(PassUnits) /\ IsKind(Visited, RegisteredKinds)
    BY <1>2 DEF Visiting, IsKind, RegisteredKinds, PrimaryKinds, SecondaryKinds
  <2> QED
    BY <2>1, UnitsVisited
<1>4. x \in NodeOrNone(Components)
  BY <1>3, ScopedComponent
<1> HIDE DEF x
<1>5. ASSUME d \in Bindings PROVE RefTyped(new)
  <2>1. IsRef(binding_ref[d]) /\ RefTyped(binding_ref[d]) /\ BindingOf(d).aspect \in Aspects
    BY <1>5, AspectsAreKnown DEF BindingsOwned, Owned, RefsTyped
  <2>2. IsRef(old) /\ RefTyped(old)
    BY <1>4, <2>1, NamedTyped, ComponentAside
  <2> HIDE DEF old, d
  <2> QED
    BY <2>1, <2>2, ResolvedTyped
<1> HIDE DEF new, d
<1> QED
  BY <1>1, <1>5 DEF BindingsOwned, RefsTyped

LEMMA BoundTyped ==
  ASSUME InstancesFit, RefsTyped, NEW n \in Instances, NEW s, RefTyped(s), Binds(n, s),
         \A b \in Bindings : RefTyped(binding_ref'[b])
  PROVE  RefsTyped'
<1>1. \A i \in Instances : RefTyped(inst_ref'[i])
  BY DEF Binds, InstancesFit, RefsTyped
<1>2. instantiated_entities' \subseteq Entities
  BY DEF Binds, RefsTyped, RefTyped, NodeOrNone
<1> QED
  BY <1>1, <1>2 DEF RefsTyped, RefTyped

LEMMA DirectTyped ==
  ASSUME ElabInv, UnitRefsTyped, RefsTyped, ResolveDirectInstantiation,
         CurrentInstance \in Instances
  PROVE  \E s : RefTyped(s) /\ Binds(CurrentInstance, s)
<1> DEFINE n == CurrentInstance
           q == ResolveBinding(LibOf(n[1]), AspectOf(n), inst_ref[n])
<1>1. Binds(n, Instantiated(q)) /\ InstanceOf(n).unit_kind # "component"
  BY DEF ResolveDirectInstantiation, BindInstance, AspectOf, InstanceOf, Binds
<1>2. /\ Owned(LibOf(n[1]), AspectOf(n), inst_ref[n]) /\ AspectOf(n).aspect \in Aspects
      /\ IsRef(inst_ref[n]) /\ RefTyped(inst_ref[n])
  BY <1>1, AspectsAreKnown DEF ElabInv, InstancesFit, InstanceFits, RefsTyped, Owned
<1>3. Owned(LibOf(n[1]), AspectOf(n), q) /\ RefTyped(q)
  BY <1>2, BindingStaysOwned, ResolvedTyped DEF ElabInv
<1> HIDE DEF q, n
<1>4. Fits(q)
  BY <1>2, <1>3, OwnedFits DEF ElabInv
<1>5. RefTyped(Instantiated(q))
  BY <1>3, <1>4, InstantiatedTyped DEF Fits
<1> QED
  BY <1>1, <1>5 DEF n

LEMMA ComponentTyped ==
  ASSUME ElabInv, ScopesGiven, ClausesSound, ClausesTyped, UnitRefsTyped, RefsTyped,
         ResolveComponentInstantiation, CurrentInstance \in Instances
  PROVE  /\ \E s : RefTyped(s) /\ Binds(CurrentInstance, s)
         /\ \A b \in Bindings : RefTyped(binding_ref'[b])
<1> DEFINE n == CurrentInstance
           u == n[1]
           i == Decl(u).instances[n[2]]
           b == <<u, Min(Matching(u, i))>>
           x == AsComponent(Lookup(u, i.name).found)
           of(r) == Instantiated([r EXCEPT !.component = x])
<1>1. \/ /\ Matching(u, i) = {}
         /\ Binds(n, of(inst_ref[n]))
         /\ UNCHANGED binding_ref
      \/ /\ Matching(u, i) # {}
         /\ binding_ref' = [binding_ref EXCEPT ![b] =
                              ResolveBinding(LibOf(b[1]), BindingOf(b), binding_ref[b])]
         /\ Binds(n, of(binding_ref'[b]))
  BY Zenon DEF ResolveComponentInstantiation, BindInstance, Binds, BindingOf
<1>2. u \in Architectures /\ u \in Registrable
  BY PlaceOfInstance DEF Architectures, Registrable, IsKind, RegisteredKinds, SecondaryKinds
<1>3. x \in NodeOrNone(Components)
  BY <1>2, ScopedComponent DEF ElabInv
<1> HIDE DEF x
<1>4. ASSUME NEW r, Fits(r), RefTyped(r) PROVE RefTyped(of(r))
  <2> DEFINE q == [r EXCEPT !.component = x]
  <2>1. Fits(q) /\ RefTyped(q)
    BY <1>3, <1>4, NamedTyped, ComponentAside DEF Fits
  <2> HIDE DEF q
  <2>2. RefTyped(Instantiated(q))
    BY <2>1, InstantiatedTyped DEF Fits
  <2> QED
    BY <2>2 DEF q
<1> HIDE DEF of
<1>5. CASE Matching(u, i) = {}
  <2>1. Fits(inst_ref[n]) /\ RefTyped(inst_ref[n])
    BY DEF ElabInv, InstancesFit, InstanceFits, RefsTyped
  <2> QED
    BY <1>1, <1>4, <1>5, <2>1 DEF RefsTyped
<1>6. CASE Matching(u, i) # {}
  <2> DEFINE new == ResolveBinding(LibOf(b[1]), BindingOf(b), binding_ref[b])
  <2>1. b \in Bindings
    BY <1>2, <1>6, FirstMatchIsBinding
  <2> HIDE DEF b
  <2>2. /\ Owned(LibOf(b[1]), BindingOf(b), binding_ref[b]) /\ IsRef(binding_ref[b])
        /\ RefTyped(binding_ref[b]) /\ BindingOf(b).aspect \in Aspects
    BY <2>1, AspectsAreKnown DEF ElabInv, BindingsOwned, RefsTyped, Owned
  <2>3. Owned(LibOf(b[1]), BindingOf(b), new) /\ RefTyped(new)
    BY <2>2, BindingStaysOwned, ResolvedTyped DEF ElabInv
  <2>4. Fits(new)
    BY <2>2, <2>3, OwnedFits DEF ElabInv
  <2> HIDE DEF new
  <2>5. binding_ref' = [binding_ref EXCEPT ![b] = new] /\ Binds(n, of(binding_ref'[b]))
    BY <1>1, <1>6 DEF new
  <2>6. binding_ref'[b] = new /\ \A d \in Bindings : RefTyped(binding_ref'[d])
    BY <2>1, <2>3, <2>5 DEF ElabInv, BindingsOwned, RefsTyped
  <2>7. RefTyped(of(new)) /\ Binds(n, of(new))
    BY <1>4, <2>3, <2>4, <2>5, <2>6
  <2> QED
    BY <2>6, <2>7
<1> QED
  BY <1>5, <1>6

LEMMA LinkTyped ==
  ASSUME ElabInv, UnitRefsTyped, RefsTyped, LinkComponentInstantiation,
         CurrentInstance \in Instances
  PROVE  \E s : RefTyped(s) /\ Binds(CurrentInstance, s)
<1> DEFINE n == CurrentInstance
           lib == LibOf(n[1])
           i == InstanceOf(n)
           r == Relink(lib, i, inst_ref[n]).ref
<1>1. PICK bound :
        /\ Binds(n, bound.ref)
        /\ bound = CASE r.configuration # None -> FromConfiguration(r)
                     [] r.configuration = None /\ NeedsDefault(i, r) ->
                          ByComponentName(lib, r)
                     [] OTHER -> [ref |-> r, misses |-> <<>>]
  BY Zenon DEF LinkComponentInstantiation, BindInstance, InstanceOf, Binds
<1>2. Fits(r)
  BY RelinkFits DEF ElabInv, InstancesFit, InstanceFits
<1>3. RefTyped(r)
  <2>1. IsRef(inst_ref[n]) /\ RefTyped(inst_ref[n])
    BY DEF ElabInv, InstancesFit, InstanceFits, Fits, RefsTyped
  <2>2. r = inst_ref[n] \/ \E c : r = [inst_ref[n] EXCEPT !.configuration = c]
    BY DEF Relink
  <2>3. ASSUME NEW c, r = [inst_ref[n] EXCEPT !.configuration = c]
        PROVE  r.component = inst_ref[n].component /\ r.entity = inst_ref[n].entity
    BY <2>1, <2>3 DEF IsRef
  <2> HIDE DEF r
  <2> QED
    BY <2>1, <2>2, <2>3 DEF RefTyped
<1> HIDE DEF r
<1>4. RefTyped(bound.ref)
  <2>1. CASE r.configuration # None
    BY <1>1, <1>2, <1>3, <2>1, LinkedTyped DEF ElabInv
  <2>2. CASE r.configuration = None /\ NeedsDefault(i, r)
    BY <1>1, <1>2, <1>3, <2>2, LinkedTyped DEF ElabInv
  <2>3. CASE r.configuration = None /\ ~NeedsDefault(i, r)
    BY <1>1, <1>3, <2>3
  <2> QED
    BY <2>1, <2>2, <2>3
<1> QED
  BY <1>1, <1>4

LEMMA RefsTypedStep ==
  ASSUME ElabInv, ItemInside, ScopesGiven, ClausesSound, ClausesTyped, UnitRefsTyped,
         RefsTyped, Adds \/ ResolveReferences \/ Resolve
  PROVE  RefsTyped'
<1>0. Registry /\ Cursor /\ BindingsOwned /\ InstancesFit
  BY DEF ElabInv
<1>1. CASE Adds \/ ResolveReferences
  <2>1. UNCHANGED <<binding_ref, inst_ref>> /\ instantiated_entities' \in {instantiated_entities, {}}
    BY <1>1 DEF Adds, elabVars, refVars, ResolveReferences
  <2> QED
    BY <2>1 DEF RefsTyped, RefTyped
<1>2. CASE Resolve
  <2> DEFINE n == CurrentInstance
             OneBound == \/ ResolveDirectInstantiation \/ ResolveComponentInstantiation
                         \/ LinkComponentInstantiation
  <2>1. \/ UNCHANGED <<inst_ref, instantiated_entities>>
        \/ n \in Instances /\ OneBound
    BY <1>2, BindingSteps
  <2>2. CASE OneBound /\ n \in Instances
    <3>1. \E s : RefTyped(s) /\ Binds(n, s)
      BY <2>2, DirectTyped, ComponentTyped, LinkTyped
    <3>2. \A b \in Bindings : RefTyped(binding_ref'[b])
      <4>1. ResolveDirectInstantiation \/ LinkComponentInstantiation => UNCHANGED binding_ref
        BY DEF ResolveDirectInstantiation, LinkComponentInstantiation
      <4> QED
        BY <2>2, <4>1, ComponentTyped DEF RefsTyped
    <3> QED
      BY <1>0, <2>2, <3>1, <3>2, BoundTyped
  <2>3. CASE UNCHANGED <<inst_ref, instantiated_entities>> /\ ~(OneBound /\ n \in Instances)
    <3>1. ResolvesItem \/ UNCHANGED binding_ref
      BY <1>2, <2>3, BindingPlace, ReferencesKept
    <3>2. \A b \in Bindings : RefTyped(binding_ref'[b])
      BY <1>0, <3>1, ItemTyped DEF RefsTyped
    <3> QED
      BY <2>3, <3>2 DEF RefsTyped, RefTyped
  <2> QED
    BY <2>1, <2>2, <2>3
<1> QED
  BY <1>1, <1>2

--------------------------------------------------------------------------------
(* The inductive invariant: what the tables refer to is of the right kind   *)
(* only because the registry files a unit under a key of its kind, because  *)
(* what was found once fits, and because lookups return what they may.      *)
TypedInv ==
  /\ RunInv /\ MembersInv
  /\ AtInside /\ runs <= MaxRuns
  /\ ClausesTyped /\ UnitRefsTyped /\ MembersTyped /\ ContextsTyped /\ RefsTyped

LEMMA TypedInitInv == Init /\ ElabInit => TypedInv
<1> SUFFICES ASSUME Init, ElabInit PROVE TypedInv
  OBVIOUS
<1>1. RunInv /\ MembersInv
  BY RunInitInv, MembersInitInv
<1>2. AtInside /\ runs <= MaxRuns
  <2>1. Len(PassUnits) = 0
    BY DEF Init, ElabInit, PassUnits
  <2> QED
    BY <2>1, RunsAssumption DEF ElabInit, AtInside
<1>3. None \in Referable /\ \A S : None \in NodeOrNone(S)
  BY DEF Referable, NodeOrNone
<1>4. ClausesTyped
  BY <1>3 DEF ElabInit, ClausesTyped, ClauseTyped, Unresolved
<1>5. UnitRefsTyped
  BY <1>3 DEF ElabInit, UnitRefsTyped
<1>6. MembersTyped
  <2>1. \A o \in Owners : members[o] = <<>>
    BY DEF ElabInit, Owners
  <2> QED
    BY <2>1 DEF MembersTyped
<1>7. ContextsTyped
  BY <1>3 DEF ElabInit, ContextsTyped
<1>8. RefsTyped
  BY <1>3 DEF ElabInit, RefsTyped, RefTyped, Unbound
<1> QED
  BY <1>1, <1>2, <1>4, <1>5, <1>6, <1>7, <1>8 DEF TypedInv

LEMMA TypedInvStep == TypedInv /\ [ElabNext]_allVars => TypedInv'
<1> SUFFICES ASSUME TypedInv, [ElabNext]_allVars PROVE TypedInv'
  OBVIOUS
<1>1. Adds \/ ResolveReferences \/ Resolve
  BY ElabSteps
<1>2. RunInv' /\ MembersInv'
  BY RunInvStep, MembersInvStep DEF TypedInv
<1>3. /\ ElabInv /\ Registry /\ Registry' /\ Cursor /\ Known /\ ItemInside
      /\ ScopesGiven /\ ClausesSound /\ MembersOK
  BY <1>2 DEF TypedInv, RunInv, MembersInv, BoundInv, PassInv, ElabInv
<1>4. runs' <= MaxRuns
  <2>1. runs \in Nat /\ runs <= MaxRuns /\ MaxRuns \in Nat
    BY <1>3, RunsAssumption DEF MembersOK, TypedInv
  <2>2. Adds => runs' = runs
    BY DEF Adds, elabVars
  <2>3. ResolveReferences => runs < MaxRuns /\ runs' = runs + 1
    BY DEF ResolveReferences
  <2>4. Resolve => runs' = runs
    BY ResolveSteps DEF EndPass, SkipUnit, Handles, Advance
  <2> QED
    BY <1>1, <2>1, <2>2, <2>3, <2>4
<1>5. AtInside' /\ ClausesTyped' /\ UnitRefsTyped'
  BY <1>1, <1>3, AtInsideStep, ClausesTypedStep, UnitRefsTypedStep DEF TypedInv
<1>6. MembersTyped' /\ ContextsTyped' /\ RefsTyped'
  BY <1>1, <1>3, MembersTypedStep, ContextsTypedStep, RefsTypedStep DEF TypedInv
<1> QED
  BY <1>2, <1>4, <1>5, <1>6 DEF TypedInv

LEMMA RefFieldsTyped ==
  ASSUME NEW r, Fits(r), RefTyped(r)
  PROVE  r \in Refs
<1>1. r.architecture \in NodeOrNone(Architectures)
  BY DEF Fits, RegisteredArchitecture, NodeOrNone
<1>2. r.configuration \in NodeOrNone(UnitsOfKind({"configuration"}))
  BY DEF Fits, IsConfiguration, NodeOrNone, UnitsOfKind, Registrable
<1>3. r = [component |-> r.component, entity |-> r.entity,
           architecture |-> r.architecture, configuration |-> r.configuration]
  BY DEF Fits, IsRef
<1> QED
  BY <1>1, <1>2, <1>3 DEF RefTyped, Refs

(* After any step of any run, over any files: every reference points at a   *)
(* node of the kind its C++ type says, the members of a unit are of the     *)
(* kind they are kept as, and the walk is inside the vectors it iterates.   *)
THEOREM ElabTypeCorrect == ElabSpec => []ElabTypeOK
<1>1. ASSUME TypedInv PROVE ElabTypeOK
  <2>1. /\ ElabInv /\ Registry /\ Cursor /\ MembersOK /\ BindingsOwned /\ InstancesFit
        /\ RefsTyped
    BY <1>1 DEF TypedInv, RunInv, MembersInv, ElabInv
  <2>2. pass \in 0..5 /\ item \in Nat
    BY <2>1 DEF Cursor
  <2>3. at \in 1..(Len(PassUnits) + 1)
    <3>1. RegistryTypeOK
      BY <2>1 DEF Registry, RegistryInv
    <3>2. Len(PassUnits) \in Nat
      BY <3>1 DEF RegistryTypeOK, PassUnits
    <3> QED
      BY <1>1, <2>1, <3>2 DEF Cursor, TypedInv, AtInside
  <2>4. runs \in 0..MaxRuns
    BY <1>1, <2>1, RunsAssumption DEF MembersOK, TypedInv
  <2>5. \A u \in Registrable :
          unit_ref[u] \in NodeOrNone(UnitsOfKind(
            IF IsKind(u, {"architecture", "configuration"}) THEN {"entity"} ELSE {"package"}))
    BY <1>1 DEF TypedInv, UnitRefsTyped, RefersToKind
  <2>6. \A o \in DOMAIN members : \A n \in DOMAIN members[o] :
          IsKind(members[o][n],
                 IF IsKind(o, {"entity"}) THEN {"architecture"} ELSE {"package_body"})
    BY <1>1, <2>1 DEF TypedInv, MembersTyped, MembersOK, MemberKinds
  <2>7. /\ context_ref \in [ContextNames -> NodeOrNone(UnitsOfKind({"context"}))]
        /\ \A c \in UsedPackages :
             clause_ref[c].package \in NodeOrNone(UnitsOfKind({"package"}))
    BY <1>1 DEF TypedInv, ContextsTyped, ClausesTyped, ClauseTyped
  <2>8. binding_ref \in [Bindings -> Refs]
    <3>1. \A b \in Bindings : binding_ref[b] \in Refs
      BY <2>1, AspectsAreKnown, OwnedFits, RefFieldsTyped DEF BindingsOwned, RefsTyped
    <3> QED
      BY <2>1, <3>1 DEF BindingsOwned
  <2>9. inst_ref \in [Instances -> Refs]
    <3>1. \A i \in Instances : inst_ref[i] \in Refs
      BY <2>1, RefFieldsTyped DEF InstancesFit, InstanceFits, RefsTyped
    <3> QED
      BY <2>1, <3>1 DEF InstancesFit
  <2>10. instantiated_entities \subseteq Entities
    BY <2>1 DEF RefsTyped
  <2> QED
    BY <2>2, <2>3, <2>4, <2>5, <2>6, <2>7, <2>8, <2>9, <2>10 DEF ElabTypeOK
<1> QED
  BY <1>1, TypedInitInv, TypedInvStep, PTL DEF ElabSpec

--------------------------------------------------------------------------------
(* What is said of a name: that it is missing as a unit of some kind. *)
SaidIn(ms, kind, name) ==
  \E n \in DOMAIN ms :
    ms[n].what = "unresolved" /\ ms[n].key[1] = kind /\ ms[n].key[2] = name
SaidOf(kind, name) == SaidIn(diagnostics, kind, name)

LEMMA SaidInBoth ==
  ASSUME NEW s, IsSeq(s), NEW t, IsSeq(t), NEW kind, NEW name,
         SaidIn(s, kind, name) \/ SaidIn(t, kind, name)
  PROVE  SaidIn(s \o t, kind, name)
<1> DEFINE both == s \o t
<1>1. /\ \A n \in DOMAIN s : \E k \in DOMAIN both : both[k] = s[n]
      /\ \A n \in DOMAIN t : \E k \in DOMAIN both : both[k] = t[n]
  BY Concatenated
<1> HIDE DEF both
<1>2. SaidIn(both, kind, name)
  <2>1. CASE SaidIn(s, kind, name)
    <3>1. PICK n \in DOMAIN s :
            s[n].what = "unresolved" /\ s[n].key[1] = kind /\ s[n].key[2] = name
      BY <2>1 DEF SaidIn
    <3> QED
      BY <1>1, <3>1 DEF SaidIn
  <2>2. CASE SaidIn(t, kind, name)
    <3>1. PICK n \in DOMAIN t :
            t[n].what = "unresolved" /\ t[n].key[1] = kind /\ t[n].key[2] = name
      BY <2>2 DEF SaidIn
    <3> QED
      BY <1>1, <3>1 DEF SaidIn
  <2> QED
    BY <2>1, <2>2
<1> QED
  BY <1>2 DEF both

LEMMA MissesSaid ==
  ASSUME NEW k
  PROVE  /\ IsSeq(Misses(k))
         /\ At(k) = None /\ k[2][2] # "" => SaidIn(Misses(k), k[1], k[2])
<1>1. IsSeq(Misses(k))
  BY Sequences DEF Misses
<1>2. ASSUME At(k) = None, k[2][2] # "" PROVE SaidIn(Misses(k), k[1], k[2])
  <2>1. Misses(k) = <<Missing(k)>>
    BY <1>2 DEF Misses
  <2>2. 1 \in DOMAIN <<Missing(k)>> /\ <<Missing(k)>>[1] = Missing(k)
    OBVIOUS
  <2>3. Missing(k).what = "unresolved" /\ Missing(k).key = k
    BY DEF Missing
  <2> HIDE DEF Missing
  <2> QED
    BY <2>1, <2>2, <2>3 DEF SaidIn
<1> QED
  BY <1>1, <1>2

LEMMA BindingMissesAreSeq ==
  ASSUME NEW lib, NEW b, b.aspect \in Aspects
  PROVE  IsSeq(BindingMisses(lib, b))
<1> DEFINE e == FindMisses("entity", lib, b.name)
           a == Misses(NameKey("architecture", lib, b.name, b.arch))
           c == FindMisses("configuration", lib, b.name)
<1>1. IsSeq(e) /\ IsSeq(a) /\ IsSeq(c) /\ IsSeq(<<>>)
  BY MissesSaid, Sequences DEF FindMisses
<1>2. \/ b.aspect = "entity" /\ BindingMisses(lib, b) = e \o a
      \/ b.aspect = "configuration" /\ BindingMisses(lib, b) = c
      \/ b.aspect \in {"open", "none"} /\ BindingMisses(lib, b) = <<>>
  BY DEF BindingMisses, Aspects
<1> HIDE DEF e, a, c
<1> QED
  BY <1>1, <1>2, Sequences

(* A step that says more takes nothing back. *)
LEMMA MoreIsSaid ==
  ASSUME IsSeq(diagnostics), NEW ms, IsSeq(ms), diagnostics' = diagnostics \o ms
  PROVE  /\ IsSeq(diagnostics)'
         /\ \A kind, name :
              SaidOf(kind, name) \/ SaidIn(ms, kind, name) => SaidOf(kind, name)'
<1>1. IsSeq(diagnostics')
  BY Sequences
<1>2. \A kind, name :
        SaidIn(diagnostics, kind, name) \/ SaidIn(ms, kind, name)
          => SaidIn(diagnostics', kind, name)
  BY SaidInBoth
<1> QED
  BY <1>1, <1>2 DEF SaidOf, IsSeq, SaidIn

LEMMA ItemPlace ==
  ASSUME Registry, Cursor, ItemInside, ResolvesItem
  PROVE  ResolveItem(<<Visited, item>>) /\ <<Visited, item>> \in Bindings
<1>1. /\ ResolveItem(<<Visited, item>>)
      /\ \/ Visiting(3, {"configuration"}) /\ item > 0
         \/ Visiting(4, {"architecture"}) /\ item \in 1..Specs(Visited)
  BY DEF ResolvesItem, ResolveComponentConfiguration, ResolveConfigurationSpecification
<1>2. /\ pass > 0 /\ at <= Len(PassUnits) /\ item \in Nat
      /\ KindOf(Visited) \in {"configuration", "architecture"}
  BY <1>1 DEF Visiting, IsKind, Cursor
<1>3. Visited \in UnitsOfKind({"architecture", "configuration"})
  BY <1>2, UnitsVisited DEF UnitsOfKind, IsKind
<1>4. item \in 1..Len(Decl(Visited).items)
  <2>1. CASE Visiting(3, {"configuration"}) /\ item > 0
    <3>1. item <= ItemsIn(Visited) /\ IsKind(Visited, {"configuration"})
      BY <2>1 DEF ItemInside, Visiting
    <3>2. ~IsKind(Visited, {"architecture"})
      BY <3>1 DEF IsKind
    <3>3. ItemsIn(Visited) = Len(Decl(Visited).items)
      BY <3>1, <3>2, Zenon DEF ItemsIn
    <3>4. Len(Decl(Visited).items) \in Nat
      BY <1>3, ItemsAssumption
    <3> QED
      BY <1>2, <2>1, <3>1, <3>3, <3>4
  <2>2. CASE Visiting(4, {"architecture"}) /\ item \in 1..Specs(Visited)
    BY <2>2 DEF Specs, Visiting
  <2> QED
    BY <1>1, <2>1, <2>2
<1> QED
  BY <1>1, <1>3, <1>4 DEF Bindings, Numbered

LEMMA ReferSays ==
  ASSUME Registry, Cursor, ScopesGiven, ClausesSound, NEW kind, NEW parts,
         NEW block \in {<<>>, <<Visited>>}, NEW kinds \in SUBSET RegisteredKinds,
         NEW p \in {3, 4}, Visiting(p, kinds),
         block = <<>> \/ kinds = {"configuration"},
         Refer(Visited, kind, parts, block)
  PROVE  LET found == FindMisses(kind, LibOf(Visited), parts) IN
         \E ms : /\ IsSeq(ms) /\ diagnostics' = diagnostics \o ms
                 /\ \A k, name : SaidIn(found, k, name) => SaidIn(ms, k, name)
<1> DEFINE u == Visited
           uses == UseMisses(UnitUseClauses(u))
           found == FindMisses(kind, LibOf(u), parts)
           last == UseMisses(block)
<1>1. diagnostics' = diagnostics \o (uses \o found \o last)
  BY Zenon DEF Refer, Step
<1>2. u \in Registrable
  <2>1. pass > 0 /\ at <= Len(PassUnits) /\ IsKind(Visited, RegisteredKinds)
    BY DEF Visiting, IsKind
  <2> QED
    BY <2>1, UnitsVisited
<1>3. UnitUseClauses(u) \in Seq(UsedNodes) /\ block \in Seq(UsedNodes)
  <2>1. /\ UnitUseClauses(u) \in Seq(UsedNodes)
        /\ IsKind(u, {"configuration", "context"}) => <<u>> \in Seq(UsedNodes)
    BY <1>2, ScopeNodes
  <2>2. block # <<>> => IsKind(u, {"configuration", "context"})
    BY DEF Visiting, IsKind
  <2>3. <<>> \in Seq(UsedNodes)
    OBVIOUS
  <2> QED
    BY <2>1, <2>2, <2>3
<1>4. IsSeq(uses) /\ IsSeq(last)
  BY <1>3, UseMissesAreSeq
<1>5. IsSeq(found)
  BY MissesSaid DEF FindMisses
<1> HIDE DEF uses, found, last
<1>6. IsSeq(uses \o found) /\ IsSeq(uses \o found \o last)
  BY <1>4, <1>5, Sequences
<1>7. \A k, name : SaidIn(found, k, name) => SaidIn(uses \o found \o last, k, name)
  BY <1>4, <1>5, <1>6, SaidInBoth
<1> QED
  BY <1>1, <1>6, <1>7 DEF found

(* Whatever step a run takes, it says a sequence of misses or nothing. *)
Says == UNCHANGED diagnostics \/ \E ms : IsSeq(ms) /\ diagnostics' = diagnostics \o ms

LEMMA HeadsSay ==
  ASSUME Registry, Cursor, ScopesGiven, ClausesSound,
         \/ ResolvePackage \/ ResolveEntity \/ ResolveContext \/ ResolveContextReference
         \/ Refers
  PROVE  Says
<1>1. ASSUME NEW p, NEW kind \in RegisteredKinds, Visiting(p, {kind}), p > 0
      PROVE  Visited \in Registrable /\ IsKind(Visited, {kind})
  <2>1. pass > 0 /\ at <= Len(PassUnits) /\ IsKind(Visited, RegisteredKinds)
    BY <1>1 DEF Visiting, IsKind
  <2> QED
    BY <1>1, <2>1, UnitsVisited DEF Visiting
<1>2. {"package", "entity", "context", "package_instantiation", "configuration",
       "architecture", "package_body"} \subseteq RegisteredKinds
  BY DEF RegisteredKinds, PrimaryKinds, SecondaryKinds
<1>3. CASE ResolvePackage \/ ResolveEntity
  <2>1. /\ Visiting(1, {"package"}) \/ Visiting(3, {"entity"})
        /\ diagnostics' = diagnostics \o UseMisses(UnitUseClauses(Visited))
    BY <1>3, Zenon DEF ResolvePackage, ResolveEntity, ResolveScope, AtHead, Step
  <2>2. Visited \in Registrable
    BY <1>1, <1>2, <2>1
  <2>3. IsSeq(UseMisses(UnitUseClauses(Visited)))
    BY <2>2, ScopeNodes, UseMissesAreSeq
  <2> QED
    BY <2>1, <2>3 DEF Says
<1>4. CASE ResolveContext \/ ResolveContextReference
  <2>0. \E lib, holders :
          /\ \/ Visiting(2, {"context"}) /\ holders = <<Visited>>
             \/ Visiting(3, {"context_reference"}) /\ holders = <<>>
          /\ ResolveContextNames(Visited, lib, holders)
    BY <1>4 DEF ResolveContext, ResolveContextReference, AtHead
  <2>1. PICK lib, holders :
          /\ \/ Visiting(2, {"context"}) /\ holders = <<Visited>>
             \/ Visiting(3, {"context_reference"}) /\ holders = <<>>
          /\ ResolveContextNames(Visited, lib, holders)
    BY <2>0
  <2> DEFINE names == Decl(Visited).contexts
             miss == [i \in 1..Len(names) |-> FindMisses("context", lib, names[i])]
  <2>2. diagnostics' = diagnostics \o (UseMisses(holders) \o FlattenSeq(miss))
    BY <2>1, Zenon DEF ResolveContextNames, Step
  <2>3. holders \in Seq(UsedNodes)
    <3>1. CASE Visiting(2, {"context"}) /\ holders = <<Visited>>
      <4>1. Visited \in Registrable /\ IsKind(Visited, {"configuration", "context"})
        BY <1>1, <1>2, <3>1 DEF IsKind
      <4>2. <<Visited>> \in Seq(UsedNodes)
        BY <4>1, ScopeNodes
      <4> QED
        BY <3>1, <4>2
    <3>2. CASE holders = <<>>
      BY <3>2
    <3> QED
      BY <2>1, <3>1, <3>2
  <2>4. IsSeq(UseMisses(holders))
    BY <2>3, UseMissesAreSeq
  <2>5. IsSeq(FlattenSeq(miss))
    <3>1. pass > 0 /\ at <= Len(PassUnits) /\ KindOf(Visited) \in {"context", "context_reference"}
      BY <2>1 DEF Visiting, IsKind
    <3>2. Visited \in UnitsOfKind({"context", "context_reference"})
      BY <3>1, UnitsVisited DEF UnitsOfKind, IsKind
    <3>3. Len(names) \in Nat
      BY <3>2, ItemsAssumption
    <3>4. \A i \in 1..Len(names) : IsSeq(miss[i])
      BY MissesSaid DEF FindMisses
    <3>5. miss = [i \in 1..Len(names) |-> miss[i]]
      OBVIOUS
    <3> HIDE DEF names, miss
    <3> QED
      BY <3>3, <3>4, <3>5, FlattenedSequences
  <2> HIDE DEF miss
  <2>6. IsSeq(UseMisses(holders) \o FlattenSeq(miss))
    BY <2>4, <2>5, Sequences
  <2> QED
    BY <2>2, <2>6 DEF Says
<1>5. CASE Refers
  <2>1. ASSUME NEW kind, NEW parts, NEW block \in {<<>>, <<Visited>>},
               NEW p \in {3, 4}, NEW of \in RegisteredKinds, Visiting(p, {of}),
               block = <<>> \/ of = "configuration", Refer(Visited, kind, parts, block)
        PROVE  Says
    <3>1. {of} \in SUBSET RegisteredKinds /\ (block = <<>> \/ {of} = {"configuration"})
      BY <2>1
    <3> QED
      BY <2>1, <3>1, ReferSays DEF Says
  <2>2. <<>> \in {<<>>, <<Visited>>} /\ <<Visited>> \in {<<>>, <<Visited>>}
    OBVIOUS
  <2>3. CASE ResolvePackageInstantiation
    <3>1. Visiting(3, {"package_instantiation"}) /\ \E parts : Refer(Visited, "package", parts, <<>>)
      BY <2>3 DEF ResolvePackageInstantiation, AtHead
    <3> QED
      BY <1>2, <2>1, <2>2, <3>1
  <2>4. CASE ResolveConfiguration
    <3>1. Visiting(3, {"configuration"}) /\ \E parts : Refer(Visited, "entity", parts, <<Visited>>)
      BY <2>4 DEF ResolveConfiguration, AtHead
    <3> QED
      BY <1>2, <2>1, <2>2, <3>1
  <2>5. CASE ResolveArchitecture
    <3>1. Visiting(4, {"architecture"}) /\ \E parts : Refer(Visited, "entity", parts, <<>>)
      BY <2>5 DEF ResolveArchitecture, AtHead
    <3> QED
      BY <1>2, <2>1, <2>2, <3>1
  <2>6. CASE ResolvePackageBody
    <3>1. Visiting(4, {"package_body"}) /\ \E parts : Refer(Visited, "package", parts, <<>>)
      BY <2>6 DEF ResolvePackageBody, AtHead
    <3> QED
      BY <1>2, <2>1, <2>2, <3>1
  <2> QED
    BY <1>5, <2>3, <2>4, <2>5, <2>6 DEF Refers
<1> QED
  BY <1>3, <1>4, <1>5

(* What a step says that looks up a component name. *)
LEMMA LookupSays ==
  ASSUME Registry, ScopesGiven, ClausesSound, ClausesTyped, NEW u \in Registrable, NEW parts,
         NEW misses, IsSeq(misses), LookupStep(Lookup(u, parts), misses)
  PROVE  \E ms : /\ IsSeq(ms) /\ diagnostics' = diagnostics \o ms
                 /\ \A kind, name : SaidIn(misses, kind, name) => SaidIn(ms, kind, name)
<1> DEFINE s == Lookup(u, parts)
           own == s.misses
           uses == UseMisses(s.visited)
<1>1. diagnostics' = diagnostics \o (own \o uses \o misses)
  BY Zenon DEF LookupStep, Step
<1>2. FoundTyped(s)
  BY LookupTyped
<1>3. IsSeq(own) /\ IsSeq(uses)
  <2> HIDE DEF s
  <2> QED
    BY <1>2, UseMissesAreSeq DEF FoundTyped
<1> HIDE DEF own, uses
<1>4. IsSeq(own \o uses) /\ IsSeq(own \o uses \o misses)
  BY <1>3, Sequences
<1>5. \A kind, name : SaidIn(misses, kind, name) => SaidIn(own \o uses \o misses, kind, name)
  BY <1>4, SaidInBoth
<1> QED
  BY <1>1, <1>4, <1>5

LEMMA ItemSays ==
  ASSUME Registry, Cursor, ItemInside, ScopesGiven, ClausesSound, ClausesTyped, ResolvesItem
  PROVE  LET d == <<Visited, item>>
             misses == BindingMisses(LibOf(d[1]), BindingOf(d))
         IN  /\ d \in Bindings
             /\ \E ms : /\ IsSeq(ms) /\ diagnostics' = diagnostics \o ms
                        /\ \A kind, name : SaidIn(misses, kind, name) => SaidIn(ms, kind, name)
<1> DEFINE d == <<Visited, item>>
           misses == BindingMisses(LibOf(d[1]), BindingOf(d))
<1>1. ResolveItem(d) /\ d \in Bindings
  BY ItemPlace
<1>2. d[1] \in Registrable /\ BindingOf(d).aspect \in Aspects
  BY <1>1, PlaceOfBinding, AspectsAreKnown
<1>3. IsSeq(misses)
  BY <1>2, BindingMissesAreSeq
<1> HIDE DEF d
<1>4. PICK parts : LookupStep(Lookup(d[1], parts), misses)
  BY <1>1, Zenon DEF ResolveItem, BindingOf
<1> HIDE DEF misses
<1>5. \E ms : /\ IsSeq(ms) /\ diagnostics' = diagnostics \o ms
              /\ \A kind, name : SaidIn(misses, kind, name) => SaidIn(ms, kind, name)
  BY <1>2, <1>3, <1>4, LookupSays
<1> QED
  BY <1>1, <1>5 DEF d, misses

--------------------------------------------------------------------------------
(* An entity without an architecture: the default architecture, or the one  *)
(* that was named, is missing.                                              *)
Bare(r) == r.configuration = None /\ r.entity # None /\ r.architecture = None
SaidAfter(ms, kind, name) == SaidOf(kind, name) \/ SaidIn(ms, kind, name)
BareSaidAfter(ms, r) == Bare(r) => SaidAfter(ms, "architecture", KeyOf(r.entity)[2])

BareSaid ==
  /\ \A b \in Bindings : BareSaidAfter(<<>>, binding_ref[b])
  /\ \A i \in Instances : BareSaidAfter(<<>>, inst_ref[i])

LEMMA EntityIsNamed ==
  ASSUME Registry, NEW ek, EntityAt(ek) # None
  PROVE  KeyOf(EntityAt(ek))[2] = ek /\ ek[2] # ""
<1> DEFINE e == EntityAt(ek)
           k == <<"entity", ek, "">>
<1>1. e = At(k) /\ k[1] = "entity"
  BY DEF EntityAt
<1> HIDE DEF k
<1>2. e \in Registrable /\ KindOf(e) = "entity"
  BY <1>1, FoundKind
<1>3. <<LibOf(e), Decl(e).id>> = ek
  BY FoundEntity
<1>4. Decl(e).id # ""
  BY <1>2, IdentifiersAssumption DEF UnitsOfKind, IsKind, Registrable
<1> HIDE DEF e
<1>5. KeyOf(e) = <<"entity", ek, "">>
  BY <1>2, <1>3 DEF KeyOf
<1>6. KeyOf(e)[2] = ek
  <2> HIDE DEF KeyOf
  <2>1. <<"entity", ek, "">>[2] = ek
    OBVIOUS
  <2> QED
    BY <1>5, <2>1
<1>7. ek[2] = Decl(e).id
  BY <1>3
<1> QED
  BY <1>4, <1>6, <1>7 DEF e

(* A binding that names an entity says so if its architecture is missing.   *)
LEMMA BindingSaysBare ==
  ASSUME Registry, Known, NEW lib, NEW b, b.aspect \in Aspects, NEW r, Owned(lib, b, r),
         NEW ms, \A kind, name : SaidIn(BindingMisses(lib, b), kind, name) => SaidIn(ms, kind, name)
  PROVE  BareSaidAfter(ms, ResolveBinding(lib, b, r))
<1> DEFINE q == ResolveBinding(lib, b, r)
           name == LibraryAndDesignName(lib, b.name)
           k == NameKey("architecture", lib, b.name, b.arch)
<1> SUFFICES ASSUME Bare(q) PROVE SaidIn(BindingMisses(lib, b), "architecture", KeyOf(q.entity)[2])
  BY DEF BareSaidAfter, SaidAfter
<1>1. Owned(lib, b, q) /\ IsRef(r)
  BY BindingStaysOwned DEF Owned
<1>2. b.aspect = "entity"
  <2> HIDE DEF q
  <2> QED
    BY <1>1 DEF Owned, AboutConfiguration, Bare, Aspects
<1>3. q.entity = EntityAt(name) /\ q.architecture = At(k)
  BY <1>1, <1>2, BindsEntity, FindIsAt
<1>4. k[1] = "architecture" /\ k[2] = name
  BY DEF NameKey
<1>5. BindingMisses(lib, b) = FindMisses("entity", lib, b.name) \o Misses(k)
  BY <1>2 DEF BindingMisses
<1> HIDE DEF q, k, name
<1>6. KeyOf(q.entity)[2] = name /\ name[2] # ""
  BY <1>3, EntityIsNamed DEF Bare
<1>7. SaidIn(Misses(k), "architecture", name)
  BY <1>3, <1>4, <1>6, MissesSaid DEF Bare
<1>8. IsSeq(FindMisses("entity", lib, b.name)) /\ IsSeq(Misses(k))
  BY MissesSaid DEF FindMisses
<1> QED
  BY <1>5, <1>6, <1>7, <1>8, SaidInBoth

LEMMA InstantiatedBare ==
  ASSUME NEW r, IsRef(r), NEW ms, BareSaidAfter(ms, r)
  PROVE  /\ BareSaidAfter(ms, Instantiated(r))
         /\ Instantiated(r).component = r.component
         /\ Instantiated(r).configuration = r.configuration
<1> DEFINE s == Instantiated(r)
<1>1. /\ s.component = r.component /\ s.configuration = r.configuration
      /\ s.architecture = r.architecture
      /\ r.configuration = None => s.entity = r.entity
  BY InstantiatedFields
<1> HIDE DEF s
<1>2. Bare(s) => Bare(r) /\ s.entity = r.entity
  BY <1>1 DEF Bare
<1> QED
  BY <1>1, <1>2 DEF BareSaidAfter, s

(* The component of a reference has no part in it. *)
LEMMA ComponentBare ==
  ASSUME NEW r, IsRef(r), NEW ms, BareSaidAfter(ms, r), NEW x
  PROVE  LET s == [r EXCEPT !.component = x] IN
         IsRef(s) /\ BareSaidAfter(ms, s) /\ s.configuration = r.configuration
<1> DEFINE s == [r EXCEPT !.component = x]
<1>1. /\ IsRef(s) /\ s.configuration = r.configuration
      /\ s.architecture = r.architecture /\ s.entity = r.entity
  BY ComponentAside
<1> HIDE DEF s
<1>2. BareSaidAfter(ms, s)
  BY <1>1 DEF BareSaidAfter, Bare
<1> QED
  BY <1>1, <1>2 DEF s

(* What is said already is said after any step. *)
LEMMA AlreadySaid ==
  ASSUME NEW r, BareSaidAfter(<<>>, r), NEW ms
  PROVE  BareSaidAfter(ms, r)
<1>1. \A kind, name : ~SaidIn(<<>>, kind, name)
  BY DEF SaidIn
<1> QED
  BY <1>1 DEF BareSaidAfter, SaidAfter

(* The configuration an instance is bound to is one that was analysed. *)
InPrimaries(c) == \E m \in DOMAIN primary_units : primary_units[m] = c
LEMMA OwnedListed ==
  ASSUME Registry, NEW lib, NEW b, b.aspect \in Aspects, NEW r, Owned(lib, b, r),
         r.configuration # None
  PROVE  InPrimaries(r.configuration)
<1>1. \E ck : r.configuration = ConfigurationAt(ck)
  BY DEF Owned, AboutConfiguration, Aspects
<1> QED
  BY <1>1, ConfigurationListed DEF InPrimaries

(* An instance that is bound: what it is bound to, and what is said.        *)
BindsSaying(n, s, ms) ==
  /\ Binds(n, s) /\ IsSeq(ms) /\ diagnostics' = diagnostics \o ms
  /\ BareSaidAfter(ms, s)

LEMMA DirectSays ==
  ASSUME ElabInv, BareSaid, ResolveDirectInstantiation, CurrentInstance \in Instances
  PROVE  LET n == CurrentInstance
             ek == LibraryAndDesignName(LibOf(n[1]), InstanceOf(n).name)
         IN  \E s, ms : /\ BindsSaying(n, s, ms)
                        /\ s.component = inst_ref[n].component
                        /\ InstanceOf(n).unit_kind = "entity" /\ EntityAt(ek) = None
                             => SaidIn(ms, "entity", ek)
<1> DEFINE n == CurrentInstance
           lib == LibOf(n[1])
           ek == LibraryAndDesignName(lib, InstanceOf(n).name)
           q == ResolveBinding(lib, AspectOf(n), inst_ref[n])
           ms == BindingMisses(lib, AspectOf(n))
           s == Instantiated(q)
<1>1. Binds(n, s) /\ InstanceOf(n).unit_kind # "component" /\ diagnostics' = diagnostics \o ms
  BY Zenon DEF ResolveDirectInstantiation, BindInstance, AspectOf, InstanceOf, Binds, Step
<1>2. Owned(lib, AspectOf(n), inst_ref[n]) /\ AspectOf(n).aspect \in Aspects
  BY <1>1, AspectsAreKnown DEF ElabInv, InstancesFit, InstanceFits
<1>3. IsSeq(ms)
  BY <1>2, BindingMissesAreSeq
<1>4. BareSaidAfter(ms, q)
  BY <1>2, BindingSaysBare DEF ElabInv
<1>5. IsRef(q) /\ q.component = inst_ref[n].component
  <2>1. IsRef(inst_ref[n]) /\ IsRef(q)
    BY <1>2, BindingStaysOwned DEF ElabInv, Owned
  <2> DEFINE r == inst_ref[n]
             b == AspectOf(n)
             e == Find("entity", lib, b.name)
             c == Find("configuration", lib, b.name)
  <2>2. CASE b.aspect = "entity"
    <3>1. q = [component |-> r.component, entity |-> e,
               architecture |-> At(NameKey("architecture", lib, b.name, b.arch)),
               configuration |-> r.configuration]
      BY <2>1, <2>2, BindsEntity
    <3> HIDE DEF q, r, e
    <3>2. q.component = r.component
      BY <3>1
    <3> QED
      BY <2>1, <3>2 DEF r
  <2>3. CASE b.aspect = "configuration"
    <3>1. q = [component |-> r.component,
               entity |-> IF c = None THEN r.entity ELSE unit_ref[c],
               architecture |-> r.architecture, configuration |-> c]
      BY <2>1, <2>3, BindsConfiguration
    <3> HIDE DEF q, r, c
    <3>2. q.component = r.component
      BY <3>1
    <3> QED
      BY <2>1, <3>2 DEF r
  <2>4. CASE b.aspect \in {"open", "none"}
    BY <2>1, <2>4, BindsNothing
  <2> QED
    BY <1>2, <2>1, <2>2, <2>3, <2>4 DEF Aspects
<1>6. BareSaidAfter(ms, s) /\ s.component = inst_ref[n].component
  <2> HIDE DEF q, ms
  <2> QED
    BY <1>4, <1>5, InstantiatedBare
<1>7. ASSUME InstanceOf(n).unit_kind = "entity", EntityAt(ek) = None
      PROVE  SaidIn(ms, "entity", ek)
  <2> DEFINE b == AspectOf(n)
             k == NameKey("entity", lib, b.name, "")
  <2>1. b.aspect = "entity" /\ b.name = InstanceOf(n).name
    BY <1>7 DEF AspectOf
  <2>2. k = <<"entity", ek, "">>
    BY <2>1 DEF NameKey
  <2>3. k[1] = "entity" /\ k[2] = ek
    <3>1. \A x : <<"entity", x, "">>[1] = "entity" /\ <<"entity", x, "">>[2] = x
      OBVIOUS
    <3> HIDE DEF k, ek
    <3> QED
      BY <2>2, <3>1
  <2>4. ek[2] # ""
    BY <1>7, IdentifiersAssumption DEF InstanceOf
  <2>5. At(k) = None
    BY <1>7, <2>2 DEF EntityAt
  <2>6. ms = Misses(k) \o Misses(NameKey("architecture", lib, b.name, b.arch))
    BY <2>1 DEF BindingMisses, FindMisses
  <2> HIDE DEF k, ek, ms, b
  <2>7. SaidIn(Misses(k), "entity", ek)
    BY <2>3, <2>4, <2>5, MissesSaid
  <2> QED
    BY <2>6, <2>7, MissesSaid, SaidInBoth
<1> HIDE DEF s, ms
<1> QED
  BY <1>1, <1>3, <1>6, <1>7 DEF BindsSaying

LEMMA ComponentSays ==
  ASSUME ElabInv, ScopesGiven, ClausesSound, ClausesTyped, BareSaid,
         ResolveComponentInstantiation, CurrentInstance \in Instances
  PROVE  LET n == CurrentInstance IN
         \E s, ms :
           /\ BindsSaying(n, s, ms)
           /\ \A b \in Bindings : BareSaidAfter(ms, binding_ref'[b])
           /\ s.configuration = None \/ InPrimaries(s.configuration)
                \/ s.configuration = inst_ref[n].configuration
<1> DEFINE n == CurrentInstance
           u == n[1]
           i == Decl(u).instances[n[2]]
           b == <<u, Min(Matching(u, i))>>
           misses == BindingMisses(LibOf(b[1]), BindingOf(b))
           of(r, x) == Instantiated([r EXCEPT !.component = x])
<1>1. PICK x :
        \/ /\ Matching(u, i) = {}
           /\ Binds(n, of(inst_ref[n], x))
           /\ LookupStep(Lookup(u, i.name), <<>>)
           /\ UNCHANGED binding_ref
        \/ /\ Matching(u, i) # {}
           /\ binding_ref' = [binding_ref EXCEPT ![b] =
                                ResolveBinding(LibOf(b[1]), BindingOf(b), binding_ref[b])]
           /\ Binds(n, of(binding_ref'[b], x))
           /\ LookupStep(Lookup(u, i.name), misses)
  BY Zenon DEF ResolveComponentInstantiation, BindInstance, Binds, BindingOf
<1>2. u \in Architectures /\ u \in Registrable /\ Registry /\ Known
  BY PlaceOfInstance DEF Architectures, Registrable, IsKind, RegisteredKinds, SecondaryKinds,
                         ElabInv
<1>3. ASSUME NEW r, IsRef(r), NEW ms, BareSaidAfter(ms, r)
      PROVE  BareSaidAfter(ms, of(r, x)) /\ of(r, x).configuration = r.configuration
  <2> DEFINE q == [r EXCEPT !.component = x]
  <2>1. IsRef(q) /\ BareSaidAfter(ms, q) /\ q.configuration = r.configuration
    BY <1>3, ComponentBare
  <2> HIDE DEF q
  <2>2. BareSaidAfter(ms, Instantiated(q)) /\ Instantiated(q).configuration = q.configuration
    BY <2>1, InstantiatedBare
  <2> QED
    BY <2>1, <2>2 DEF q
<1> HIDE DEF of
<1>4. CASE Matching(u, i) = {}
  <2>1. PICK ms : IsSeq(ms) /\ diagnostics' = diagnostics \o ms
    BY <1>1, <1>2, <1>4, LookupSays, Sequences
  <2>2. IsRef(inst_ref[n]) /\ BareSaidAfter(ms, inst_ref[n])
    BY AlreadySaid DEF BareSaid, ElabInv, InstancesFit, InstanceFits, Fits
  <2>3. BindsSaying(n, of(inst_ref[n], x), ms)
        /\ of(inst_ref[n], x).configuration = inst_ref[n].configuration
    BY <1>1, <1>3, <1>4, <2>1, <2>2 DEF BindsSaying
  <2>4. \A d \in Bindings : BareSaidAfter(ms, binding_ref'[d])
    BY <1>1, <1>4, AlreadySaid DEF BareSaid
  <2> QED
    BY <2>3, <2>4
<1>5. CASE Matching(u, i) # {}
  <2> DEFINE new == ResolveBinding(LibOf(b[1]), BindingOf(b), binding_ref[b])
  <2>1. b \in Bindings
    BY <1>2, <1>5, FirstMatchIsBinding
  <2>0. LookupStep(Lookup(u, i.name), misses)
    BY <1>1, <1>5
  <2> HIDE DEF b
  <2>2. /\ Owned(LibOf(b[1]), BindingOf(b), binding_ref[b])
        /\ BindingOf(b).aspect \in Aspects
    BY <2>1, AspectsAreKnown DEF ElabInv, BindingsOwned
  <2>3. Owned(LibOf(b[1]), BindingOf(b), new)
    BY <1>2, <2>2, BindingStaysOwned
  <2>4. IsRef(new) /\ (new.configuration # None => InPrimaries(new.configuration))
    BY <1>2, <2>2, <2>3, OwnedListed DEF Owned
  <2>5. IsSeq(misses)
    BY <2>2, BindingMissesAreSeq
  <2> HIDE DEF misses
  <2>6. PICK ms : /\ IsSeq(ms) /\ diagnostics' = diagnostics \o ms
                  /\ \A kind, name : SaidIn(misses, kind, name) => SaidIn(ms, kind, name)
    BY <1>2, <2>0, <2>5, LookupSays
  <2>7. BareSaidAfter(ms, new)
    BY <1>2, <2>2, <2>6, BindingSaysBare DEF misses
  <2> HIDE DEF new
  <2>8. binding_ref' = [binding_ref EXCEPT ![b] = new] /\ Binds(n, of(binding_ref'[b], x))
    BY <1>1, <1>5 DEF new
  <2>9. /\ binding_ref'[b] = new
        /\ \A d \in Bindings : d # b => binding_ref'[d] = binding_ref[d]
    BY <2>1, <2>8 DEF ElabInv, BindingsOwned
  <2>10. \A d \in Bindings : BareSaidAfter(ms, binding_ref'[d])
    BY <2>7, <2>9, AlreadySaid DEF BareSaid
  <2>11. BindsSaying(n, of(new, x), ms) /\ of(new, x).configuration = new.configuration
    BY <1>3, <2>4, <2>6, <2>7, <2>8, <2>9 DEF BindsSaying
  <2> QED
    BY <2>4, <2>10, <2>11
<1> QED
  BY <1>4, <1>5

--------------------------------------------------------------------------------
(* What an unbound instance is for lack of. *)
Reason(i, r) ==
  CASE r.entity # None -> <<"architecture", KeyOf(r.entity)[2]>>
    [] r.entity = None /\ r.configuration # None ->
         <<"entity", ConfiguredKey(r.configuration)>>
    [] r.entity = None /\ r.configuration = None /\ r.component # None ->
         <<"entity", <<LibOf(i[1]), ComponentId(r.component)>> >>
    [] OTHER -> <<InstanceOf(i).unit_kind,
                  LibraryAndDesignName(LibOf(i[1]), InstanceOf(i).name)>>

AccountedAfter(ms, i, r) ==
  \/ None \notin {r.entity, r.architecture}
  \/ InstanceOf(i).unit_kind = "component" /\ r.component = None
  \/ SaidAfter(ms, Reason(i, r)[1], Reason(i, r)[2])

LEMMA Reasons ==
  ASSUME NEW i, NEW r
  PROVE  LET name == LibraryAndDesignName(LibOf(i[1]), InstanceOf(i).name) IN
         /\ r.entity # None =>
              Reason(i, r)[1] = "architecture" /\ Reason(i, r)[2] = KeyOf(r.entity)[2]
         /\ r.entity = None /\ r.configuration # None =>
              Reason(i, r)[1] = "entity" /\ Reason(i, r)[2] = ConfiguredKey(r.configuration)
         /\ r.entity = None /\ r.configuration = None /\ r.component # None =>
              /\ Reason(i, r)[1] = "entity"
              /\ Reason(i, r)[2] = <<LibOf(i[1]), ComponentId(r.component)>>
         /\ r.entity = None /\ r.configuration = None /\ r.component = None =>
              Reason(i, r)[1] = InstanceOf(i).unit_kind /\ Reason(i, r)[2] = name
<1> DEFINE name == LibraryAndDesignName(LibOf(i[1]), InstanceOf(i).name)
           kind == InstanceOf(i).unit_kind
           id == <<LibOf(i[1]), ComponentId(r.component)>>
           ck == ConfiguredKey(r.configuration)
           ek == KeyOf(r.entity)[2]
<1>1. Reason(i, r) = CASE r.entity # None -> <<"architecture", ek>>
           [] r.entity = None /\ r.configuration # None -> <<"entity", ck>>
           [] r.entity = None /\ r.configuration = None /\ r.component # None -> <<"entity", id>>
           [] OTHER -> <<kind, name>>
  BY DEF Reason
<1>2. \A x, y : <<x, y>>[1] = x /\ <<x, y>>[2] = y
  OBVIOUS
<1> HIDE DEF name, kind, id, ck, ek
<1>3. /\ r.entity # None => Reason(i, r) = <<"architecture", ek>>
      /\ r.entity = None /\ r.configuration # None => Reason(i, r) = <<"entity", ck>>
      /\ r.entity = None /\ r.configuration = None /\ r.component # None =>
           Reason(i, r) = <<"entity", id>>
      /\ r.entity = None /\ r.configuration = None /\ r.component = None =>
           Reason(i, r) = <<kind, name>>
  BY <1>1
<1> QED
  BY <1>2, <1>3 DEF name, kind, id, ck, ek

LEMMA ExplainsIsSaid ==
  ASSUME NEW i
  PROVE  AccountedAfter(<<>>, i, inst_ref[i]) =>
           \/ None \notin {EntityOf(i), ArchitectureOf(i)}
           \/ InstanceOf(i).unit_kind = "component" /\ inst_ref[i].component = None
           \/ \E n \in DOMAIN diagnostics : Explains(diagnostics[n], i)
<1> DEFINE key == Reason(i, inst_ref[i])
<1>1. \A kind, name : ~SaidIn(<<>>, kind, name)
  BY DEF SaidIn
<1>2. \A d : Explains(d, i) <=> d.what = "unresolved" /\ d.key[1] = key[1] /\ d.key[2] = key[2]
  BY Zenon DEF Explains, Reason, ConfiguredKey
<1> HIDE DEF key
<1> QED
  BY <1>1, <1>2 DEF AccountedAfter, SaidAfter, SaidOf, SaidIn, EntityOf, ArchitectureOf, key

--------------------------------------------------------------------------------
(* What a run has said by the time it comes to an instance: that a          *)
(* configuration has no entity, and that a name stands for none.            *)
ConfigurationsSaid ==
  \A n \in DOMAIN primary_units :
    LET c == primary_units[n] IN
    IsConfiguration(c) /\ HeadPassed(3, n) /\ EntityAt(ConfiguredKey(c)) = None
      => SaidOf("entity", ConfiguredKey(c))

NameOf(i) == LibraryAndDesignName(LibOf(i[1]), InstanceOf(i).name)
EntitiesSaid ==
  \A i \in Instances :
    Seen(4, i) /\ InstanceOf(i).unit_kind = "entity" /\ EntityAt(NameOf(i)) = None
      => SaidOf("entity", NameOf(i))

ConfigurationsListed ==
  \A i \in Instances :
    inst_ref[i].configuration # None => InPrimaries(inst_ref[i].configuration)
DirectHasNoComponent ==
  \A i \in Instances : InstanceOf(i).unit_kind # "component" => inst_ref[i].component = None

(* What the linker finds of an instance, and what it says. *)
Linked(i, r, bound) ==
  /\ IsSeq(bound.misses)
  /\ AccountedAfter(bound.misses, i, bound.ref)
  /\ BareSaidAfter(bound.misses, bound.ref)
  /\ bound.ref.component = r.component
  /\ bound.ref.configuration = r.configuration

LEMMA FromConfigurationSays ==
  ASSUME Registry, Known, ConfigurationsDone, ConfigurationsSaid, pass = 5,
         NEW i, NEW r, Fits(r), r.configuration # None, InPrimaries(r.configuration)
  PROVE  Linked(i, r, FromConfiguration(r))
<1> DEFINE c == r.configuration
           ck == ConfiguredKey(c)
           k == NameKey("architecture", LibOf(c), Decl(c).of, Decl(c).block)
           s == FromConfiguration(r).ref
           ms == FromConfiguration(r).misses
           e == IF unit_ref[c] # None THEN unit_ref[c] ELSE r.entity
<1>1. ms = Misses(k) /\ IsSeq(ms)
  BY MissesSaid DEF FromConfiguration
<1>2. k = <<"architecture", ck, Decl(c).block>>
  BY DEF NameKey, ConfiguredKey
<1>3. s = [component |-> r.component,
           entity |-> IF e = None /\ At(k) # None THEN unit_ref[At(k)] ELSE e,
           architecture |-> At(k), configuration |-> c]
  BY <1>2, FromConfigurationFields DEF Fits
<1>4. /\ s.component = r.component /\ s.configuration = c /\ s.architecture = At(k)
      /\ e # None => s.entity = e
  <2> HIDE DEF s, e, k, c
  <2> QED
    BY <1>3
<1>5. Fits(s)
  BY FromConfigurationFits
<1>6. k[1] = "architecture" /\ k[2] = ck
  <2>1. \A x, y : <<"architecture", x, y>>[1] = "architecture" /\ <<"architecture", x, y>>[2] = x
    OBVIOUS
  <2> HIDE DEF k, ck
  <2> QED
    BY <1>2, <2>1
<1>7. IsConfiguration(c) /\ ck[2] # ""
  BY IdentifiersAssumption DEF Fits, IsConfiguration, ConfiguredKey, UnitsOfKind, Registrable
<1>8. AboutEntity(ck, s)
  <2> HIDE DEF s, ck, c
  <2> QED
    BY <1>4, <1>5 DEF Fits, ck, c
<1>9. unit_ref[c] = EntityAt(ck) /\ (EntityAt(ck) = None => SaidOf("entity", ck))
  <2>1. PICK m \in DOMAIN primary_units : primary_units[m] = c
    BY DEF InPrimaries
  <2>2. HeadPassed(3, m)
    BY DEF HeadPassed
  <2> QED
    BY <1>7, <2>1, <2>2 DEF ConfigurationsDone, ConfigurationsSaid
<1> DEFINE bound == FromConfiguration(r)
<1>10. s = bound.ref /\ ms = bound.misses
  OBVIOUS
<1>11. AccountedAfter(ms, i, s)
  <2> HIDE DEF s, ms, k, ck
  <2>1. CASE s.entity # None /\ s.architecture # None
    BY <2>1 DEF AccountedAfter
  <2>2. CASE s.entity # None /\ s.architecture = None
    <3>1. s.entity = EntityAt(ck) /\ KeyOf(s.entity)[2] = ck
      BY <1>8, <2>2, EntityIsNamed DEF AboutEntity
    <3>2. SaidIn(ms, "architecture", ck)
      BY <1>1, <1>4, <1>6, <1>7, <2>2, MissesSaid
    <3>3. Reason(i, s)[1] = "architecture" /\ Reason(i, s)[2] = ck
      BY <2>2, <3>1, Reasons
    <3> QED
      BY <3>2, <3>3 DEF AccountedAfter, SaidAfter
  <2>3. CASE s.entity = None
    <3>1. EntityAt(ck) = None
      BY <1>4, <1>9, <2>3
    <3>2. Reason(i, s)[1] = "entity" /\ Reason(i, s)[2] = ck
      BY <1>4, <2>3, Reasons DEF ck
    <3> QED
      BY <1>9, <3>1, <3>2 DEF AccountedAfter, SaidAfter
  <2> QED
    BY <2>1, <2>2, <2>3
<1>12. BareSaidAfter(ms, s)
  BY <1>4 DEF BareSaidAfter, Bare
<1> HIDE DEF s, ms, bound
<1> QED
  BY <1>1, <1>4, <1>10, <1>11, <1>12 DEF Linked, bound

LEMMA ComponentIsNamed ==
  ASSUME NEW x \in Components
  PROVE  ComponentId(x) # ""
<1>0. PICK u \in Unit : x \in {<<"component", u, j>> : j \in 1..Len(Decl(u).components)}
  BY DEF Components
<1>1. PICK j \in 1..Len(Decl(u).components) : x = <<"component", u, j>>
  BY <1>0
<1>2. x[2] = u /\ x[3] = j
  <2>1. \A v, w : <<"component", v, w>>[2] = v /\ <<"component", v, w>>[3] = w
    OBVIOUS
  <2> QED
    BY <1>1, <2>1
<1> QED
  BY <1>1, <1>2, IdentifiersAssumption DEF ComponentId

LEMMA ByComponentNameSays ==
  ASSUME Registry, NEW i, InstanceOf(i).unit_kind = "component",
         NEW r, Fits(r), RefTyped(r), r.configuration = None, r.entity = None
  PROVE  Linked(i, r, ByComponentName(LibOf(i[1]), r))
<1> DEFINE lib == LibOf(i[1])
           id == ComponentId(r.component)
           ek == <<lib, id>>
           k == NameKey("entity", lib, <<id>>, "")
           e == At(k)
           d == NameKey("architecture", LibOf(e), <<Decl(e).id>>, "")
           bound == ByComponentName(lib, r)
           found == [r EXCEPT !.entity = e, !.architecture = At(d)]
<1>0. IsRef(r) /\ IsSeq(<<>>) /\ IsSeq(Misses(k)) /\ IsSeq(Misses(d))
  BY MissesSaid, Sequences DEF Fits
<1>1. \A a, b : <<a, b>>[1] = a /\ <<a, b>>[2] = b
  OBVIOUS
<1>2. \A a, b, c : <<a, b, c>>[1] = a /\ <<a, b, c>>[2] = b
  OBVIOUS
<1>3. k = <<"entity", ek, "">>
  BY DEF NameKey, LibraryAndDesignName
<1>4. e = EntityAt(ek) /\ k[1] = "entity" /\ k[2] = ek /\ k[2][2] = id
  <2>1. e = EntityAt(ek)
    BY <1>3 DEF EntityAt
  <2>2. ek[2] = id
    BY <1>1
  <2> HIDE DEF k, ek, e
  <2> QED
    BY <1>2, <1>3, <2>1, <2>2
<1>5. CASE r.component = None
  <2>1. bound = [ref |-> r, misses |-> <<>>]
    BY <1>5 DEF ByComponentName
  <2>2. bound.ref = r /\ bound.misses = <<>>
    BY <2>1
  <2> HIDE DEF bound
  <2>3. AccountedAfter(bound.misses, i, bound.ref)
    BY <1>5, <2>2 DEF AccountedAfter
  <2>4. BareSaidAfter(bound.misses, bound.ref)
    BY <2>2 DEF BareSaidAfter, Bare
  <2> QED
    BY <1>0, <2>2, <2>3, <2>4 DEF Linked, bound
<1>6. CASE r.component # None /\ e = None
  <2>1. bound = [ref |-> r, misses |-> Misses(k)]
    BY <1>6 DEF ByComponentName
  <2>2. bound.ref = r /\ bound.misses = Misses(k)
    <3> HIDE DEF bound, k
    <3> QED
      BY <2>1
  <2>3. id # ""
    BY <1>6, ComponentIsNamed DEF RefTyped, NodeOrNone
  <2>4. SaidIn(Misses(k), "entity", ek)
    <3> HIDE DEF k, ek, id
    <3> QED
      BY <1>4, <1>6, <2>3, MissesSaid
  <2>5. Reason(i, r)[1] = "entity" /\ Reason(i, r)[2] = ek
    BY <1>6, Reasons
  <2> HIDE DEF bound, k, ek
  <2>6. AccountedAfter(bound.misses, i, bound.ref)
    BY <2>2, <2>4, <2>5 DEF AccountedAfter, SaidAfter
  <2>7. BareSaidAfter(bound.misses, bound.ref)
    BY <2>2 DEF BareSaidAfter, Bare
  <2> QED
    BY <1>0, <2>2, <2>6, <2>7 DEF Linked, bound
<1>7. CASE r.component # None /\ e # None
  <2>1. bound = [ref |-> found, misses |-> Misses(d)]
    BY <1>7 DEF ByComponentName
  <2>2. /\ found.component = r.component /\ found.configuration = r.configuration
        /\ found.entity = e /\ found.architecture = At(d)
    <3> HIDE DEF e, d
    <3> QED
      BY <1>0 DEF IsRef
  <2> HIDE DEF found
  <2>3. bound.ref = found /\ bound.misses = Misses(d)
    <3> HIDE DEF bound, d
    <3> QED
      BY <2>1
  <2>4. KeyOf(e)[2] = ek /\ ek[2] # "" /\ ek = <<LibOf(e), Decl(e).id>>
    <3>1. EntityAt(ek) # None
      BY <1>4, <1>7
    <3>2. /\ KeyOf(EntityAt(ek))[2] = ek /\ ek[2] # ""
          /\ <<LibOf(EntityAt(ek)), Decl(EntityAt(ek)).id>> = ek
      <4> HIDE DEF ek
      <4> QED
        BY <3>1, EntityIsNamed, FoundEntity
    <3> HIDE DEF ek, e
    <3> QED
      BY <1>4, <3>2
  <2>5. d = <<"architecture", ek, "">>
    <3>1. d = <<"architecture", <<LibOf(e), Decl(e).id>>, "">>
      <4> HIDE DEF e
      <4>1. LibraryAndDesignName(LibOf(e), <<Decl(e).id>>) = <<LibOf(e), Decl(e).id>>
        BY DEF LibraryAndDesignName
      <4>2. d = <<"architecture", LibraryAndDesignName(LibOf(e), <<Decl(e).id>>), "">>
        BY DEF NameKey
      <4> QED
        BY <4>1, <4>2
    <3> HIDE DEF d, ek, e
    <3> QED
      BY <2>4, <3>1
  <2>6. d[1] = "architecture" /\ d[2] = ek
    <3> HIDE DEF d, ek
    <3> QED
      BY <1>2, <2>5
  <2> HIDE DEF d, e, ek, bound
  <2>7. At(d) = None => SaidIn(Misses(d), "architecture", ek)
    BY <2>4, <2>6, MissesSaid
  <2>8. AccountedAfter(bound.misses, i, bound.ref)
    <3>1. Reason(i, found)[1] = "architecture" /\ Reason(i, found)[2] = ek
      BY <1>7, <2>2, <2>4, Reasons
    <3>2. At(d) # None => None \notin {found.entity, found.architecture}
      BY <1>7, <2>2
    <3> QED
      BY <2>3, <2>7, <3>1, <3>2 DEF AccountedAfter, SaidAfter
  <2>9. BareSaidAfter(bound.misses, bound.ref)
    BY <2>2, <2>3, <2>4, <2>7 DEF BareSaidAfter, Bare, SaidAfter
  <2> QED
    BY <1>0, <2>2, <2>3, <2>8, <2>9 DEF Linked, bound
<1> QED
  BY <1>5, <1>6, <1>7

(* A configuration that is looked for once more.                            *)
LEMMA RelinkSays ==
  ASSUME Registry, NEW i \in Instances, NEW r, InstanceFits(i, r)
  PROVE  LET again == Relink(LibOf(i[1]), InstanceOf(i), r)
             q == again.ref
         IN  /\ IsSeq(again.misses) /\ IsRef(q)
             /\ q.component = r.component
             /\ q.entity = r.entity /\ q.architecture = r.architecture
             /\ \/ q.configuration = r.configuration
                \/ r.configuration = None /\ q.entity = None
             /\ q.configuration = r.configuration \/ q.configuration = None
                  \/ InPrimaries(q.configuration)
             /\ InstanceOf(i).unit_kind = "configuration" /\ q.configuration = None =>
                  SaidIn(again.misses, "configuration", NameOf(i))
<1> DEFINE lib == LibOf(i[1])
           d == InstanceOf(i)
           again == Relink(lib, d, r)
           k == NameKey("configuration", lib, d.name, "")
           c == At(k)
           found == [r EXCEPT !.configuration = c]
<1>0. IsRef(r)
  BY DEF InstanceFits, Fits
<1>1. CASE ~(d.unit_kind = "configuration" /\ r.configuration = None)
  <2>1. again = [ref |-> r, misses |-> <<>>]
    BY <1>1 DEF Relink
  <2>2. again.ref = r /\ again.misses = <<>>
    BY <2>1
  <2> HIDE DEF again, d
  <2> QED
    BY <1>0, <1>1, <2>2, Sequences DEF again, d
<1>2. CASE d.unit_kind = "configuration" /\ r.configuration = None
  <2>1. again = [ref |-> found, misses |-> Misses(k)]
    BY <1>2 DEF Relink, Find, FindMisses
  <2>2. again.ref = found /\ again.misses = Misses(k)
    <3> HIDE DEF again, k
    <3> QED
      BY <2>1
  <2>3. /\ found.component = r.component /\ found.entity = r.entity
        /\ found.architecture = r.architecture /\ found.configuration = c
        /\ IsRef(found)
    <3> HIDE DEF c
    <3> QED
      BY <1>0 DEF IsRef
  <2>4. r.entity = None
    BY <1>2 DEF InstanceFits, Owned, AspectOf, AboutConfiguration
  <2>5. k = <<"configuration", NameOf(i), "">> /\ c = ConfigurationAt(NameOf(i))
    BY DEF NameKey, NameOf, ConfigurationAt
  <2>6. k[1] = "configuration" /\ k[2] = NameOf(i)
    <3>1. \A x, y, z : <<x, y, z>>[1] = x /\ <<x, y, z>>[2] = y
      OBVIOUS
    <3> HIDE DEF k
    <3> QED
      BY <2>5, <3>1
  <2>7. NameOf(i)[2] # ""
    BY <1>2, IdentifiersAssumption DEF NameOf, InstanceOf
  <2>8. c # None => InPrimaries(c)
    BY <2>5, ConfigurationListed DEF InPrimaries
  <2> HIDE DEF again, found, k
  <2>9. IsSeq(Misses(k)) /\ (c = None => SaidIn(Misses(k), "configuration", NameOf(i)))
    BY <2>6, <2>7, MissesSaid
  <2> QED
    BY <1>2, <2>2, <2>3, <2>4, <2>8, <2>9 DEF again
<1> QED
  BY <1>1, <1>2

(* An instance the linker leaves as it is.                                  *)
LEMMA KeptIsSaid ==
  ASSUME NEW i \in Instances, NEW r, NEW ms, r.configuration = None,
         ~NeedsDefault(InstanceOf(i), r), BareSaidAfter(ms, r),
         InstanceOf(i).unit_kind # "component" => r.component = None,
         InstanceOf(i).unit_kind = "configuration" => SaidIn(ms, "configuration", NameOf(i)),
         InstanceOf(i).unit_kind = "entity" /\ r.entity = None => SaidOf("entity", NameOf(i))
  PROVE  AccountedAfter(ms, i, r)
<1>1. CASE r.entity # None /\ r.architecture # None
  BY <1>1 DEF AccountedAfter
<1>2. CASE r.entity # None /\ r.architecture = None
  <2>1. SaidAfter(ms, "architecture", KeyOf(r.entity)[2])
    BY <1>2 DEF BareSaidAfter, Bare
  <2> QED
    BY <1>2, <2>1, Reasons DEF AccountedAfter
<1>3. CASE r.entity = None
  <2>1. InstanceOf(i).unit_kind \in {"entity", "configuration"} /\ r.component = None
    BY <1>3, AspectsAreKnown DEF NeedsDefault
  <2>2. SaidAfter(ms, InstanceOf(i).unit_kind, NameOf(i))
    BY <1>3, <2>1 DEF SaidAfter
  <2> QED
    BY <1>3, <2>1, <2>2, Reasons DEF AccountedAfter, NameOf
<1> QED
  BY <1>1, <1>2, <1>3

LEMMA AccountedInBoth ==
  ASSUME NEW s, IsSeq(s), NEW t, IsSeq(t), NEW i, NEW r
  PROVE  /\ AccountedAfter(s, i, r) \/ AccountedAfter(t, i, r) => AccountedAfter(s \o t, i, r)
         /\ BareSaidAfter(s, r) \/ BareSaidAfter(t, r) => BareSaidAfter(s \o t, r)
BY SaidInBoth DEF AccountedAfter, BareSaidAfter, SaidAfter

(* The linker leaves no instance unbound without a word.                    *)
LEMMA LinkSays ==
  ASSUME ElabInv, ItemInside, NamesSoFar, RefsTyped, BareSaid,
         ConfigurationsDone, ConfigurationsSaid, EntitiesSaid,
         ConfigurationsListed, DirectHasNoComponent,
         LinkComponentInstantiation, CurrentInstance \in Instances
  PROVE  LET n == CurrentInstance IN
         \E s, ms : /\ BindsSaying(n, s, ms)
                    /\ AccountedAfter(ms, n, s)
                    /\ s.component = inst_ref[n].component
                    /\ s.configuration = None \/ InPrimaries(s.configuration)
<1> DEFINE n == CurrentInstance
           lib == LibOf(n[1])
           d == InstanceOf(n)
           r == inst_ref[n]
           again == Relink(lib, d, r)
           q == again.ref
<1>1. PICK bound :
        /\ Binds(n, bound.ref)
        /\ diagnostics' = diagnostics \o (again.misses \o bound.misses)
        /\ bound = CASE q.configuration # None -> FromConfiguration(q)
                     [] q.configuration = None /\ NeedsDefault(d, q) ->
                          ByComponentName(lib, q)
                     [] OTHER -> [ref |-> q, misses |-> <<>>]
  BY Zenon DEF LinkComponentInstantiation, BindInstance, InstanceOf, Binds, Step
<1>2. InstanceFits(n, r) /\ Registry /\ Known /\ Fits(r)
  BY DEF ElabInv, InstancesFit, InstanceFits
<1>3. InstanceFits(n, q) /\ Fits(q)
  BY <1>2, RelinkFits DEF InstanceFits
<1>4. /\ IsSeq(again.misses) /\ IsRef(q)
      /\ q.component = r.component
      /\ q.entity = r.entity /\ q.architecture = r.architecture
      /\ \/ q.configuration = r.configuration
         \/ r.configuration = None /\ q.entity = None
      /\ q.configuration = r.configuration \/ q.configuration = None
           \/ InPrimaries(q.configuration)
      /\ d.unit_kind = "configuration" /\ q.configuration = None =>
           SaidIn(again.misses, "configuration", NameOf(n))
  BY <1>2, RelinkSays
<1>5. pass = 5 /\ AtInstance(5)
  BY DEF LinkComponentInstantiation, AtInstance, Visiting
<1>6. q.configuration # None => InPrimaries(q.configuration)
  BY <1>4 DEF ConfigurationsListed
<1>7. RefTyped(q) /\ (d.unit_kind # "component" => q.component = None)
  BY <1>4 DEF RefsTyped, RefTyped, DirectHasNoComponent
<1>8. BareSaidAfter(again.misses, q)
  <2>1. BareSaidAfter(again.misses, r)
    BY AlreadySaid DEF BareSaid
  <2> HIDE DEF again
  <2> QED
    BY <1>4, <2>1 DEF BareSaidAfter, Bare
<1>9. d.unit_kind = "entity" /\ q.entity = None => SaidOf("entity", NameOf(n))
  <2>1. RegisteredArchitecture(n[1])
    BY BindingPlace
  <2>2. Seen(4, n)
    <3>1. PICK m \in DOMAIN secondary_units : secondary_units[m] = n[1]
      BY <2>1 DEF RegisteredArchitecture
    <3> QED
      BY <1>5, <3>1 DEF Seen, Behind
  <2>3. d.unit_kind = "entity" => r.entity = EntityAt(NameOf(n))
    BY <2>2 DEF NamesSoFar, NamesCurrent, NameOf
  <2> QED
    BY <1>4, <2>2, <2>3 DEF EntitiesSaid
<1> HIDE DEF q, again, d, n
<1>10. \/ Linked(n, q, bound)
       \/ /\ bound.ref = q /\ IsSeq(bound.misses)
          /\ AccountedAfter(again.misses, n, q)
  <2>1. CASE q.configuration # None
    <3>1. bound = FromConfiguration(q)
      BY <1>1, <2>1
    <3> QED
      BY <1>2, <1>3, <1>5, <1>6, <2>1, <3>1, FromConfigurationSays
  <2>2. CASE q.configuration = None /\ NeedsDefault(d, q)
    <3>1. bound = ByComponentName(lib, q)
      BY <1>1, <2>2
    <3>2. d.unit_kind = "component" /\ q.entity = None
      BY <2>2 DEF NeedsDefault
    <3> QED
      BY <1>2, <1>3, <1>7, <2>2, <3>1, <3>2, ByComponentNameSays DEF d
  <2>3. CASE q.configuration = None /\ ~NeedsDefault(d, q)
    <3>1. bound.ref = q /\ bound.misses = <<>>
      BY <1>1, <2>3
    <3>2. AccountedAfter(again.misses, n, q)
      BY <1>4, <1>7, <1>8, <1>9, <2>3, KeptIsSaid DEF n, d
    <3> QED
      BY <3>1, <3>2, Sequences
  <2> QED
    BY <2>1, <2>2, <2>3
<1> DEFINE ms == again.misses \o bound.misses
           s == bound.ref
<1>11. IsSeq(bound.misses) /\ IsSeq(ms)
  BY <1>4, <1>10, Sequences DEF Linked
<1>12. AccountedAfter(ms, n, s) /\ BareSaidAfter(ms, s)
  BY <1>4, <1>8, <1>10, <1>11, AccountedInBoth DEF Linked
<1>13. s.component = r.component /\ s.configuration = q.configuration
  BY <1>4, <1>10 DEF Linked
<1>14. BindsSaying(n, s, ms)
  BY <1>1, <1>11, <1>12 DEF BindsSaying
<1> QED
  BY <1>6, <1>12, <1>13, <1>14 DEF n

--------------------------------------------------------------------------------
(* An instance the linker has been at is bound, or something was said.      *)
UnboundSaid == \A i \in Instances : Seen(5, i) => AccountedAfter(<<>>, i, inst_ref[i])

Spoken ==
  /\ IsSeq(diagnostics)
  /\ ConfigurationsSaid /\ EntitiesSaid /\ BareSaid
  /\ ConfigurationsListed /\ DirectHasNoComponent
  /\ UnboundSaid

(* The inductive invariant: the linker says why it leaves an instance       *)
(* unbound, or the resolver has: of an entity at the latest when it was at  *)
(* the instance, of a configuration's entity when it was at the             *)
(* configuration, of a missing architecture whenever one was looked for.    *)
ReportInv == TypedInv /\ Spoken

MoreSaid ==
  /\ IsSeq(diagnostics)'
  /\ \A kind, name : SaidOf(kind, name) => SaidOf(kind, name)'

LEMMA SaysMore ==
  ASSUME IsSeq(diagnostics), Says
  PROVE  MoreSaid
<1>1. CASE UNCHANGED diagnostics
  BY <1>1 DEF MoreSaid, SaidOf, SaidIn, IsSeq
<1>2. CASE \E ms : IsSeq(ms) /\ diagnostics' = diagnostics \o ms
  BY <1>2, MoreIsSaid DEF MoreSaid
<1> QED
  BY <1>1, <1>2 DEF Says

(* What was said in a step is said after it.                                *)
LEMMA AfterIsSaid ==
  ASSUME NEW ms,
         \A kind, name : SaidAfter(ms, kind, name) => SaidOf(kind, name)'
  PROVE  /\ \A r : BareSaidAfter(ms, r) => BareSaidAfter(<<>>, r)'
         /\ \A i, r : AccountedAfter(ms, i, r) => AccountedAfter(<<>>, i, r)'
<1>1. \A r : BareSaidAfter(ms, r) => BareSaidAfter(<<>>, r)'
  BY DEF BareSaidAfter, Bare, SaidAfter
<1>2. \A i, r : AccountedAfter(ms, i, r) => AccountedAfter(<<>>, i, r)'
  BY DEF AccountedAfter, SaidAfter
<1> QED
  BY <1>1, <1>2

LEMMA StaysSaid ==
  ASSUME MoreSaid
  PROVE  /\ \A r : BareSaidAfter(<<>>, r) => BareSaidAfter(<<>>, r)'
         /\ \A i, r : AccountedAfter(<<>>, i, r) => AccountedAfter(<<>>, i, r)'
<1>1. \A kind, name : SaidAfter(<<>>, kind, name) => SaidOf(kind, name)'
  BY DEF MoreSaid, SaidAfter, SaidIn
<1> QED
  BY <1>1, AfterIsSaid

(* Adding files may say that a unit is there already.                       *)
LEMMA AddsSays ==
  ASSUME RegistryInv, [Next]_vars, IsSeq(diagnostics)
  PROVE  /\ MoreSaid
         /\ \A c : InPrimaries(c) => InPrimaries(c)'
<1>1. Says
  <2>1. CASE Quiet
    BY <2>1 DEF Quiet, Says
  <2>2. ASSUME NEW u \in Registrable, Register(u) PROVE Says
    <3>1. diagnostics' \in {diagnostics, Append(diagnostics, Duplicate(KeyOf(u)))}
      BY <2>2 DEF Register
    <3>2. \A x : Append(diagnostics, x) = diagnostics \o <<x>>
      <4>1. PICK S : diagnostics \in Seq(S)
        BY DEF IsSeq
      <4> QED
        BY <4>1
    <3> QED
      BY <3>1, <3>2, Sequences DEF Says
  <2> QED
    BY <2>1, <2>2, StepCases DEF RegistersPrimary, RegistersSecondary
<1>2. ASSUME NEW c, InPrimaries(c) PROVE InPrimaries(c)'
  <2>1. \/ primary_units' = primary_units
        \/ \E u : primary_units' = Append(primary_units, u)
    BY StepCases DEF Quiet, RegistersPrimary, RegistersSecondary
  <2>2. primary_units \in Seq(Unit)
    BY DEF RegistryInv, RegistryTypeOK
  <2>3. PICK m \in DOMAIN primary_units : primary_units[m] = c
    BY <1>2 DEF InPrimaries
  <2>4. m \in DOMAIN primary_units' /\ primary_units'[m] = c
    BY <2>1, <2>2, <2>3
  <2> QED
    BY <2>4 DEF InPrimaries
<1> QED
  BY <1>1, <1>2, SaysMore

LEMMA OutsideSays ==
  ASSUME ReportInv, Adds \/ ResolveReferences
  PROVE  Spoken'
<1>0. Registry /\ RegistryInv /\ Spoken /\ IsSeq(diagnostics)
  BY DEF ReportInv, TypedInv, RunInv, ElabInv, Registry, Spoken
<1>1. [Next]_vars /\ inst_ref' = inst_ref /\ binding_ref' = binding_ref
  BY DEF Adds, ResolveReferences, elabVars, refVars
<1>2. MoreSaid /\ \A c : InPrimaries(c) => InPrimaries(c)'
  BY <1>0, <1>1, AddsSays
<1>3. IsSeq(diagnostics)'
  BY <1>2 DEF MoreSaid
<1>4. BareSaid'
  <2>1. \A r : BareSaidAfter(<<>>, r) => BareSaidAfter(<<>>, r)'
    BY <1>2, StaysSaid
  <2> QED
    BY <1>0, <1>1, <2>1 DEF Spoken, BareSaid
<1>5. ConfigurationsListed' /\ DirectHasNoComponent'
  BY <1>0, <1>1, <1>2 DEF Spoken, ConfigurationsListed, DirectHasNoComponent
<1>6. CASE pass = 0 /\ pass' \in {0, 1} /\ at' = 1 /\ item' = 0
  <2>1. /\ \A p \in {4, 5} : \A i : ~Seen(p, i)'
        /\ \A n \in DOMAIN primary_units' : ~HeadPassed(3, n)'
    BY <1>6 DEF Seen, Behind, HeadPassed
  <2>2. ConfigurationsSaid' /\ EntitiesSaid' /\ UnboundSaid'
    BY <2>1 DEF ConfigurationsSaid, EntitiesSaid, UnboundSaid
  <2> QED
    BY <1>3, <1>4, <1>5, <2>2 DEF Spoken
<1>7. CASE UNCHANGED allVars
  <2> USE DEF allVars, vars, callVars, registryVars, mapVars, unitVars, elabVars,
              cursorVars, refVars
  <2>1. \A k : At(k)' = At(k)
    BY <1>0, <1>7, RegistryUntouched
  <2>2. \A ek : EntityAt(ek)' = EntityAt(ek)
    BY <2>1 DEF EntityAt
  <2>3. \A p, i : Seen(p, i)' = Seen(p, i)
    BY <1>7 DEF Seen, Behind
  <2>4. \A n : HeadPassed(3, n)' = HeadPassed(3, n)
    BY <1>7 DEF HeadPassed
  <2>5. \A kind, name : SaidOf(kind, name) => SaidOf(kind, name)'
    BY <1>2 DEF MoreSaid
  <2>6. ConfigurationsSaid'
    BY <1>0, <1>7, <2>2, <2>4, <2>5 DEF Spoken, ConfigurationsSaid
  <2>7. EntitiesSaid'
    BY <1>0, <1>7, <2>2, <2>3, <2>5 DEF Spoken, EntitiesSaid
  <2>8. UnboundSaid'
    <3>1. \A i, r : AccountedAfter(<<>>, i, r) => AccountedAfter(<<>>, i, r)'
      BY <1>2, StaysSaid
    <3> QED
      BY <1>0, <1>1, <2>3, <3>1 DEF Spoken, UnboundSaid
  <2> QED
    BY <1>3, <1>4, <1>5, <2>6, <2>7, <2>8 DEF Spoken
<1> QED
  <2>1. Cursor
    BY DEF ReportInv, TypedInv, RunInv, ElabInv
  <2> QED
    BY <1>6, <1>7, <2>1 DEF Adds, ResolveReferences, Cursor, allVars, elabVars, cursorVars

(* The step that refers a configuration to its entity says so if there is   *)
(* none.                                                                    *)
LEMMA ConfigurationsSaidStep ==
  ASSUME Registry, Cursor, ScopesGiven, ClausesSound, ConfigurationsSaid, IsSeq(diagnostics),
         Resolve, MoreSaid
  PROVE  ConfigurationsSaid'
<1>1. primary_units' = primary_units /\ \A ek : EntityAt(ek)' = EntityAt(ek)
  BY ResolveIsWithinRegistry, ResolvingKeepsMeaning DEF unitVars
<1>2. \A kind, name : SaidOf(kind, name) => SaidOf(kind, name)'
  BY DEF MoreSaid
<1> SUFFICES ASSUME NEW n \in DOMAIN primary_units, NEW c, c = primary_units[n],
                    IsConfiguration(c), HeadPassed(3, n)', ~HeadPassed(3, n),
                    EntityAt(ConfiguredKey(c)) = None
             PROVE  SaidOf("entity", ConfiguredKey(c))'
  BY <1>1, <1>2 DEF ConfigurationsSaid
<1>3. UnitsOfPass(3) = primary_units /\ IsKind(c, Handled[3])
  BY DEF UnitsOfPass, Handled, IsConfiguration, IsKind
<1>4. pass = 3 /\ item = 0 /\ Visited = c /\ Handles
  BY <1>3, HeadPassedBy
<1>5. ResolveConfiguration
  <2>1. KindOf(Visited) = "configuration"
    BY <1>4 DEF IsConfiguration, IsKind
  <2>2. ~ResolveEntity /\ ~ResolvePackageInstantiation /\ ~ResolveContextReference
    BY <2>1 DEF ResolveEntity, ResolvePackageInstantiation, ResolveContextReference,
                AtHead, Visiting, IsKind
  <2> QED
    BY <1>4, <2>2, HeadActions
<1>6. Visiting(3, {"configuration"}) /\ Refer(Visited, "entity", Decl(Visited).of, <<Visited>>)
  BY <1>5 DEF ResolveConfiguration, AtHead
<1> DEFINE found == FindMisses("entity", LibOf(Visited), Decl(Visited).of)
           k == NameKey("entity", LibOf(c), Decl(c).of, "")
<1>7. {"configuration"} \in SUBSET RegisteredKinds
  BY DEF RegisteredKinds, PrimaryKinds
<1>8. PICK ms : /\ IsSeq(ms) /\ diagnostics' = diagnostics \o ms
                /\ \A kk, name : SaidIn(found, kk, name) => SaidIn(ms, kk, name)
  BY <1>6, <1>7, ReferSays
<1>9. found = Misses(k) /\ k = <<"entity", ConfiguredKey(c), "">>
  BY <1>4 DEF FindMisses, NameKey, ConfiguredKey
<1>10. k[1] = "entity" /\ k[2] = ConfiguredKey(c) /\ At(k) = None
  <2>1. \A x, y, z : <<x, y, z>>[1] = x /\ <<x, y, z>>[2] = y
    OBVIOUS
  <2>2. At(k) = None
    BY <1>9 DEF EntityAt
  <2> HIDE DEF k
  <2> QED
    BY <1>9, <2>1, <2>2
<1>11. ConfiguredKey(c)[2] # ""
  BY IdentifiersAssumption DEF IsConfiguration, ConfiguredKey, UnitsOfKind, Registrable
<1> HIDE DEF found, k
<1>12. SaidIn(ms, "entity", ConfiguredKey(c))
  BY <1>8, <1>9, <1>10, <1>11, MissesSaid
<1> QED
  BY <1>8, <1>12, MoreIsSaid

Binding == ResolveDirectInstantiation \/ ResolveComponentInstantiation \/ LinkComponentInstantiation

(* What the step says that binds an instance.                               *)
LEMMA BindingSays ==
  ASSUME ReportInv, Binding, CurrentInstance \in Instances
  PROVE  LET n == CurrentInstance IN
         \E s, ms :
           /\ BindsSaying(n, s, ms)
           /\ \A b \in Bindings : BareSaidAfter(ms, binding_ref'[b])
           /\ s.configuration = None \/ InPrimaries(s.configuration)
           /\ InstanceOf(n).unit_kind # "component" => s.component = None
           /\ pass = 5 => AccountedAfter(ms, n, s)
           /\ pass = 4 /\ InstanceOf(n).unit_kind = "entity" /\ EntityAt(NameOf(n)) = None
                => SaidIn(ms, "entity", NameOf(n))
<1> DEFINE n == CurrentInstance
<1>0. /\ ElabInv /\ Registry /\ Known /\ InstancesFit /\ ItemInside /\ NamesSoFar /\ RefsTyped
      /\ ScopesGiven /\ ClausesSound /\ ClausesTyped /\ ConfigurationsDone
      /\ BareSaid /\ ConfigurationsSaid /\ EntitiesSaid
      /\ ConfigurationsListed /\ DirectHasNoComponent
  BY DEF ReportInv, TypedInv, RunInv, MembersInv, BoundInv, PassInv, ElabInv, Spoken
<1>1. UNCHANGED binding_ref =>
        \A ms : \A b \in Bindings : BareSaidAfter(ms, binding_ref'[b])
  BY <1>0, AlreadySaid DEF BareSaid
<1>2. CASE ResolveDirectInstantiation
  <2>1. PICK s, ms :
          /\ BindsSaying(n, s, ms)
          /\ s.component = inst_ref[n].component
          /\ InstanceOf(n).unit_kind = "entity" /\ EntityAt(NameOf(n)) = None
               => SaidIn(ms, "entity", NameOf(n))
    BY <1>0, <1>2, DirectSays DEF NameOf
  <2>2. /\ UNCHANGED binding_ref /\ pass = 4 /\ InstanceOf(n).unit_kind # "component"
    BY <1>2 DEF ResolveDirectInstantiation, AtInstance, Visiting, InstanceOf
  <2>3. s.component = None
    BY <1>0, <2>1, <2>2 DEF DirectHasNoComponent
  <2>4. s.configuration = None \/ InPrimaries(s.configuration)
    <3>1. inst_ref'[n] = s
      BY <1>0, <2>1 DEF BindsSaying, Binds, InstancesFit
    <3>2. UNCHANGED <<callVars, files_by_lib, mapVars, unitVars>>
      <4>1. Resolve
        BY <1>2 DEF Resolve
      <4> QED
        BY <4>1, ResolveIsWithinRegistry
    <3>3. \A i \in Instances : InstanceFits(i, inst_ref'[i])
      <4>1. InstancesFit'
        BY <1>0, <1>2, DirectInstantiationFits
      <4>2. \A i, r : InstanceFits(i, r)' = InstanceFits(i, r)
        BY <1>0, <3>2, ResolvingKeepsMeaning
      <4> QED
        BY <4>1, <4>2 DEF InstancesFit
    <3>4. Owned(LibOf(n[1]), AspectOf(n), s) /\ AspectOf(n).aspect \in Aspects
      BY <2>2, <3>1, <3>3, AspectsAreKnown DEF InstanceFits
    <3> QED
      BY <1>0, <3>4, OwnedListed
  <2> QED
    BY <1>1, <2>1, <2>2, <2>3, <2>4
<1>3. CASE ResolveComponentInstantiation
  <2>1. PICK s, ms :
          /\ BindsSaying(n, s, ms)
          /\ \A b \in Bindings : BareSaidAfter(ms, binding_ref'[b])
          /\ s.configuration = None \/ InPrimaries(s.configuration)
               \/ s.configuration = inst_ref[n].configuration
    BY <1>0, <1>3, ComponentSays
  <2>2. pass = 4 /\ InstanceOf(n).unit_kind = "component"
    BY <1>3 DEF ResolveComponentInstantiation, AtInstance, Visiting, InstanceOf
  <2> QED
    BY <1>0, <2>1, <2>2 DEF ConfigurationsListed
<1>4. CASE LinkComponentInstantiation
  <2>1. PICK s, ms :
          /\ BindsSaying(n, s, ms) /\ AccountedAfter(ms, n, s)
          /\ s.component = inst_ref[n].component
          /\ s.configuration = None \/ InPrimaries(s.configuration)
    BY <1>0, <1>4, LinkSays
  <2>2. pass = 5 /\ UNCHANGED binding_ref
    BY <1>4 DEF LinkComponentInstantiation, AtInstance, Visiting
  <2> QED
    BY <1>0, <1>1, <2>1, <2>2 DEF DirectHasNoComponent
<1> QED
  BY <1>2, <1>3, <1>4 DEF Binding

(* What the step says that resolves an indication.                          *)
LEMMA ItemSpeaks ==
  ASSUME ReportInv, ResolvesItem
  PROVE  \E ms : /\ IsSeq(ms) /\ diagnostics' = diagnostics \o ms
                 /\ \A b \in Bindings : BareSaidAfter(ms, binding_ref'[b])
<1> DEFINE d == <<Visited, item>>
           misses == BindingMisses(LibOf(d[1]), BindingOf(d))
<1>0. /\ Registry /\ Cursor /\ Known /\ BindingsOwned /\ ItemInside
      /\ ScopesGiven /\ ClausesSound /\ ClausesTyped /\ BareSaid
  BY DEF ReportInv, TypedInv, RunInv, MembersInv, BoundInv, PassInv, ElabInv, Spoken
<1>1. ResolveItem(d) /\ d \in Bindings
  BY <1>0, ItemPlace
<1>2. PICK ms : /\ IsSeq(ms) /\ diagnostics' = diagnostics \o ms
                /\ \A kind, name : SaidIn(misses, kind, name) => SaidIn(ms, kind, name)
  BY <1>0, ItemSays
<1> HIDE DEF d, misses
<1>3. PICK x : binding_ref' = [binding_ref EXCEPT ![d] =
                 ResolveBinding(LibOf(d[1]), BindingOf(d), [@ EXCEPT !.component = x])]
  BY <1>1, Zenon DEF ResolveItem, BindingOf
<1> DEFINE r == [binding_ref[d] EXCEPT !.component = x]
<1>4. Owned(LibOf(d[1]), BindingOf(d), r) /\ BindingOf(d).aspect \in Aspects
  <2>1. Owned(LibOf(d[1]), BindingOf(d), binding_ref[d]) /\ IsRef(binding_ref[d])
    BY <1>0, <1>1 DEF BindingsOwned, Owned
  <2> QED
    BY <1>1, <2>1, ComponentAside, AspectsAreKnown
<1>5. /\ binding_ref'[d] = ResolveBinding(LibOf(d[1]), BindingOf(d), r)
      /\ \A b \in Bindings : b # d => binding_ref'[b] = binding_ref[b]
  BY <1>0, <1>1, <1>3 DEF BindingsOwned
<1> HIDE DEF r
<1>6. BareSaidAfter(ms, binding_ref'[d])
  BY <1>0, <1>2, <1>4, <1>5, BindingSaysBare DEF misses
<1>7. \A b \in Bindings : BareSaidAfter(ms, binding_ref'[b])
  BY <1>0, <1>5, <1>6, AlreadySaid DEF BareSaid
<1> QED
  BY <1>2, <1>7

LEMMA Speaks ==
  ASSUME ReportInv, Resolve
  PROVE  Says
<1>0. Registry /\ Cursor /\ ScopesGiven /\ ClausesSound /\ ElabInv /\ ItemInside
  BY DEF ReportInv, TypedInv, RunInv, MembersInv, BoundInv, PassInv, ElabInv
<1>1. ASSUME \/ ResolvePackage \/ ResolveEntity \/ ResolveContext \/ ResolveContextReference
             \/ Refers
      PROVE  Says
  BY <1>0, <1>1, HeadsSay
<1>2. ASSUME ResolvesItem PROVE Says
  BY <1>2, ItemSpeaks DEF Says
<1>3. ASSUME Binding PROVE Says
  <2>1. CurrentInstance \in Instances
    BY <1>0, <1>3, BindingPlace DEF Binding
  <2> QED
    BY <1>3, <2>1, BindingSays DEF Says, BindsSaying
<1>4. ASSUME EndPass \/ SkipUnit \/ EnterArchitecture PROVE Says
  BY <1>4 DEF EndPass, SkipUnit, EnterArchitecture, Says, vars, registryVars
<1> QED
  BY <1>1, <1>2, <1>3, <1>4 DEF Resolve, Refers, ResolvesItem, Binding

LEMMA SpokenStep ==
  ASSUME ReportInv, Resolve
  PROVE  Spoken'
<1> DEFINE n == CurrentInstance
<1>0. /\ Registry /\ Cursor /\ ScopesGiven /\ ClausesSound /\ ElabInv /\ ItemInside /\ RunInv
      /\ BindingsOwned /\ InstancesFit /\ Spoken /\ IsSeq(diagnostics)
  BY DEF ReportInv, TypedInv, RunInv, MembersInv, BoundInv, PassInv, ElabInv, Spoken
<1>1. MoreSaid
  BY <1>0, Speaks, SaysMore
<1>2. ConfigurationsSaid' /\ IsSeq(diagnostics)'
  BY <1>0, <1>1, ConfigurationsSaidStep DEF Spoken, MoreSaid
<1>3. /\ \A ek : EntityAt(ek)' = EntityAt(ek)
      /\ \A c : InPrimaries(c)' = InPrimaries(c)
  BY <1>0, ResolveIsWithinRegistry, ResolvingKeepsMeaning DEF InPrimaries, unitVars
<1>4. /\ \A kind, name : SaidOf(kind, name) => SaidOf(kind, name)'
      /\ \A r : BareSaidAfter(<<>>, r) => BareSaidAfter(<<>>, r)'
      /\ \A i, r : AccountedAfter(<<>>, i, r) => AccountedAfter(<<>>, i, r)'
  BY <1>1, StaysSaid DEF MoreSaid
<1>5. CASE Binding /\ n \in Instances /\
           \A p \in {4, 5}, i \in Instances : Seen(p, i)' /\ ~Seen(p, i) => pass = p /\ i = n
  <2>1. PICK s, ms :
          /\ BindsSaying(n, s, ms)
          /\ \A b \in Bindings : BareSaidAfter(ms, binding_ref'[b])
          /\ s.configuration = None \/ InPrimaries(s.configuration)
          /\ InstanceOf(n).unit_kind # "component" => s.component = None
          /\ pass = 5 => AccountedAfter(ms, n, s)
          /\ pass = 4 /\ InstanceOf(n).unit_kind = "entity" /\ EntityAt(NameOf(n)) = None
               => SaidIn(ms, "entity", NameOf(n))
    BY <1>5, BindingSays
  <2>2. inst_ref'[n] = s /\ \A i \in Instances : i # n => inst_ref'[i] = inst_ref[i]
    BY <1>0, <1>5, <2>1 DEF BindsSaying, Binds, InstancesFit
  <2>3. \A kind, name : SaidAfter(ms, kind, name) => SaidOf(kind, name)'
    BY <1>0, <2>1, MoreIsSaid DEF SaidAfter, BindsSaying
  <2>4. /\ \A r : BareSaidAfter(ms, r) => BareSaidAfter(<<>>, r)'
        /\ \A i, r : AccountedAfter(ms, i, r) => AccountedAfter(<<>>, i, r)'
    BY <2>3, AfterIsSaid
  <2> HIDE DEF n
  <2>5. pass \in {4, 5} /\ (pass = 4 => \A i : ~Seen(5, i))
    <3>1. pass \in {4, 5}
      BY <1>5 DEF Binding, ResolveDirectInstantiation, ResolveComponentInstantiation,
                  LinkComponentInstantiation, AtInstance, Visiting
    <3> QED
      BY <3>1 DEF Seen, Behind
  <2>6. BareSaid'
    BY <1>0, <1>4, <2>1, <2>2, <2>4 DEF Spoken, BareSaid, BindsSaying
  <2>7. ConfigurationsListed' /\ DirectHasNoComponent'
    BY <1>0, <1>3, <2>1, <2>2 DEF Spoken, ConfigurationsListed, DirectHasNoComponent
  <2>8. EntitiesSaid'
    <3> SUFFICES ASSUME NEW i \in Instances, Seen(4, i)', InstanceOf(i).unit_kind = "entity",
                        EntityAt(NameOf(i)) = None
                 PROVE  SaidOf("entity", NameOf(i))'
      BY <1>3 DEF EntitiesSaid
    <3>1. CASE Seen(4, i)
      BY <1>0, <1>4, <3>1 DEF Spoken, EntitiesSaid
    <3>2. CASE ~Seen(4, i)
      <4>1. pass = 4 /\ i = n
        BY <1>5, <3>2
      <4> QED
        BY <2>1, <2>3, <4>1 DEF SaidAfter
    <3> QED
      BY <3>1, <3>2
  <2>9. UnboundSaid'
    <3>1. ASSUME NEW i \in Instances, Seen(5, i)'
          PROVE  IF i = n THEN pass = 5 ELSE Seen(5, i)
      BY <1>5, <2>5, <3>1
    <3>2. \A i \in Instances : Seen(5, i)' =>
            IF i = n THEN AccountedAfter(ms, i, inst_ref'[i])
            ELSE AccountedAfter(<<>>, i, inst_ref'[i])
      BY <1>0, <2>1, <2>2, <3>1 DEF Spoken, UnboundSaid
    <3> QED
      BY <1>4, <2>4, <3>2 DEF UnboundSaid
  <2> QED
    BY <1>2, <2>6, <2>7, <2>8, <2>9 DEF Spoken
<1>6. CASE /\ UNCHANGED <<inst_ref, instantiated_entities>>
           /\ \A p \in {4, 5}, i \in Instances : Seen(p, i)' => Seen(p, i)
           /\ ~(Binding /\ n \in Instances)
  <2>1. BareSaid'
    <3>1. \A i \in Instances : BareSaidAfter(<<>>, inst_ref'[i])
      BY <1>0, <1>6 DEF Spoken, BareSaid
    <3>2. CASE UNCHANGED binding_ref
      BY <1>0, <1>4, <3>1, <3>2 DEF Spoken, BareSaid
    <3>3. CASE ResolvesItem
      <4>1. PICK ms : /\ IsSeq(ms) /\ diagnostics' = diagnostics \o ms
                      /\ \A b \in Bindings : BareSaidAfter(ms, binding_ref'[b])
        BY <3>3, ItemSpeaks
      <4>2. \A kind, name : SaidAfter(ms, kind, name) => SaidOf(kind, name)'
        BY <1>0, <4>1, MoreIsSaid DEF SaidAfter
      <4>3. \A r : BareSaidAfter(ms, r) => BareSaidAfter(<<>>, r)'
        BY <4>2, AfterIsSaid
      <4> QED
        BY <1>4, <3>1, <4>1, <4>3 DEF BareSaid
    <3>4. ~ResolveComponentInstantiation
      BY <1>0, <1>6, BindingPlace DEF Binding
    <3> QED
      BY <3>2, <3>3, <3>4, ReferencesKept
  <2>2. ConfigurationsListed' /\ DirectHasNoComponent'
    BY <1>0, <1>3, <1>6 DEF Spoken, ConfigurationsListed, DirectHasNoComponent
  <2>3. EntitiesSaid'
    BY <1>0, <1>3, <1>4, <1>6 DEF Spoken, EntitiesSaid
  <2>4. UnboundSaid'
    BY <1>0, <1>4, <1>6 DEF Spoken, UnboundSaid
  <2> QED
    BY <1>2, <2>1, <2>2, <2>3, <2>4 DEF Spoken
<1> QED
  BY <1>0, <1>5, <1>6, BindingSteps DEF Binding

LEMMA ReportInitInv == Init /\ ElabInit => ReportInv
<1> SUFFICES ASSUME Init, ElabInit PROVE ReportInv
  OBVIOUS
<1>1. TypedInv
  BY TypedInitInv
<1>2. IsSeq(diagnostics) /\ ConfigurationsSaid
  BY Sequences DEF Init, ConfigurationsSaid
<1>3. EntitiesSaid /\ UnboundSaid
  BY DEF ElabInit, EntitiesSaid, UnboundSaid, Seen, Behind
<1>4. BareSaid /\ ConfigurationsListed /\ DirectHasNoComponent
  BY DEF ElabInit, BareSaid, BareSaidAfter, Bare, ConfigurationsListed, DirectHasNoComponent,
         Unbound
<1> QED
  BY <1>1, <1>2, <1>3, <1>4 DEF ReportInv, Spoken

LEMMA ReportInvStep == ReportInv /\ [ElabNext]_allVars => ReportInv'
<1> SUFFICES ASSUME ReportInv, [ElabNext]_allVars PROVE ReportInv'
  OBVIOUS
<1>1. Adds \/ ResolveReferences \/ Resolve
  BY ElabSteps
<1>2. Spoken'
  BY <1>1, OutsideSays, SpokenStep
<1>3. TypedInv'
  BY TypedInvStep DEF ReportInv
<1> QED
  BY <1>2, <1>3 DEF ReportInv

(* Nothing is left unbound in silence, whatever was analysed and resolved   *)
(* before: an instance of an analysed architecture has an entity and an     *)
(* architecture after a run, or names a component that is not declared, or  *)
(* a diagnostic names what it lacks.                                        *)
THEOREM UnboundReported == ElabSpec => []UnboundIsReported
<1>1. ASSUME ReportInv, Resolved, NEW i \in Analysed
      PROVE  \/ None \notin {EntityOf(i), ArchitectureOf(i)}
             \/ InstanceOf(i).unit_kind = "component" /\ inst_ref[i].component = None
             \/ \E n \in DOMAIN diagnostics : Explains(diagnostics[n], i)
  <2>1. i \in Instances /\ RegisteredArchitecture(i[1])
    BY PlaceOfInstance DEF Analysed, RegisteredArchitecture
  <2>2. Seen(5, i)
    BY <1>1, <2>1, AllSeen DEF ReportInv, TypedInv
  <2>3. AccountedAfter(<<>>, i, inst_ref[i])
    BY <1>1, <2>1, <2>2 DEF ReportInv, Spoken, UnboundSaid
  <2> QED
    BY <2>3, ExplainsIsSaid
<1>2. ReportInv => UnboundIsReported
  BY <1>1 DEF UnboundIsReported
<1> QED
  BY <1>2, ReportInitInv, ReportInvStep, PTL DEF ElabSpec
================================================================================
