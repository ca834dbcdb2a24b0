------------------------------- MODULE ListProofs -------------------------------
(***************************************************************************)
(* Induction on natural numbers with a set for the property, what a        *)
(* recursive function on 0..m computes, and from these what the operators  *)
(* on vectors give: members of a set in their order, vectors joined.       *)
(***************************************************************************)
EXTENDS Lists, FiniteSetTheorems, WellFoundedInduction, NaturalsInduction,
        SequenceTheorems, TLAPS

LEMMA MinIsLeast ==
  ASSUME NEW S \in SUBSET Nat, S # {}
  PROVE  Min(S) \in S /\ \A n \in S : Min(S) <= n
<1> DEFINE R == OpToRel(<, Nat)
<1>1. PICK m \in S : \A n \in S : ~(<<n, m>> \in R)
  <2> HIDE DEF R
  <2>1. IsWellFoundedOn(R, Nat)
    BY NatLessThanWellFounded DEF R
  <2> QED
    BY <2>1, WFMin
<1>2. \A n \in S : ~(n < m)
  BY <1>1 DEF OpToRel
<1>3. \A n \in S : m <= n
  BY <1>2
<1> QED
  BY <1>3 DEF Min

LEMMA MaxIsGreatest ==
  ASSUME NEW m \in Nat, NEW S \in SUBSET (0..m), S # {}
  PROVE  Max(S) \in S /\ \A n \in S : n <= Max(S)
<1> DEFINE T == {n \in Nat : n <= m /\ m - n \in S}
<1>1. T # {} /\ T \in SUBSET Nat
  <2>1. PICK x \in S : TRUE
    OBVIOUS
  <2>2. m - x \in Nat /\ m - x <= m /\ m - (m - x) = x
    OBVIOUS
  <2> QED
    BY <2>1, <2>2
<1>2. PICK t \in T : \A n \in T : t <= n
  <2> HIDE DEF T
  <2> QED
    BY <1>1, MinIsLeast
<1>3. m - t \in S
  BY <1>2
<1>4. \A n \in S : n <= m - t
  <2> TAKE n \in S
  <2>1. m - n \in Nat /\ m - n <= m /\ m - (m - n) = n
    OBVIOUS
  <2>2. m - n \in T
    BY <2>1
  <2> QED
    BY <1>2, <2>2
<1> QED
  BY <1>3, <1>4 DEF Max

LEMMA CountingUp ==
  ASSUME NEW S, 0 \in S, \A n \in Nat : n \in S => n + 1 \in S
  PROVE  Nat \subseteq S
<1> DEFINE T == Nat \ S
<1>1. ASSUME T # {} PROVE FALSE
  <2>1. Min(T) \in T /\ \A n \in T : Min(T) <= n
    BY <1>1, MinIsLeast
  <2>2. PICK m \in T : \A n \in T : m <= n
    BY <2>1
  <2>3. m # 0 /\ m - 1 \in Nat /\ m - 1 \notin T
    BY <2>2
  <2> QED
    BY <2>3
<1> QED
  BY <1>1

(* What a recursion on 1..m by steps in S computes. *)
Stays(m, S, step) == \A k \in 1..m : \A s \in S : step[<<k, s>>] \in S
Follows(f, m, base, step) == f[0] = base /\ \A k \in 1..m : f[k] = step[<<k, f[k - 1]>>]

LEMMA Recursion ==
  ASSUME NEW m \in Nat, NEW S, NEW base \in S, NEW step, Stays(m, S, step)
  PROVE  \E f \in [0..m -> S] : Follows(f, m, base, step)
<1> USE DEF Stays, Follows
<1> DEFINE Built == {n \in Nat : n <= m => \E f \in [0..n -> S] : Follows(f, n, base, step)}
<1>1. 0 \in Built
  <2>1. [k \in 0..0 |-> base] \in [0..0 -> S] /\ Follows([k \in 0..0 |-> base], 0, base, step)
    OBVIOUS
  <2> QED
    BY <2>1
<1>2. ASSUME NEW n \in Nat, n \in Built PROVE n + 1 \in Built
  <2>1. CASE n + 1 <= m
    <3>1. PICK f \in [0..n -> S] : Follows(f, n, base, step)
      BY <1>2, <2>1
    <3> DEFINE next == step[<<n + 1, f[n]>>]
               g == [k \in 0..(n + 1) |-> IF k = n + 1 THEN next ELSE f[k]]
    <3>2. f[n] \in S /\ n + 1 \in 1..m
      BY <2>1
    <3>3. next \in S
      BY <3>2
    <3>4. next = step[<<n + 1, g[n]>>]
      BY <3>2
    <3> HIDE DEF next
    <3>5. g \in [0..(n + 1) -> S]
      BY <3>3
    <3>6. g[0] = base
      BY <3>1
    <3>7. ASSUME NEW k \in 1..(n + 1) PROVE g[k] = step[<<k, g[k - 1]>>]
      <4>1. CASE k = n + 1
        <5>1. g[k] = next /\ g[k - 1] = g[n]
          BY <4>1
        <5> HIDE DEF g
        <5> QED
          BY <3>4, <4>1, <5>1
      <4>2. CASE k # n + 1
        <5>1. k \in 1..n /\ g[k] = f[k] /\ g[k - 1] = f[k - 1]
          BY <4>2
        <5> HIDE DEF g
        <5> QED
          BY <3>1, <5>1
      <4> QED
        BY <4>1, <4>2
    <3> HIDE DEF g
    <3>8. Follows(g, n + 1, base, step)
      BY <3>6, <3>7
    <3> HIDE DEF Follows
    <3> QED
      BY <2>1, <3>5, <3>8
  <2>2. CASE ~(n + 1 <= m)
    BY <2>2
  <2> QED
    BY <2>1, <2>2
<1> HIDE DEF Built
<1>3. m \in Built
  BY <1>1, <1>2, CountingUp
<1> QED
  BY <1>3 DEF Built

(* A property of each value of a recursion on 0..m, by induction. *)
LEMMA Upwards ==
  ASSUME NEW m \in Nat, NEW f, NEW S, f[0] \in S,
         \A k \in 1..m : f[k - 1] \in S => f[k] \in S
  PROVE  \A k \in 0..m : f[k] \in S
<1> DEFINE In == {k \in Nat : k <= m => f[k] \in S}
<1>1. ASSUME NEW k \in Nat, k \in In PROVE k + 1 \in In
  <2>1. CASE k + 1 <= m
    <3>1. k + 1 \in 1..m /\ (k + 1) - 1 = k /\ f[k] \in S
      BY <1>1, <2>1
    <3> QED
      BY <3>1
  <2> QED
    BY <2>1
<1>2. 0 \in In
  OBVIOUS
<1> HIDE DEF In
<1>3. Nat \subseteq In
  BY <1>1, <1>2, CountingUp
<1> QED
  BY <1>3 DEF In

(* Among, by the sequences it is built from. *)
Filters(f, seq, A) ==
  /\ Among(seq, A) = f[Len(seq)]
  /\ f[0] = <<>>
  /\ \A k \in 1..Len(seq) :
       f[k] = IF seq[k] \in A THEN Append(f[k - 1], seq[k]) ELSE f[k - 1]

LEMMA AmongUpto ==
  ASSUME NEW T, NEW seq \in Seq(T), NEW A
  PROVE  \E f \in [0..Len(seq) -> Seq(T)] : Filters(f, seq, A)
<1> DEFINE m == Len(seq)
           W == Seq(T)
           base == <<>>
           Then(s, k) == IF seq[k] \in A THEN Append(s, seq[k]) ELSE s
           Is(f) == f = [k \in 0..m |-> IF k = 0 THEN base ELSE Then(f[k - 1], k)]
           f == CHOOSE h : Is(h)
           step == [p \in (1..m) \X W |-> Then(p[2], p[1])]
<1>1. m \in Nat /\ \A k \in 1..m : \A s \in W : Then(s, k) \in W
  OBVIOUS
<1>2. base \in W
  OBVIOUS
<1>3. Among(seq, A) = f[m]
  BY DEF Among
<1> HIDE DEF m, W, Then, base, f
<1>4. \A k \in 1..m : \A s \in W : step[<<k, s>>] = Then(s, k)
  OBVIOUS
<1> HIDE DEF step
<1>5. Stays(m, W, step)
  BY <1>1, <1>4 DEF Stays
<1>6. PICK g \in [0..m -> W] : Follows(g, m, base, step)
  BY <1>1, <1>2, <1>5, Recursion
<1>7. Is(g)
  <2> DEFINE h == [k \in 0..m |-> IF k = 0 THEN base ELSE Then(g[k - 1], k)]
  <2>1. ASSUME NEW k \in 1..m PROVE g[k] = Then(g[k - 1], k)
    <3>1. k - 1 \in 0..m
      BY <1>1
    <3> QED
      BY <1>4, <1>6, <3>1 DEF Follows
  <2>2. \A k \in 0..m : h[k] = g[k]
    BY <1>1, <1>6, <2>1 DEF Follows
  <2> QED
    BY <2>2
<1>8. Is(f)
  <2> HIDE DEF Is
  <2> QED
    BY <1>7 DEF f
<1>9. f[0] = base /\ \A k \in 1..m : f[k] = Then(f[k - 1], k)
  BY <1>1, <1>8
<1>10. \A k \in 0..m : f[k] \in W
  <2>1. \A k \in 1..m : f[k - 1] \in W => f[k] \in W
    BY <1>1, <1>9
  <2> HIDE DEF Is
  <2> QED
    BY <1>1, <1>2, <1>9, <2>1, Upwards
<1>11. f \in [0..m -> W]
  <2>1. f = [k \in 0..m |-> f[k]]
    BY <1>8
  <2> HIDE DEF Is
  <2> QED
    BY <1>10, <2>1
<1> HIDE DEF Is
<1> QED
  BY <1>3, <1>9, <1>11 DEF m, W, base, Then, Filters

(* Its type. *)
LEMMA AmongType ==
  ASSUME NEW T, NEW seq \in Seq(T), NEW A
  PROVE  Among(seq, A) \in Seq({x \in T : x \in A})
<1>1. PICK f \in [0..Len(seq) -> Seq(T)] : Filters(f, seq, A)
  BY AmongUpto
<1> DEFINE R == {x \in T : x \in A}
           W == Seq(R)
<1>2. Len(seq) \in Nat /\ Len(seq) \in 0..Len(seq) /\ \A k \in 1..Len(seq) : seq[k] \in T
  OBVIOUS
<1>a. \A s \in W : \A x \in R : Append(s, x) \in W
  OBVIOUS
<1>b. \A k \in 1..Len(seq) : seq[k] \in A => seq[k] \in R
  BY <1>2
<1>c. <<>> \in W
  OBVIOUS
<1> HIDE DEF W, R
<1>3. ASSUME NEW k \in 1..Len(seq), f[k - 1] \in W PROVE f[k] \in W
  BY <1>1, <1>a, <1>b, <1>3 DEF Filters
<1>4. f[0] \in W
  BY <1>1, <1>c DEF Filters
<1>5. \A k \in 0..Len(seq) : f[k] \in W
  BY <1>2, <1>3, <1>4, Upwards
<1> QED
  BY <1>1, <1>2, <1>5 DEF W, R, Filters

(* One member more. *)
LEMMA AmongAppend ==
  ASSUME NEW T, NEW seq \in Seq(T), NEW x \in T, NEW A
  PROVE  Among(Append(seq, x), A) =
           IF x \in A THEN Append(Among(seq, A), x) ELSE Among(seq, A)
<1> DEFINE m == Len(seq)
           more == Append(seq, x)
<1>1. PICK f \in [0..Len(seq) -> Seq(T)] : Filters(f, seq, A)
  BY AmongUpto
<1>2. m \in Nat /\ more \in Seq(T) /\ Len(more) = m + 1 /\ more[m + 1] = x
      /\ \A k \in 1..m : more[k] = seq[k]
  OBVIOUS
<1> HIDE DEF m, more
<1>3. PICK g \in [0..Len(more) -> Seq(T)] : Filters(g, more, A)
  BY <1>2, AmongUpto
<1> DEFINE h == [k \in 0..m |-> IF g[k] = f[k] THEN 1 ELSE 0]
<1>4. ASSUME NEW k \in 1..m, h[k - 1] \in {1} PROVE h[k] \in {1}
  <2>1. k \in 0..m /\ k - 1 \in 0..m /\ k \in 1..Len(more) /\ g[k - 1] = f[k - 1]
    BY <1>2, <1>4
  <2>2. g[k] = IF seq[k] \in A THEN Append(g[k - 1], seq[k]) ELSE g[k - 1]
    BY <1>2, <1>3, <2>1 DEF Filters
  <2> QED
    BY <1>1, <2>1, <2>2 DEF Filters, m
<1>5. h[0] \in {1}
  BY <1>1, <1>2, <1>3 DEF Filters
<1>6. \A k \in 0..m : h[k] \in {1}
  <2> HIDE DEF h
  <2> QED
    BY <1>2, <1>4, <1>5, Upwards
<1>7. g[m] = f[m]
  BY <1>2, <1>6
<1>8. g[m + 1] = IF x \in A THEN Append(g[(m + 1) - 1], x) ELSE g[(m + 1) - 1]
  BY <1>2, <1>3 DEF Filters
<1>9. (m + 1) - 1 = m
  BY <1>2
<1> QED
  BY <1>1, <1>2, <1>3, <1>7, <1>8, <1>9 DEF more, m, Filters

LEMMA AmongKeeps ==
  ASSUME NEW T, NEW seq \in Seq(T), NEW A
  PROVE  Among(seq, A) \in Seq(T)
<1>1. Among(seq, A) \in Seq({x \in T : x \in A})
  BY AmongType
<1>2. \A s \in Seq({x \in T : x \in A}) : s \in Seq(T)
  OBVIOUS
<1> QED
  BY <1>1, <1>2


LEMMA AmongNone == \A A : Among(<<>>, A) = <<>>
<1> TAKE A
<1> DEFINE none == <<>>
<1>1. none \in Seq({}) /\ Len(none) = 0
  OBVIOUS
<1>2. PICK f \in [0..Len(none) -> Seq({})] : Filters(f, none, A)
  BY <1>1, AmongUpto
<1> QED
  BY <1>1, <1>2 DEF Filters

--------------------------------------------------------------------------------
(* FlattenSeq, by the sequences it is built from. *)
Joins(f, seqs) ==
  /\ FlattenSeq(seqs) = f[Len(seqs)]
  /\ f[0] = <<>>
  /\ \A k \in 1..Len(seqs) : f[k] = f[k - 1] \o seqs[k]

LEMMA FlattenUpto ==
  ASSUME NEW T, NEW seqs \in Seq(Seq(T))
  PROVE  \E f \in [0..Len(seqs) -> Seq(T)] : Joins(f, seqs)
<1> DEFINE m == Len(seqs)
           W == Seq(T)
           Is(f) == f = [i \in 1..m |-> IF i = 1 THEN seqs[i] ELSE f[i - 1] \o seqs[i]]
           f == CHOOSE h : Is(h)
           step == [p \in (1..m) \X W |-> p[2] \o seqs[p[1]]]
           base == <<>>
<1>1. CASE m = 0
  <2>1. FlattenSeq(seqs) = seqs /\ seqs = base
    BY <1>1 DEF FlattenSeq
  <2> DEFINE e == [k \in 0..0 |-> base]
  <2>2. e \in [0..0 -> W] /\ e[0] = base
    OBVIOUS
  <2>3. Joins(e, seqs)
    BY <1>1, <2>1, <2>2 DEF Joins
  <2> QED
    BY <1>1, <2>2, <2>3
<1>2. CASE m # 0
  <2>1. m \in Nat /\ m \in 1..m /\ (\A k \in 1..m : seqs[k] \in W) /\ base \in W
    BY <1>2
  <2>2. FlattenSeq(seqs) = f[m]
    BY <1>2 DEF FlattenSeq
  <2>3. \A k \in 1..m : \A s \in W : step[<<k, s>>] = s \o seqs[k]
    OBVIOUS
  <2>4. \A k \in 1..m : \A s \in W : s \o seqs[k] \in W
    BY <2>1
  <2>5. \A s \in W : base \o s = s
    OBVIOUS
  <2> HIDE DEF m, W, f, step, base
  <2>6. Stays(m, W, step)
    BY <2>3, <2>4 DEF Stays
  <2>7. PICK g \in [0..m -> W] : Follows(g, m, base, step)
    BY <2>1, <2>6, Recursion
  <2>8. \A k \in 1..m : g[k] = g[k - 1] \o seqs[k]
    <3> TAKE k \in 1..m
    <3>1. k - 1 \in 0..m
      BY <2>1
    <3> QED
      BY <2>3, <2>7, <3>1 DEF Follows
  <2> DEFINE c == [k \in 1..m |-> g[k]]
             d == [i \in 1..m |-> IF i = 1 THEN seqs[i] ELSE c[i - 1] \o seqs[i]]
  <2>9. ASSUME NEW k \in 1..m PROVE d[k] = c[k]
    <3>1. CASE k = 1
      <4>1. g[k] = g[k - 1] \o seqs[k] /\ g[0] = base /\ k - 1 = 0
        <5>1. k - 1 = 0
          BY <3>1
        <5> QED
          BY <2>7, <2>8, <5>1 DEF Follows
      <4> QED
        BY <2>1, <2>5, <3>1, <4>1
    <3>2. CASE k # 1
      <4>1. k - 1 \in 1..m
        BY <2>1, <3>2
      <4> QED
        BY <2>8, <3>2, <4>1
    <3> QED
      BY <3>1, <3>2
  <2>10. Is(c)
    <3>1. c = d
      BY <2>9
    <3> QED
      BY <3>1
  <2>11. Is(f)
    <3> HIDE DEF Is, c
    <3> QED
      BY <2>10 DEF f
  <2>12. \A k \in 1..m : (k = 1 => f[k] = seqs[k]) /\ (k # 1 => f[k] = f[k - 1] \o seqs[k])
    <3> HIDE DEF c, d
    <3>1. f = [i \in 1..m |-> IF i = 1 THEN seqs[i] ELSE f[i - 1] \o seqs[i]]
      BY <2>11
    <3> HIDE DEF Is
    <3> QED
      BY <3>1
  <2> DEFINE e == [k \in 0..m |-> IF k = 0 THEN base ELSE f[k]]
  <2>13. ASSUME NEW k \in 1..m, e[k - 1] \in W PROVE e[k] \in W
    <3>1. CASE k = 1
      <4>1. k \in 0..m /\ k # 0
        BY <2>1
      <4>2. e[k] = f[k]
        BY <4>1
      <4> HIDE DEF e, Is
      <4> QED
        BY <2>1, <2>12, <3>1, <4>2
    <3>2. CASE k # 1
      <4>1. k - 1 \in 0..m /\ k - 1 # 0 /\ k \in 0..m /\ k # 0
        BY <2>1, <3>2
      <4>2. e[k - 1] = f[k - 1] /\ e[k] = f[k]
        BY <4>1
      <4> HIDE DEF e, Is
      <4> QED
        BY <2>4, <2>12, <2>13, <3>2, <4>2
    <3> QED
      BY <3>1, <3>2
  <2>14. e[0] \in W
    BY <2>1
  <2>15. \A k \in 0..m : e[k] \in W
    <3> HIDE DEF e
    <3> QED
      BY <2>1, <2>13, <2>14, Upwards
  <2>16. e \in [0..m -> W] /\ e[0] = base /\ e[m] = f[m]
    <3>1. e = [n \in 0..m |-> e[n]]
      OBVIOUS
    <3>2. e[0] = base /\ e[m] = f[m]
      BY <1>2, <2>1
    <3> HIDE DEF e
    <3>3. e \in [0..m -> W]
      BY <2>15, <3>1
    <3> QED
      BY <3>2, <3>3
  <2>17. \A k \in 1..m : e[k] = e[k - 1] \o seqs[k]
    <3> TAKE k \in 1..m
    <3>1. CASE k = 1
      <4>1. e[k] = f[k] /\ e[k - 1] = base /\ f[k] = seqs[k]
        <5>1. k \in 0..m /\ k # 0 /\ k - 1 \in 0..m /\ k - 1 = 0
          BY <2>1, <3>1
        <5> HIDE DEF Is
        <5> QED
          BY <2>12, <3>1, <5>1
      <4> HIDE DEF e
      <4> QED
        BY <2>1, <2>5, <4>1
    <3>2. CASE k # 1
      <4>1. k - 1 \in 0..m /\ k - 1 # 0 /\ k \in 0..m /\ k # 0
        BY <2>1, <3>2
      <4>2. e[k - 1] = f[k - 1] /\ e[k] = f[k]
        BY <4>1
      <4> HIDE DEF e, Is
      <4> QED
        BY <2>12, <3>2, <4>2
    <3> QED
      BY <3>1, <3>2
  <2> HIDE DEF e
  <2>18. Joins(e, seqs)
    BY <2>2, <2>16, <2>17 DEF Joins, m, base
  <2> QED
    BY <2>16, <2>18 DEF m, W
<1> QED
  BY <1>1, <1>2

(* Sequences one after the other are a sequence. *)
LEMMA FlattenedIsSeq ==
  ASSUME NEW T, NEW seqs \in Seq(Seq(T))
  PROVE  FlattenSeq(seqs) \in Seq(T)
<1>1. PICK f \in [0..Len(seqs) -> Seq(T)] : Joins(f, seqs)
  BY FlattenUpto
<1>2. Len(seqs) \in 0..Len(seqs)
  OBVIOUS
<1> QED
  BY <1>1, <1>2 DEF Joins

LEMMA FlattenNone == FlattenSeq(<<>>) = <<>>
BY DEF FlattenSeq

(* One sequence more. *)
LEMMA FlattenAppend ==
  ASSUME NEW T, NEW seqs \in Seq(Seq(T)), NEW x \in Seq(T)
  PROVE  FlattenSeq(Append(seqs, x)) = FlattenSeq(seqs) \o x
<1> DEFINE W == Seq(T)
           m == Len(seqs)
           more == Append(seqs, x)
<1>1. PICK f \in [0..Len(seqs) -> Seq(T)] : Joins(f, seqs)
  BY FlattenUpto
<1>2. seqs \in Seq(W) /\ x \in W
  OBVIOUS
<1> HIDE DEF W
<1>3. m \in Nat /\ more \in Seq(W) /\ Len(more) = m + 1 /\ more[m + 1] = x
      /\ \A k \in 1..m : more[k] = seqs[k]
  BY <1>2
<1> HIDE DEF m, more
<1>4. PICK g \in [0..Len(more) -> W] : Joins(g, more)
  BY <1>3, FlattenUpto DEF W
<1> DEFINE h == [k \in 0..m |-> IF g[k] = f[k] THEN 1 ELSE 0]
<1>5. ASSUME NEW k \in 1..m, h[k - 1] \in {1} PROVE h[k] \in {1}
  <2>1. k \in 0..m /\ k - 1 \in 0..m /\ k \in 1..Len(more) /\ g[k - 1] = f[k - 1]
    BY <1>3, <1>5
  <2>2. g[k] = g[k - 1] \o seqs[k] /\ f[k] = f[k - 1] \o seqs[k]
    BY <1>1, <1>3, <1>4, <2>1 DEF Joins, m
  <2> QED
    BY <2>1, <2>2
<1>6. h[0] \in {1}
  BY <1>1, <1>3, <1>4 DEF Joins
<1>7. \A k \in 0..m : h[k] \in {1}
  <2> HIDE DEF h
  <2> QED
    BY <1>3, <1>5, <1>6, Upwards
<1>8. g[m] = f[m]
  BY <1>3, <1>7
<1>9. m + 1 \in 1..Len(more) /\ (m + 1) - 1 = m
  BY <1>3
<1>10. g[m + 1] = g[m] \o x
  BY <1>3, <1>4, <1>9 DEF Joins
<1>11. FlattenSeq(more) = g[m + 1] /\ FlattenSeq(seqs) = f[m]
  BY <1>1, <1>3, <1>4 DEF Joins, m
<1> QED
  BY <1>8, <1>10, <1>11 DEF more

--------------------------------------------------------------------------------
(* PrefixGrows of a list, and what appending to one does. *)
LEMMA PrefixGrows ==
  ASSUME NEW T, NEW s \in Seq(T)
  PROVE  /\ SubSeq(s, 1, 0) = <<>> /\ SubSeq(s, 1, Len(s)) = s
         /\ \A k \in 1..Len(s) :
              /\ SubSeq(s, 1, k - 1) \in Seq(T)
              /\ SubSeq(s, 1, k) = Append(SubSeq(s, 1, k - 1), s[k])
  OBVIOUS

LEMMA Concatenations ==
  ASSUME NEW T, NEW s \in Seq(T), NEW t \in Seq(T)
  PROVE  /\ s \o t \in Seq(T) /\ s \o <<>> = s
         /\ \A x \in T : /\ Append(s, x) \in Seq(T)
                         /\ s \o Append(t, x) = Append(s \o t, x)
  OBVIOUS

LEMMA Repetitions ==
  ASSUME NEW T, NEW x \in T, NEW k \in Nat
  PROVE  /\ [n \in 1..k |-> x] \in Seq(T)
         /\ [n \in 1..(k + 1) |-> x] = Append([n \in 1..k |-> x], x)
  OBVIOUS

LEMMA ImageOfAppend ==
  ASSUME NEW T, NEW s \in Seq(T), NEW x \in T, NEW S, NEW h, \A y \in T : h[y] \in S
  PROVE  /\ [n \in 1..Len(s) |-> h[s[n]]] \in Seq(S)
         /\ [n \in 1..Len(Append(s, x)) |-> h[Append(s, x)[n]]]
              = Append([n \in 1..Len(s) |-> h[s[n]]], h[x])
  OBVIOUS

LEMMA TimesAppend ==
  ASSUME NEW T, NEW seq \in Seq(T), NEW u
  PROVE  /\ Times(u, seq) \in Nat
         /\ \A w \in T : Times(u, Append(seq, w)) = Times(u, seq) + (IF w = u THEN 1 ELSE 0)
<1> DEFINE S == {n \in DOMAIN seq : seq[n] = u}
<1>1. DOMAIN seq = 1..Len(seq) /\ Len(seq) \in Nat
  OBVIOUS
<1>2. IsFiniteSet(S)
  <2>1. IsFiniteSet(1..Len(seq))
    BY <1>1, FS_Interval
  <2>2. S \subseteq 1..Len(seq)
    BY <1>1
  <2> QED
    BY <2>1, <2>2, FS_Subset
<1>3. Times(u, seq) = Cardinality(S)
  BY DEF Times
<1>4. Times(u, seq) \in Nat
  BY <1>2, <1>3, FS_CardinalityType
<1>5. ASSUME NEW w \in T
      PROVE  Times(u, Append(seq, w)) = Times(u, seq) + (IF w = u THEN 1 ELSE 0)
  <2> DEFINE more == Append(seq, w)
             R == {n \in DOMAIN more : more[n] = u}
  <2>1. DOMAIN more = 1..(Len(seq) + 1) /\ more[Len(seq) + 1] = w
        /\ \A n \in 1..Len(seq) : more[n] = seq[n]
    BY <1>1
  <2>2. Times(u, more) = Cardinality(R)
    BY DEF Times
  <2> HIDE DEF more
  <2>3. CASE w = u
    <3>1. R = S \cup {Len(seq) + 1} /\ Len(seq) + 1 \notin S
      BY <1>1, <2>1, <2>3
    <3>2. Cardinality(R) = Cardinality(S) + 1
      BY <1>2, <3>1, FS_AddElement
    <3> QED
      BY <1>3, <2>2, <2>3, <3>2 DEF more
  <2>4. CASE w # u
    <3>1. R = S
      BY <1>1, <2>1, <2>4
    <3>2. Times(u, more) = Times(u, seq)
      BY <1>3, <2>2, <3>1
    <3> HIDE DEF S, R
    <3> QED
      BY <1>4, <2>4, <3>2 DEF more
  <2> QED
    BY <2>3, <2>4
<1> QED
  BY <1>4, <1>5
================================================================================
