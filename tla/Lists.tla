--------------------------------- MODULE Lists ---------------------------------
(***************************************************************************)
(* Vectors as the registry and the resolver use them: appended to, one     *)
(* after the other, and gone through for some of their members.            *)
(***************************************************************************)
EXTENDS Naturals, Sequences, FiniteSets, SequencesExt

(* Those members of a sequence that are in a set, in their order. *)
Among(seq, S) ==
  LET Upto[k \in 0..Len(seq)] ==
        IF k = 0 THEN <<>>
        ELSE IF seq[k] \in S THEN Append(Upto[k - 1], seq[k]) ELSE Upto[k - 1]
  IN  Upto[Len(seq)]

(* How often x is in a sequence. *)
Times(x, seq) == Cardinality({n \in DOMAIN seq : seq[n] = x})
================================================================================
