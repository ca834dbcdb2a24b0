----------------------------- MODULE NameResolution -----------------------------
(***************************************************************************)
(* What resolving the references of a design comes to, without walk, scope *)
(* objects and lookups: while a call of resolve_references is under way,   *)
(* references are given their declarations or are called ambiguous, in any *)
(* order, once and for good, and as the text says.                         *)
(***************************************************************************)
EXTENDS Visibility

VARIABLES
  resolving,   \* a call is under way
  meaning,     \* the declarations a reference is to, or None
  ambiguous    \* the names called ambiguous

nameVars == <<design, resolving, meaning, ambiguous>>

Init ==
  /\ resolving = FALSE
  /\ SimpleNames \subseteq DOMAIN meaning /\ DOMAIN meaning \subseteq Slots
  /\ \A s \in DOMAIN meaning : meaning[s] = None
  /\ ambiguous = {}

(* A name means some of the declarations that compete for it, if any does;  *)
(* one that nothing around it competes for may come from a used package.    *)
MayMean(s, ref) ==
  \/ Competing(s) = <<>>
  \/ ToSet(ref.of) \subseteq {Meaning(d) : d \in ToSet(Competing(s))}

(* A name is ambiguous if several declarations compete that do not overload *)
(* each other.                                                              *)
MayBeAmbiguous(s) ==
  /\ IsSimpleName(s)
  /\ Len(Competing(s)) > 1 /\ ~Overloaded(Competing(s))

Call ==
  /\ ~resolving
  /\ resolving' = TRUE
  /\ UNCHANGED <<design, meaning, ambiguous>>

(* What has a meaning keeps it, and what is ambiguous is given none. *)
Decide ==
  /\ resolving
  /\ DOMAIN meaning' = DOMAIN meaning
  /\ \A s \in DOMAIN meaning :
       \/ meaning'[s] = meaning[s]
       \/ /\ meaning[s] = None
          /\ IsSimpleName(s) => MayMean(s, meaning'[s])
  /\ ambiguous \subseteq ambiguous'
  /\ \A s \in ambiguous' \ ambiguous : s \in DOMAIN meaning /\ MayBeAmbiguous(s)
  /\ \A s \in ambiguous' : meaning'[s] = None
  /\ UNCHANGED <<design, resolving>>

(* No name is left out that something competes for. *)
Settled ==
  \A s \in SimpleNames : meaning[s] # None \/ s \in ambiguous \/ Competing(s) = <<>>

Return ==
  /\ resolving /\ Settled
  /\ resolving' = FALSE
  /\ UNCHANGED <<design, meaning, ambiguous>>

Next == Call \/ Decide \/ Return

Spec == Init /\ [][Next]_nameVars
================================================================================
