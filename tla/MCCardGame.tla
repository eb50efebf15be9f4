----------------------------- MODULE MCCardGame -----------------------------
(* CardGame for TLC: a deck of two suits, and its symmetry. *)
EXTENDS CardGame, TLC

CONSTANTS Hearts, Spades

MCCards == Hearts \cup Spades
MCSuit == [c \in MCCards |-> IF c \in Hearts THEN "Hearts" ELSE "Spades"]

\* Cards of the same suit are interchangeable.
Symmetry == {f @@ g : f \in Permutations(Hearts), g \in Permutations(Spades)}
=============================================================================
