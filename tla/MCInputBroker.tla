---------------------------- MODULE MCInputBroker ----------------------------
EXTENDS InputBroker, TLC
CONSTANT a

OneSession == [r \in Requests |-> a]

(* Sound with OneSession.                                                  *)
Symmetry == Permutations(Requests \ (Urgent \cup Openers)) \cup Permutations(Workers)
=============================================================================
