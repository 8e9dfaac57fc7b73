------------------------- MODULE MCTurnCoordinator -------------------------
(* Small calls: a few event ids and turns, every order and repetition. *)
EXTENDS TurnCoordinator, TLC

MCSymmetry == Permutations(Turns)
=============================================================================
