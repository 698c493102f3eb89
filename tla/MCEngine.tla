------------------------------ MODULE MCEngine ------------------------------
(***************************************************************************)
(* Engine for TLC: players and pieces of food are interchangeable.         *)
(***************************************************************************)
EXTENDS Engine, TLC

ObjectSymmetry == Permutations(PlayerIds) \cup Permutations(FoodIds)
=============================================================================
