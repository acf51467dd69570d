---------------------------- MODULE MCHomeScreen ----------------------------
(* Instances of HomeScreen for TLC. Loads and periods are told apart by      *)
(* nothing, but one run checks liveness and the other is small without     *)
(* symmetry.                                                                 *)
EXTENDS HomeScreen
=============================================================================
