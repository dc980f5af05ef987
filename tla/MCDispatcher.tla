---------------------------- MODULE MCDispatcher ----------------------------
(* Few workers, users and rooms.  The users are interchangeable, and so are  *)
(* the workers.                                                              *)
EXTENDS Dispatcher, TLC

Symmetry == Permutations(Users) \cup Permutations(Threads)
=============================================================================
