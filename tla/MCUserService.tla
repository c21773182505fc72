---------------------------- MODULE MCUserService ----------------------------
(***************************************************************************)
(* TLC instance of UserService.  Each request is handled once, so all is   *)
(* bounded but the repeated steps, which MaxFaults bounds.                 *)
(***************************************************************************)
EXTENDS UserService, TLC

Symmetry == Permutations(Requests) \cup Permutations(Users)
=============================================================================
