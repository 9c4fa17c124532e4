-------------------------------- MODULE MCSession --------------------------------
(***************************************************************************)
(* Session for TLC: pods and actors are interchangeable.                   *)
(***************************************************************************)
EXTENDS Session, TLC

PodSymmetry == Permutations(Pods) \cup Permutations(Actors)

==================================================================================
