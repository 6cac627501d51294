--------------------------------- MODULE MCLocal ---------------------------------
(***************************************************************************)
(* The scenes with two or three of everything.  In seconds: 2 stand for the *)
(* 30 of the deduplication window, 3 for a minute, 1 for the 2 a send may   *)
(* take, 4 for five minutes; a failed lookup is remembered for a shorter    *)
(* time than most answers.                                                  *)
(***************************************************************************)
EXTENDS LocalScenes, MCConfigFiles, TLC

\* A program with two files, of which one layout manages only the first and one only the second.
MCLayouts == <<<<"settings", "onboarding">>, <<"settings">>, <<"onboarding">>>>

\* Addresses, keys, hosts and updates are the same values: no two scenes are on at once.
ASSUME SameValues == Addresses = Keys /\ Keys = Hosts /\ Hosts = Updaters
AnyAddress == Permutations(Addresses) \cup Permutations(Requests)
=============================================================================
