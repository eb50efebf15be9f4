----------------------------- MODULE MCDogRace ------------------------------
(* DogRace for TLC: the constants are model values given in the cfg files. *)
EXTENDS DogRace
=============================================================================
