---------------------------- MODULE MCProbeRace ----------------------------
(* Two probers and two reloads: a prober can check the flag before a      *)
(* reload and read the config during it, and a failed reload can be      *)
(* followed by a successful one.                                           *)
EXTENDS ProbeRace, TLC

CONSTANTS p1, p2

MCProbers == {p1, p2}

Symmetry == Permutations(MCProbers)
=============================================================================
