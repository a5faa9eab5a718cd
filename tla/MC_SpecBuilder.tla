-------------------------- MODULE MC_SpecBuilder --------------------------
(* Instantiates SpecBuilder for TLC with the id range scaled from 1<<32 *)
(* to 1<<3: ids 0, 5 and 8 (the bound of Spec's range check and the     *)
(* modulus of the conversion), one word, one port mapping, euid 5.      *)
EXTENDS SpecBuilder, TLC

CONSTANTS w1, port1

MCIds == {0, 5, 8}
MCIdModulus == 8
MCMaxPorts == 1
MCEuid == 5
=============================================================================
