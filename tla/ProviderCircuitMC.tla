------------------------- MODULE ProviderCircuitMC -------------------------
(***************************************************************************)
(* Small instances of ProviderCircuit.                                     *)
(***************************************************************************)
EXTENDS ProviderCircuit, TLC

OneTarget  == <<1>>
TwoTargets == <<1, 1>>

=============================================================================
